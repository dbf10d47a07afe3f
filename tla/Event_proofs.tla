---------------------------- MODULE Event_proofs ----------------------------
(* Proofs about Event: no waiter sleeps through a signal, and an event does *)
(* what a signal may do, for any set of waiters and either kind of event;   *)
(* and about RwSynchronizer, made of two events: turns are taken.           *)
EXTENDS Event, RwSynchronizer, TLAPS

(* The type invariant of an event, for any set of waiters. *)
THEOREM EventType == EventSpec => []EventTypeOK
<1>1. EventInit => EventTypeOK
  BY DEF EventInit, EventTypeOK, Places, At
<1>2. EventTypeOK /\ [EventNext]_eventVars => EventTypeOK'
  <2> SUFFICES ASSUME EventTypeOK, [EventNext]_eventVars PROVE EventTypeOK'
    OBVIOUS
  <2> USE EventAssumption DEF EventTypeOK, Places, At
  <2>1. ASSUME NEW t \in Waiters, NEW hasTimeout \in BOOLEAN, Call(t, hasTimeout)
        PROVE EventTypeOK'
    BY <2>1 DEF Call, Succeed, Sleep
  <2>2. ASSUME NEW t \in Waiters, SpuriousWake(t) \/ Expire(t) PROVE EventTypeOK'
    BY <2>2 DEF SpuriousWake, Expire
  <2>3. ASSUME NEW t \in Waiters, Resume(t) PROVE EventTypeOK'
    BY <2>3 DEF Resume, Succeed, Sleep
  <2>4. ASSUME NEW t \in Waiters, ResumeLate(t) PROVE EventTypeOK'
    BY <2>4 DEF ResumeLate, Succeed, GiveUp
  <2>5. ASSUME notify_one PROVE EventTypeOK'
    BY <2>5 DEF notify_one, At
  <2>6. ASSUME notify_all \/ reset PROVE EventTypeOK'
    BY <2>6 DEF notify_all, reset
  <2>7. ASSUME UNCHANGED eventVars PROVE EventTypeOK'
    BY <2>7 DEF eventVars
  <2> QED BY <2>1, <2>2, <2>3, <2>4, <2>5, <2>6, <2>7 DEF EventNext
<1> QED BY <1>1, <1>2, PTL DEF EventSpec

-----------------------------------------------------------------------------
(* An event that resets itself loses no wake-up; one that does not and is *)
(* notified with notify_all wakes everybody, which is stronger.           *)
WakeInv ==
  /\ NoLostWakeup
  /\ ManualWakesAll

(* A call that succeeds found the event set, and resets it if it is to. *)
LEMMA SucceedKeepsWake ==
  ASSUME EventTypeOK, WakeInv, NEW t \in Waiters, Succeed(t), UNCHANGED kind
  PROVE  WakeInv'
<1>1. state /\ (kind.auto => ~state') /\ kind' = kind
  BY DEF Succeed
<1>2. \A u \in Waiters : pc'[u] = "asleep" => pc[u] = "asleep"
  BY DEF Succeed, EventTypeOK
<1>3. NoLostWakeup'
  BY <1>1 DEF NoLostWakeup
<1>4. ManualWakesAll => ManualWakesAll'
  BY <1>1, <1>2 DEF ManualWakesAll, At
<1> QED BY <1>3, <1>4 DEF WakeInv

(* As long as the event is not set nobody can miss anything. *)
LEMMA UnsetKeepsWake == ~state' => WakeInv'
  BY DEF WakeInv, NoLostWakeup, ManualWakesAll

LEMMA WakeInductive ==
  ASSUME EventTypeOK, WakeInv, [EventNext]_eventVars
  PROVE  WakeInv'
<1>1. ASSUME NEW t \in Waiters, NEW hasTimeout \in BOOLEAN, Call(t, hasTimeout)
      PROVE WakeInv'
  BY <1>1, SucceedKeepsWake, UnsetKeepsWake DEF Call, Sleep
<1>2. ASSUME NEW t \in Waiters, SpuriousWake(t) \/ Expire(t) PROVE WakeInv'
  <2>1. pc' \in [Waiters -> Places] /\ pc'[t] \in {"woken", "expired"}
    BY <1>2 DEF SpuriousWake, Expire, EventTypeOK, Places
  <2>2. \A u \in Waiters : pc'[u] = "asleep" => pc[u] = "asleep"
    BY <1>2 DEF SpuriousWake, Expire, EventTypeOK, Places
  <2>3. state' = state /\ kind' = kind
    BY <1>2 DEF SpuriousWake, Expire, EventTypeOK, Places
  <2>4. NoLostWakeup'
    BY <2>1 DEF NoLostWakeup, At
  <2>5. ManualWakesAll => ManualWakesAll'
    BY <2>2, <2>3 DEF ManualWakesAll, At
  <2> QED BY <2>4, <2>5 DEF WakeInv
<1>3. ASSUME NEW t \in Waiters, Resume(t) PROVE WakeInv'
  BY <1>3, SucceedKeepsWake, UnsetKeepsWake DEF Resume, Sleep
<1>4. ASSUME NEW t \in Waiters, ResumeLate(t) PROVE WakeInv'
  BY <1>4, SucceedKeepsWake, UnsetKeepsWake DEF ResumeLate, GiveUp
<1>5. ASSUME notify_one PROVE WakeInv'
  <2>1. CASE At("asleep") = {}
    BY <1>5, <2>1 DEF notify_one, WakeInv, NoLostWakeup, ManualWakesAll, At
  <2>2. CASE At("asleep") # {}
    <3>1. PICK t \in At("asleep") : pc' = [pc EXCEPT ![t] = "woken"]
      BY <1>5, <2>2 DEF notify_one
    <3>2. t \in Waiters /\ pc'[t] = "woken"
      BY <3>1 DEF EventTypeOK, At
    <3>3. "one" \in kind.notifies /\ kind' = kind
      BY <1>5 DEF notify_one
    <3>4. NoLostWakeup'
      BY <3>2 DEF NoLostWakeup, At
    <3>5. ManualWakesAll'
      BY <3>3 DEF ManualWakesAll
    <3> QED BY <3>4, <3>5 DEF WakeInv
  <2> QED BY <2>1, <2>2
<1>6. ASSUME notify_all PROVE WakeInv'
  <2>1. \A t \in Waiters : pc'[t] # "asleep"
    BY <1>6 DEF notify_all, EventTypeOK
  <2> QED BY <2>1 DEF WakeInv, NoLostWakeup, ManualWakesAll, At
<1>7. ASSUME reset PROVE WakeInv'
  BY <1>7, UnsetKeepsWake DEF reset
<1>8. ASSUME UNCHANGED eventVars PROVE WakeInv'
  BY <1>8 DEF eventVars, WakeInv, NoLostWakeup, ManualWakesAll, At
<1> QED BY <1>1, <1>2, <1>3, <1>4, <1>5, <1>6, <1>7, <1>8 DEF EventNext

LEMMA WakeAlways == EventSpec => [](EventTypeOK /\ WakeInv)
<1>1. EventInit => WakeInv
  BY DEF EventInit, WakeInv, NoLostWakeup, ManualWakesAll
<1>2. EventTypeOK /\ WakeInv /\ [EventNext]_eventVars => WakeInv'
  BY WakeInductive
<1> QED BY <1>1, <1>2, EventType, PTL DEF EventSpec

(* A sleeper of an auto-reset event never sleeps through a signal, however *)
(* it is notified.                                                         *)
THEOREM AutoLosesNoWakeup == EventSpec => []NoLostWakeup
<1>1. WakeInv => NoLostWakeup
  BY DEF WakeInv
<1> QED BY <1>1, WakeAlways, PTL

(* Nobody sleeps at an event that is set, if only notify_all is used. *)
THEOREM AllWakesAll == EventSpec => []ManualWakesAll
<1>1. WakeInv => ManualWakesAll
  BY DEF WakeInv
<1> QED BY <1>1, WakeAlways, PTL

-----------------------------------------------------------------------------
(* Refinement: the safety part of EventIsSignal *)

LEMMA InitIsSignalInit == EventInit => Abstract!SignalInit
  BY EventAssumption DEF EventInit, Abstract!SignalInit, At

(* The callers inside the event after a step in which only t moves *)
LEMMA BlockedMoves ==
  ASSUME EventTypeOK, NEW t \in Waiters, NEW place \in Places,
         pc' = [pc EXCEPT ![t] = place]
  PROVE  /\ place = "out" => (Waiters \ At("out"))' = (Waiters \ At("out")) \ {t}
         /\ place # "out" => (Waiters \ At("out"))' = (Waiters \ At("out")) \cup {t}
  BY DEF EventTypeOK, At

LEMMA SucceedIsTake ==
  ASSUME EventTypeOK, NEW t \in Waiters, Succeed(t), UNCHANGED kind
  PROVE  Abstract!Take(t)
<1>1. (Waiters \ At("out"))' = (Waiters \ At("out")) \ {t}
  BY BlockedMoves DEF Succeed, Places
<1> QED BY <1>1 DEF Succeed, Abstract!Take

LEMMA SleepIsBlock ==
  ASSUME EventTypeOK, NEW t \in Waiters, Sleep(t), UNCHANGED kind
  PROVE  Abstract!Block(t)
<1>1. (Waiters \ At("out"))' = (Waiters \ At("out")) \cup {t}
  BY BlockedMoves DEF Sleep, Places
<1> QED BY <1>1 DEF Sleep, Abstract!Block

LEMMA GiveUpIsGiveUp ==
  ASSUME EventTypeOK, NEW t \in Waiters, GiveUp(t), UNCHANGED kind
  PROVE  Abstract!GiveUp(t)
<1>1. (Waiters \ At("out"))' = (Waiters \ At("out")) \ {t}
  BY BlockedMoves DEF GiveUp, Places
<1> QED BY <1>1 DEF GiveUp, Abstract!GiveUp

LEMMA StepIsSignalStep ==
  ASSUME EventTypeOK, [EventNext]_eventVars
  PROVE  [Abstract!SignalNext]_(Abstract!signalVars)
<1> DEFINE blocked == Waiters \ At("out")
<1>1. ASSUME NEW t \in Waiters, NEW hasTimeout \in BOOLEAN, Call(t, hasTimeout)
      PROVE Abstract!SignalNext
  BY <1>1, SucceedIsTake, SleepIsBlock DEF Call, Abstract!SignalNext
<1>2. ASSUME NEW t \in Waiters, SpuriousWake(t) \/ Expire(t)
      PROVE UNCHANGED Abstract!signalVars
  <2>1. \A u \in Waiters : pc'[u] = "out" <=> pc[u] = "out"
    BY <1>2 DEF SpuriousWake, Expire, EventTypeOK
  <2>2. UNCHANGED blocked
    BY <2>1 DEF At
  <2> QED BY <1>2, <2>2 DEF SpuriousWake, Expire, Abstract!signalVars
<1>3. ASSUME NEW t \in Waiters, Resume(t) \/ ResumeLate(t) PROVE Abstract!SignalNext
  BY <1>3, SucceedIsTake, SleepIsBlock, GiveUpIsGiveUp
     DEF Resume, ResumeLate, Abstract!SignalNext
<1>4. ASSUME notify_one PROVE Abstract!Raise
  <2>1. \A u \in Waiters : pc'[u] = "out" <=> pc[u] = "out"
    BY <1>4 DEF notify_one, EventTypeOK, At
  <2>2. UNCHANGED blocked
    BY <2>1 DEF At
  <2> QED BY <1>4, <2>2 DEF notify_one, Abstract!Raise
<1>5. ASSUME notify_all PROVE Abstract!Raise
  <2>1. \A u \in Waiters : pc'[u] = "out" <=> pc[u] = "out"
    BY <1>5 DEF notify_all, EventTypeOK
  <2>2. UNCHANGED blocked
    BY <2>1 DEF At
  <2> QED BY <1>5, <2>2 DEF notify_all, Abstract!Raise
<1>6. ASSUME reset PROVE Abstract!Lower
  BY <1>6 DEF reset, At, Abstract!Lower
<1>7. ASSUME UNCHANGED eventVars PROVE UNCHANGED Abstract!signalVars
  BY <1>7 DEF eventVars, At, Abstract!signalVars
<1> QED
  BY <1>1, <1>2, <1>3, <1>4, <1>5, <1>6, <1>7 DEF EventNext, Abstract!SignalNext

(* An event implements the safety part of a signal: whatever wakes, expires *)
(* or overtakes, a call returns TRUE only by taking a raised flag and FALSE *)
(* only while the flag is lowered.                                          *)
THEOREM EventImplementsSignal ==
  EventSpec => Abstract!SignalInit /\ [][Abstract!SignalNext]_(Abstract!signalVars)
<1>1. EventTypeOK /\ [EventNext]_eventVars
        => [Abstract!SignalNext]_(Abstract!signalVars)
  BY StepIsSignalStep
<1> QED BY <1>1, InitIsSignalInit, EventType, PTL DEF EventSpec

-----------------------------------------------------------------------------
(* RwSynchronizer: the writer and the reader take turns. *)

(* One token goes round: a completion not yet reported by the reader, a frame  *)
(* free, being written, full or being read.  It is in one place at a time.     *)
Token ==
  \/ reader = "starting" /\ ~readerState /\ ~writerState /\ writer # "writing"
  \/ reader = "waiting"  /\ readerState  /\ ~writerState /\ writer # "writing"
  \/ reader = "waiting"  /\ ~readerState /\ ~writerState /\ writer = "writing"
  \/ reader = "waiting"  /\ ~readerState /\ writerState  /\ writer # "writing"
  \/ reader = "reading"  /\ ~readerState /\ ~writerState /\ writer # "writing"

TurnsInv ==
  /\ reader \in {"starting", "waiting", "reading"}
  /\ writer \in {"waiting", "writing"}
  /\ readerState \in BOOLEAN /\ writerState \in BOOLEAN
  /\ readerPc \in [{"writer"} -> {"out", "asleep", "woken", "expired"}]
  /\ writerPc \in [{"reader"} -> {"out", "asleep", "woken", "expired"}]
  /\ readerResult \in [{"writer"} -> BOOLEAN]
  /\ writerResult \in [{"reader"} -> BOOLEAN]
  /\ Token
  /\ unread = IF writerState \/ reader = "reading" THEN 1 ELSE 0

LEMMA ReaderWaitsInTurn == ASSUME TurnsInv, ReaderWaits PROVE TurnsInv'
<1>1. /\ UNCHANGED <<readerVars, writer, unread>> /\ reader = "waiting"
  BY DEF ReaderWaits
<1>2. \/ /\ writerState /\ writerState' = FALSE /\ reader' = "reading"
      \/ UNCHANGED writerState /\ reader' = "waiting"
  <2>1. CASE \E ms \in BOOLEAN : wait_to_read(ms)
    <3>1. \/ WriterEvent!Succeed("reader")
          \/ WriterEvent!Sleep("reader")
      BY <2>1 DEF wait_to_read, WriterEvent!Call
    <3> QED BY <3>1 DEF WriterEvent!Succeed, WriterEvent!Sleep, TurnsInv, ReaderWaits, ReaderGoesOn
  <2>2. CASE WriterEvent!SpuriousWake("reader") \/ WriterEvent!Expire("reader")
    BY <2>2 DEF WriterEvent!SpuriousWake, WriterEvent!Expire, TurnsInv, ReaderWaits, ReaderGoesOn
  <2>3. CASE WriterEvent!Resume("reader")
    BY <2>3 DEF WriterEvent!Resume, WriterEvent!Succeed, WriterEvent!Sleep, TurnsInv, ReaderWaits, ReaderGoesOn
  <2>4. CASE WriterEvent!ResumeLate("reader")
    BY <2>4 DEF WriterEvent!ResumeLate, WriterEvent!Succeed, WriterEvent!GiveUp, TurnsInv, ReaderWaits, ReaderGoesOn
  <2> QED BY <2>1, <2>2, <2>3, <2>4 DEF ReaderWaits
<1>3. /\ writerPc' \in [{"reader"} -> {"out", "asleep", "woken", "expired"}]
      /\ writerResult' \in [{"reader"} -> BOOLEAN]
  BY DEF ReaderWaits, wait_to_read, TurnsInv, WriterEvent!Call, WriterEvent!SpuriousWake,
         WriterEvent!Expire, WriterEvent!Resume, WriterEvent!ResumeLate,
         WriterEvent!Succeed, WriterEvent!Sleep, WriterEvent!GiveUp
<1>4. UNCHANGED <<readerState, writer, unread, readerPc, readerResult>>
  BY <1>1 DEF readerVars
<1>5. CASE writerState /\ writerState' = FALSE /\ reader' = "reading"
  BY <1>1, <1>3, <1>4, <1>5 DEF TurnsInv, Token
<1>6. CASE UNCHANGED writerState /\ reader' = "waiting"
  BY <1>1, <1>3, <1>4, <1>6 DEF TurnsInv, Token
<1> QED BY <1>2, <1>5, <1>6

LEMMA WriterWaitsInTurn == ASSUME TurnsInv, WriterWaits PROVE TurnsInv'
<1>1. /\ UNCHANGED <<writerVars, reader, unread>> /\ writer = "waiting"
  BY DEF WriterWaits
<1>2. \/ /\ readerState /\ readerState' = FALSE /\ writer' = "writing"
      \/ UNCHANGED readerState /\ writer' = "waiting"
  <2>1. CASE \E ms \in BOOLEAN : wait_to_write(ms)
    <3>1. \/ ReaderEvent!Succeed("writer")
          \/ ReaderEvent!Sleep("writer")
      BY <2>1 DEF wait_to_write, ReaderEvent!Call
    <3> QED BY <3>1 DEF ReaderEvent!Succeed, ReaderEvent!Sleep, TurnsInv, WriterWaits, WriterGoesOn
  <2>2. CASE ReaderEvent!SpuriousWake("writer") \/ ReaderEvent!Expire("writer")
    BY <2>2 DEF ReaderEvent!SpuriousWake, ReaderEvent!Expire, TurnsInv, WriterWaits, WriterGoesOn
  <2>3. CASE ReaderEvent!Resume("writer")
    BY <2>3 DEF ReaderEvent!Resume, ReaderEvent!Succeed, ReaderEvent!Sleep, TurnsInv, WriterWaits, WriterGoesOn
  <2>4. CASE ReaderEvent!ResumeLate("writer")
    BY <2>4 DEF ReaderEvent!ResumeLate, ReaderEvent!Succeed, ReaderEvent!GiveUp, TurnsInv, WriterWaits, WriterGoesOn
  <2> QED BY <2>1, <2>2, <2>3, <2>4 DEF WriterWaits
<1>3. /\ readerPc' \in [{"writer"} -> {"out", "asleep", "woken", "expired"}]
      /\ readerResult' \in [{"writer"} -> BOOLEAN]
  BY DEF WriterWaits, wait_to_write, TurnsInv, ReaderEvent!Call, ReaderEvent!SpuriousWake,
         ReaderEvent!Expire, ReaderEvent!Resume, ReaderEvent!ResumeLate,
         ReaderEvent!Succeed, ReaderEvent!Sleep, ReaderEvent!GiveUp
<1>4. UNCHANGED <<writerState, reader, unread, writerPc, writerResult>>
  BY <1>1 DEF writerVars
<1>5. CASE readerState /\ readerState' = FALSE /\ writer' = "writing"
  BY <1>1, <1>3, <1>4, <1>5 DEF TurnsInv, Token
<1>6. CASE UNCHANGED readerState /\ writer' = "waiting"
  BY <1>1, <1>3, <1>4, <1>6 DEF TurnsInv, Token
<1> QED BY <1>2, <1>5, <1>6

LEMMA ReaderReportsInTurn == ASSUME TurnsInv, ReaderReports PROVE TurnsInv'
<1>1. /\ reader \in {"starting", "reading"} /\ reader' = "waiting"
      /\ unread' = (IF reader = "reading" THEN unread - 1 ELSE unread)
      /\ UNCHANGED <<writerVars, writer>> /\ readerState' = TRUE
      /\ UNCHANGED readerResult
  BY DEF ReaderReports, read_complete, ReaderEvent!notify_one
<1>2. readerPc' \in [{"writer"} -> {"out", "asleep", "woken", "expired"}]
  BY DEF ReaderReports, read_complete, ReaderEvent!notify_one, ReaderEvent!At, TurnsInv
<1> QED BY <1>1, <1>2 DEF TurnsInv, Token, writerVars

LEMMA WriterReportsInTurn == ASSUME TurnsInv, WriterReports PROVE TurnsInv'
<1>1. /\ writer = "writing" /\ writer' = "waiting" /\ unread' = unread + 1
      /\ UNCHANGED <<readerVars, reader>> /\ writerState' = TRUE
      /\ UNCHANGED writerResult
  BY DEF WriterReports, write_complete, WriterEvent!notify_one
<1>2. writerPc' \in [{"reader"} -> {"out", "asleep", "woken", "expired"}]
  BY DEF WriterReports, write_complete, WriterEvent!notify_one, WriterEvent!At, TurnsInv
<1> QED BY <1>1, <1>2 DEF TurnsInv, Token, readerVars

(* The writer and the reader of a synchronizer are never at the frame together, *)
(* and the frame is written and read in turn, whatever waits time out or wake   *)
(* for nothing.                                                                 *)
THEOREM TurnsTaken == RwSpec => []TurnsAreTaken
<1>1. RwInit => TurnsInv
  BY DEF RwInit, ReaderEvent!EventInit, WriterEvent!EventInit, TurnsInv, Token
<1>2. TurnsInv /\ [RwNext]_rwVars => TurnsInv'
  <2> SUFFICES ASSUME TurnsInv, [RwNext]_rwVars PROVE TurnsInv'
    OBVIOUS
  <2>1. CASE UNCHANGED rwVars
    BY <2>1 DEF rwVars, readerVars, writerVars, TurnsInv, Token
  <2> QED
    BY <2>1, ReaderWaitsInTurn, WriterWaitsInTurn, ReaderReportsInTurn, WriterReportsInTurn
       DEF RwNext
<1>3. TurnsInv => TurnsAreTaken
  BY DEF TurnsInv, Token, TurnsAreTaken
<1> QED BY <1>1, <1>2, <1>3, PTL DEF RwSpec

=============================================================================
