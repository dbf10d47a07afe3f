--------------------------- MODULE RwSynchronizer ---------------------------
(***************************************************************************)
(* cxdma_rw_synchronizer: a writer and a reader of one shared frame who    *)
(* take turns by means of two auto-reset events.  Nothing in the           *)
(* repository calls its methods (sdireader.cpp hands one to the receiver,  *)
(* which keeps a reference), so what the two threads do between the calls  *)
(* is the use its names prescribe: wait, touch the frame, report           *)
(* completion; a wait that timed out is made again.  Both events start     *)
(* unset, so the reader has to report a completion before it waits.        *)
(***************************************************************************)
EXTENDS Naturals

VARIABLES
  readerState, readerPc, readerTimed, readerResult,  (* _reader_event *)
  writerState, writerPc, writerTimed, writerResult,  (* _writer_event *)
  reader,      (* "starting", "waiting", "reading"          *)
  writer,      (* "waiting", "writing"                      *)
  unread       (* frames written and not yet read           *)

readerVars == <<readerState, readerPc, readerTimed, readerResult>>
writerVars == <<writerState, writerPc, writerTimed, writerResult>>
rwVars == <<readerVars, writerVars, reader, writer, unread>>

(* Both events reset themselves and are notified with notify_one. *)
TurnEvents == {[auto |-> TRUE, notifies |-> {"one"}]}

(* The reader signals _reader_event and the writer waits for it. *)
ReaderEvent == INSTANCE Event WITH
  Waiters <- {"writer"}, Kinds <- TurnEvents,
  kind <- [auto |-> TRUE, notifies |-> {"one"}],
  state <- readerState, pc <- readerPc,
  timed <- readerTimed, result <- readerResult

WriterEvent == INSTANCE Event WITH
  Waiters <- {"reader"}, Kinds <- TurnEvents,
  kind <- [auto |-> TRUE, notifies |-> {"one"}],
  state <- writerState, pc <- writerPc,
  timed <- writerTimed, result <- writerResult

RwInit ==
  /\ ReaderEvent!EventInit
  /\ WriterEvent!EventInit
  /\ reader = "starting"
  /\ writer = "waiting"
  /\ unread = 0

(* Mutant of wait_to_write: it does not wait when nothing is unread. *)
wait_to_write_at_once(ms) ==
  /\ readerPc["writer"] = "out"
  /\ readerResult' = [readerResult EXCEPT !["writer"] = TRUE]
  /\ UNCHANGED <<readerState, readerPc, readerTimed>>

(* Mutant of read_complete: only a writer who already waits is told. *)
read_complete_if_waited_for ==
  IF readerPc["writer"] = "asleep" THEN ReaderEvent!notify_one
                                   ELSE UNCHANGED readerVars

wait_to_read(ms) == WriterEvent!Call("reader", ms)
wait_to_write(ms) == ReaderEvent!Call("writer", ms)
read_complete == ReaderEvent!notify_one
write_complete == WriterEvent!notify_one

-----------------------------------------------------------------------------
(* The two threads. A call that ends with TRUE lets its caller go on. *)

ReaderGoesOn ==
  reader' = IF writerPc'["reader"] = "out" /\ writerResult'["reader"]
              THEN "reading" ELSE "waiting"

WriterGoesOn ==
  writer' = IF readerPc'["writer"] = "out" /\ readerResult'["writer"]
              THEN "writing" ELSE "waiting"

ReaderWaits ==
  /\ reader = "waiting"
  /\ \/ \E ms \in BOOLEAN : wait_to_read(ms)
     \/ WriterEvent!SpuriousWake("reader")
     \/ WriterEvent!Expire("reader")
     \/ WriterEvent!Resume("reader")
     \/ WriterEvent!ResumeLate("reader")
  /\ ReaderGoesOn
  /\ UNCHANGED <<readerVars, writer, unread>>

(* The first completion reports that the frame is free. *)
ReaderReports ==
  /\ reader \in {"starting", "reading"}
  /\ read_complete
  /\ reader' = "waiting"
  /\ unread' = IF reader = "reading" THEN unread - 1 ELSE unread
  /\ UNCHANGED <<writerVars, writer>>

WriterWaits ==
  /\ writer = "waiting"
  /\ \/ \E ms \in BOOLEAN : wait_to_write(ms)
     \/ ReaderEvent!SpuriousWake("writer")
     \/ ReaderEvent!Expire("writer")
     \/ ReaderEvent!Resume("writer")
     \/ ReaderEvent!ResumeLate("writer")
  /\ WriterGoesOn
  /\ UNCHANGED <<writerVars, reader, unread>>

WriterReports ==
  /\ writer = "writing"
  /\ write_complete
  /\ writer' = "waiting"
  /\ unread' = unread + 1
  /\ UNCHANGED <<readerVars, reader>>

RwNext == ReaderWaits \/ ReaderReports \/ WriterWaits \/ WriterReports

(* Each thread keeps calling; a thread that wants a mutex gets it.  No wait *)
(* has to time out and none has to be woken without a cause.                *)
RwSpec ==
  /\ RwInit
  /\ [][RwNext]_rwVars
  /\ WF_rwVars(ReaderReports)
  /\ WF_rwVars(WriterReports)
  /\ WF_rwVars(ReaderWaits /\ writerPc["reader"] # "asleep")
  /\ WF_rwVars(WriterWaits /\ readerPc["writer"] # "asleep")

-----------------------------------------------------------------------------
(* Properties *)

(* The reader and the writer are never at the frame together, the writer    *)
(* never writes over a frame that has not been read and the reader never    *)
(* reads a frame twice, although signals are flags that fall together and   *)
(* waits time out, wake for nothing and are called again.                   *)
TurnsAreTaken ==
  /\ reader = "reading" => unread = 1
  /\ writer = "writing" => unread = 0

(* Neither side waits for ever: frame after frame is written and read.  No  *)
(* signal given while the other side is between two waits is lost.          *)
FramesKeepPassing ==
  /\ []<>(writer = "writing")
  /\ []<>(reader = "reading")

=============================================================================
