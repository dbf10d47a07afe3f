# Verification of SDI_Reader

SDI_Reader reads SDI video that an FPGA delivers over PCIe (the `xdma` character
devices) on two channels, finds the pictures in each byte stream and hands the
latest picture of each channel to an application. This directory holds TLA+
models of the program, the TLC configurations that check them and proofs that
TLAPS checks. Everything is translated from the code under `src/`; where a
comment and the code disagree, the model follows the code; section 6 lists the
disagreements met, three of them with a run that shows them.

## 1. Inventory

Paths are relative to `src/`. "Hard" names what a unit test would hardly reach.

| component | state | operations | interacts by | hard |
|---|---|---|---|---|
| `CircleBuffer` (`src/CircleBuffer.cpp`) | `m_Buffer`, `m_ValidPosition`, `m_StorablePosition` | `pushData`, `popData`, `readData`, `isClear`, lengths and positions | called by two threads of a channel, no lock, no atomics | interleaving, stale lengths, wrap-around, order of stores |
| channel threads (`OnReadDataCh0/1`, `OnAnalysisData`, `OnAnalysisData_1` in `src/cxdma_receiver.cpp`) | `quit`, `lenOfValid`, `rd_buf`, `m_pic_buf`, `frameCnt` | read a block and push it; look for a header, wait for the next one, take the picture; skip; flush | ring, `quit`, device, `ret`/`ret_1` | shutdown in the middle of a turn, cut headers, full ring, waiting for each other |
| frame store (`ret`, `ret_1`, `mtx0`, `Start`, `Wait`, `getFrame`) | two `cv::Mat`, one mutex | `cvtColor` into `ret`, clone, resize, concatenate | both analysis threads and the application | unlocked assignment after the threads run, exception under the lock, process end |
| DMA transfer (`cxdma_reader`, `cxdma_utils`) | `_fpga_fd`, its file position | open, close, chunked read and write | called by the read thread | short reads, failure after a part, the seek that is left out |
| `cpthread` | `_tid`, `_running`, `_finished`, `_interruption_requested`, `_priority`, `_mutex` | start, exec, finish, terminate, priorities, affinity | base class of the receiver, never started | locking a mutex twice, flags across a restart |
| `event`, `cxdma_rw_synchronizer` | `_state`, mutex and condition variable; two events | wait, timed wait, notify, reset | held by the receiver, never used | lost and coalesced signals, timeouts |
| configuration (`Common`, `readConfig`) | `cfgPath`, the numbers read | lookup of a key, defaults | read once by the constructor | substring matches, `int` overflow, sizes that do not fit each other |
| library interface and demo (`sdireader.cpp`, `cxdma_demo.cpp`) | `xdma_receiver`, the demo's own `quit` | init, get frames, end | starts the receiver | process end while detached threads run |
| `time_counter`, `load_driver.sh`, `xdma.ko`, `include/spdlog` | - | - | - | not the program's own logic, see section 7 |

What makes each correct: the ring is a bounded queue whatever the interleaving;
a channel shows exactly the pictures that stand between two headers and misses
none it has room for; its threads end when told to and do not wait for each
other for ever; a transfer returns consecutive bytes; shared pictures are whole;
a thread object can be started, stopped and destroyed without locking itself up.

## 2. Modules

    CircleBuffer          index arithmetic and copies, as operators
      SpscRing            the same as steps of a producer and a consumer
        Channel           the two threads of a channel on top of the ring
          ChannelHistory  Channel with a memory of every byte the device delivered
        SpscRing_proofs   the arithmetic, the ring's invariant, the ring as a queue
          Channel_proofs        the two threads, the channel as a FrameStream, its history
    ByteFifo              abstract: a bounded queue      <- SpscRing implements it
    FrameStream           abstract: a stream of pictures <- Channel implements it
      FrameHistory        FrameStream with a memory of what became of each byte
        FrameHistory_proofs     cited by Channel_proofs
    PictureBoard          abstract: the newest pictures  <- FrameStore implements it
    DmaTransfer           one descriptor and its transfers
      DmaTransfer_proofs
    FrameStore            both shared pictures, mtx0, and the threads round them
      FrameStore_proofs
    SchedPriority         priorities and what they mean to the system, as operators
      CpThread            one thread object: its methods and its thread
        CpThread_proofs
    Signal                abstract: a flag that is waited for <- Event implements it
    Event                 a flag, a mutex and a condition variable
      RwSynchronizer      two events that make a writer and a reader take turns
      Event_proofs        theorems about both
    Config                the lookup of a setting and what readConfig makes of it
      Config_proofs
    MC*                   constants for TLC, refinement mappings

### CircleBuffer, SpscRing

A ring is a function from cells to bytes; `m_ValidPosition` and
`m_StorablePosition` are the members of that name. `pushData` is the sequence
`BeginPush` (load `m_ValidPosition`, settle how much to take), `CopyFirst` and
`CopySecond` (the `memcpy` calls), `StoreIndex` (store the position) and
`EndPush` (return). `popData` and `isClear` are a load (`BeginPop`, `BeginClear`)
and a store (`StoreValid`); `readData` is `Read`. These are the points where the
other thread can tell a difference: at `-O2` each call loads the other thread's
position once and stores its own once.

`InOrder` says in which order the stores of one push become visible. `TRUE` is
the program's order (x86). `FALSE` lets them become visible in any order, as
AArch64 may; `xdma.ko` in the repository is built for such a board. `EndPush`
waits until all stores of the call are visible: stores of different calls are
not mixed, and loads of the consumer are not reordered. Both would add behaviours
only to the machine on which `ring_race` already finds the race.

`memcpy` is one step. The consumer looks only at cells that are counted, and
`CountedIsWritten` is the statement that these are never cells being written, so
a finer step could not be told apart. The one place that looks at cells that are
not counted (the header check after `quit`) takes the outcome to be either one.

### Channel

One module for both channels: `OnReadDataCh1` and `OnAnalysisData_1` repeat
`OnReadDataCh0` and `OnAnalysisData` with other members. The actions conjoin the
steps of `SpscRing`, so the calls keep their interleaving.

* Read thread: `reader` is "open" (before `xdma_open`), "loop" (the test of
  `quit` and the `xdma_read`), "push"/"pushing" (the loop round `pushData`) and
  "close" (a failed read). `rest` is what is left of `rd_buf`. A read returns one
  of `Blocks` or fails, and the device has data `MaxReads` times.
* Analysis thread: "poll" (outer loop), "scan" (inner loop), "await" and "verify"
  (the wait for the next header and the test behind it), "header", "copy", "take",
  "picture", "show" (a picture is taken), "bad" (it is not), "skip", "level",
  "clear" (no header at the front).
* `lenOfValid` is the local of that name, with unsigned wrap-around (`Word`).
* `ret` is written under `mtx0` in one step (`AnalysisShow`), which has to wait for
  the mutex and does not look at `quit`. `mtx0` is "free", "taken" by one of the
  other threads that use it (`Others`: the other channel's analysis thread, `Wait`,
  `getFrame`), or "lost" to a `getFrame(frame)` that threw between lock and unlock
  (line 357); then the analysis thread is `Stuck`, whatever `quit` says. `Others` move
  only while this thread waits at the lock: one of them may have the mutex before it,
  again and again, and what they do with it at other times the channel cannot tell.
  The threshold `(float)0.8*m_Size` is four fifths exactly; the
  rounding of `float` moves it by less than one part in ten million.
* `isClear` has no `return`. `FallsOff = FALSE` is a compiler that returns from it
  all the same (GCC 7, which belongs to the kernel `xdma.ko` names), `TRUE` one
  that does not (GCC 8 and later at `-O2`). The thread is then "lost": the model
  says nothing of what it does, only that it does not come back.

### FrameStream, FrameHistory, ChannelHistory

`FrameStream` is what a channel promises: bytes arrive, and the front of the
queue is a picture to be shown (`Show`: a header, and another right behind the
picture), a header that does not count (`BadHeader`), a byte to pass over
(`SkipByte`), or the queue is too full (`Flush`). After `Stop` one last turn may
do anything with what is there (`LastTurn`): the code gives no promise for it.

Whether a picture the device delivered can be lost on its way is a question about
all bytes there ever were. `ChannelHistory` is `Channel` with four variables that
answer it: `delivered` (what `xdma_read` returned), `consumed` (what the analysis
thread has gone past), `frames` (the places of the headers whose picture was shown)
and `flushed` (the places of the bytes `isClear` dropped). They are written by
`Remember`, which looks at the step of the channel and constrains nothing.
`FrameHistory` is the same memory for the abstract stream, without any bound. It
has no run: it is the middle of the proof about `ChannelHistory`.

### DmaTransfer

`xdma_open`, `xdma_close`, `xdma_read` on one descriptor; a call of
`read_to_buffer` is `Seek`, `FullRead`, `ShortRead` and `ReadError` steps. A byte
is the address it was read at, so the buffer says where its bytes came from.
Whether reading moves the file position depends on the driver, which is
external: each read may or may not (`Store`).

### FrameStore, PictureBoard

`ret` and `ret_1` are `mats`, one record each: a size, two halves, each the
number of the picture it is from, so that a picture half written shows, and `text`,
whether some of the "NO INPUT" of `Wait` is drawn over it. A channel
comes in as what its analysis thread does with a complete picture: `Lock`,
`Convert` (the first half, and the size), `Unlock` (the second half). `own` says
whether the pixels it writes still belong to the Mat: `Start` and `Wait` assign
new Mats without `mtx0`, and `cvtColor` then goes on writing to the old pixels.
(Two threads at the header of one Mat are a data race that may also end the
process; then nothing more happens, which every safety property allows.)
The application is `main`: `Start` line by line, then either `getFrame` as often as
it likes, then the end of the process (`MainReturns`), after which nothing moves.
A second thread of it may call `Wait`: it assigns two Mats (`WaitReplaces`), draws
into both without `mtx0` (`WaitDraws`, in any number of strokes, into a picture that
has been converted meanwhile or under one that is being converted), and then
resizes and stacks them for ever. An analysis thread that is "away" is with its
ring, or has ended. A frame in `got` has no size: nothing depends on it. `getFrame(frame)` whose `vconcat` throws
leaves `mtx0` "lost"; the application is taken to catch the exception.

`PictureBoard` is what the application may rely on: each channel posts its pictures
one after the other, a call takes the newest of both in one step, `Start` may throw
away what was posted before it is done. From the first call of `Wait` on
("disturbed") it may throw more away, and the first picture of a call may be older
than the second. A picture is posted when its conversion begins (`Posted`), a frame
is taken when the call returns (`Taken`, which is no picture at all if the frame is
not whole or drawn over; the board has spoilt pictures only once it is "disturbed"); locking, unlocking and resizing are not seen.

### CpThread, SchedPriority

One object and the threads it starts one after the other, `1 .. MaxRuns`. `place`
is where each thread is: in `exec` ("entry", "resetting"), in `run` or between the
two looks of `interruption_requested` ("asking"), before or after `finish`
("leaving", "ended"). Methods are one action each, as `_mutex` makes them, but
where the code locks `_mutex` while it holds it: `holder` is then "exec" or
"destructor" for good. What the system refuses (attributes, stack size, creation,
scheduling, affinity) is a choice. `_tid` before the first start is `Garbage`: the
constructor does not set it.

### Event, Signal, RwSynchronizer

An action of `Event` is one critical section; a waiter that sleeps is woken by a
notification, by nothing, or by its timeout, and then competes for the mutex.
`kind` is set when the event is made and kept: `_auto`, and which notifications its
users call, because `notify_one` on an event that stays set wakes one sleeper only.
`Signal` is the promise. In `RwSynchronizer` the two threads are external: the
repository has none, so they do what the names of the methods prescribe.

### Config

A text is a sequence of characters. `Find` is `strstr`. The buffer the file is read
into is neither cleared nor terminated (`common.cpp:57`, `:74`), so of every lookup
`tails` is what stands behind the file's text up to the first zero, which may be
anything; it is empty where the memory happens to be zero. `Missing` and `Found` are
one turn of `readConfig`, which is the same code for each setting. `stoi` reads digits behind a
sign and `IsInt` says when it throws; `Product` wraps as the `int` multiplication does
on this build and turns a negative product into a huge `uint64_t`. The resolution is
720 lines when the value begins with the characters 7, 2, 0 (`strncmp`) and otherwise
1080; the sizes computed from it are left to `PictureSize` of `Channel`.

The three properties leave cases out, each by name: `Unambiguous` (the key stands
before its own line or, if it has none, nowhere in the buffer), `Ended` (the line ends
before the file does, or nothing stands behind the file) and `Fits` (a size is an
`int`). What the code does in the other cases is in section 6.

## 3. Runs

| run | expects | shows |
|---|---|---|
| `ring` | pass | `CountedIsWritten` (no counted cell is being written); `NoOverrun` (the positions do not pass each other); `RingIsFifo` (the ring implements `ByteFifo`) |
| `ring_race` | violation | finding: without an order of stores, bytes are counted that are not written |
| `channel` | pass | `ChannelTypeOK`; `LengthIsSound` (the cached length never promises too much); `ChannelIsStream` (a channel implements `FrameStream`); `RoomIsMade` (a full ring brings the analysis thread nearer to taking bytes with each of its steps); `QuitIsPrompt` (at most fifteen steps are left from `quit` on); `BlockIsStored`, `QuitEnds` (neither thread waits for the other for ever, `quit` ends both; the exception is an analysis thread stuck at a lost `mtx0`) |
| `channel_clear` | violation | finding: `isClear` may not return |
| `history` | pass | of the two threads and all the device delivered: `EveryByteIsKept` (no byte lost, doubled, reordered), `NoPictureSkipped` (no picture passed over), `PicturesAreGenuine` (what is shown is what was delivered), `PicturesGetThrough` (no picture is left waiting, whatever was in the ring before it; the same exception) |
| `transfer` | pass | `NoGapInBuffer`, `FailureTakesNothing`, whatever the driver does to the file position |
| `store` | pass | `StoreIsBoard` (the store implements `PictureBoard`: both frames of a call are of one moment); `FramesAreWhole` (of one picture each; until `Wait` is called nothing is drawn over them), `FramesAreNotEmpty`, `PicturesDoNotGoBack`, `NewestIsKept`, `PicturesAreServed`, `WaitStacksAlike`, and what it takes to lose `mtx0` (`LockLostByWidthsOnly`) |
| `cpthread` | pass | `IdNamesLiveThread`, `AffinityIsKnown`, `NoUseAfterDestroy`, `RequestsEndIt` |
| `cpthread_again` | violation | finding: `exec` waits for the mutex it holds |
| `event` | pass | `NoLostWakeup`, `ManualWakesAll`, `EventIsSignal` (an event implements `Signal`) |
| `rw` | pass | `TurnsAreTaken`, `FramesKeepPassing` |
| `config` | pass | `SettingsAreTheirLines` (with the file's own buffer or another file's text behind it), `ReadStrIsTerminated`, `ThrowsOverNumbersOnly` (a missing setting throws only if its key is behind the file) |

`store` says something one would not guess: with both channels configured for 720
lines `getFrame(frame)` throws and leaves `mtx0` locked if it is called before both
have shown a picture, because `Start` makes blank pictures of 1080 lines. The
property therefore says "an enabled channel is configured for other pictures than
the blank ones", and not "the two resolutions differ".

### Bounds

* Ring: 4 cells, two byte values, pushes of 0, 1, 2, 3 (exactly full) and 4 bytes
  (too many), pops of 0 to 4. Every split of a copy and every pair of positions
  occurs; a larger ring only repeats them, and the theorems hold for every size.
* Channel: a picture of 2 bytes, so a picture with its header is 6 bytes, and a
  ring of 11 cells, the smallest in which the next header fits behind it. Four
  blocks: a picture with its header, a header that does not count before a
  picture, a picture with the next header, and nine bytes of noise (enough to
  flush). Two reads carry the ring round its end. `Word` is 256 in the place of 2^64: larger than any length, so that an
  underflow shows.
* History: pictures of 4 bytes, so that a picture can look like a header, in a ring
  of 13 cells, the smallest that holds one between two headers. Three reads of four
  blocks, which cut headers in the middle, start beside one or put several in a row:
  every false start of a picture of this length occurs. The theorems hold for every
  size of ring and picture, every block and any number of reads.
* Transfer: chunks of 2 bytes in the place of `RW_MAX_SIZE`, up to 3 chunks.
* Store: 2 pictures of each channel (one may be thrown away by `Start`, a later one
  must not), every set of enabled channels and every pair of resolutions.
* Thread: 2 threads one after the other, 2 processors, a priority that is inherited
  and one that is not. The theorems hold for every number of each.
* Event: 3 waiters, so that one may overtake another while a third sleeps; an
  event of each kind. The synchronizer has its one writer and one reader.
* Config: keys of one character, a buffer of 4, an `int` of 8 bits, an M of 16; a
  switch, a resolution and a size. All files of up to 3 characters and all of two
  lines, right or wrong, one key being a part of another, values with a sign, a
  comment, too large for an `int` or for the buffer; behind the file nothing, or text
  that goes on the last line, has a number key with a number, or one with none.

### Fairness

`FairSpec` is weakly fair to each thread of a channel as a whole: both are
runnable threads of their own and wait by sleeping and polling, but at `mtx0`, where
the analysis thread blocks. It is weakly fair to whoever has `mtx0` at that moment, who
comes to its unlock or to the exception, and strongly fair to `AnalysisShow`:
`std::mutex` promises no order, but the others sleep outside `mtx0` (10 ms, 30 ms, until
the next picture), so a thread that keeps waiting gets it unless it is lost. It may be
lost, and the liveness properties then say what is left: `BlockIsStored`, `QuitEnds` and
`PicturesGetThrough` except `Stuck`. (The demo never calls the `getFrame` that loses it;
an application may.) `PicturesGetThrough` is of `FairHistorySpec`, the same fairness with
the memory added. Nothing is assumed of the signal. The device
may fail for ever; it is assumed only that `xdma_open` and `xdma_read` return,
which the non-blocking descriptor justifies.

`StoreSpec` is weakly fair to whoever holds `mtx0` and to the end of a getFrame, and
strongly fair to the application's attempts to lock: `std::mutex` promises no order,
but every thread sleeps outside `mtx0` between two attempts. No fairness makes
anybody send the signal, call `Wait` or deliver a picture. `CpSpec` lets a thread go
on and get `_mutex`, and is strongly fair to a `run()` that asks whether it should
stop and heeds the answer: that is the contract of `interruption_requested`; nobody
has to call a method. `EventSpec` gives the mutex to a waiter that has been woken;
`RwSpec` adds that both threads keep calling; no timeout has to occur and no
notification has to be given for nothing.

### Deadlock

Checked but in `store` (the process
comes to its end), `cpthread` (an object whose destructor or `exec` waits for itself
stops for good) and `config` (`readConfig` ends). A channel both of whose threads
have ended stutters (`Terminated`).

## 4. Proofs

`SpscRing_proofs` begins with lemmas about the arithmetic of `CircleBuffer`: "`+= n; %= m_Size`" is
at most one subtraction, the number of valid bytes is the distance from one
position to the other, storing n bytes adds n, dropping removes, and the copies
stay within buffer and source. It proves for every `Size` from 1
on, every set of bytes, and whatever is pushed and asked for:

* `RingInvariant`: the inductive invariant `RingIInv`.
* `RingTypeCorrect`: `RingSpec => []RingTypeOK`.
* `CountedWritten`: `RingSpec => [](InOrder => CountedIsWritten)`.
* `OverrunNever`: `RingSpec => NoOverrun`, whatever `InOrder`.
* `RingImplementsFifo`: `InOrder /\ RingSpec => RingIsFifo`, the ring implements `ByteFifo`.

Type correctness is not inductive: that `StoreIndex` stays within the ring
depends on the room `BeginPush` found, which belongs to another moment.
`RingIInv` carries it over: while the position is still to be stored, the valid
bytes and the bytes being copied together leave a cell free (`PushFits`); while a
drop is still to be stored, what it drops is still counted (`PopFits`). Both
survive the other thread's steps because each thread only ever makes the other's
estimate more generous. `IndexIsLast` adds the order of stores, and is what
`CountedWritten` needs and the weak machine lacks. The assumptions are
`SizeAssumption` and `RingAssumption`, for the channel also `ChannelAssumption`
and `RingUseAssumption` (what the channel pushes and pops is among what the ring
is analysed for); TLC evaluates all of them in the runs.

`RingImplementsFifo` maps the queue to `Contents`, the bytes the positions count.
A push takes effect where it stores `m_StorablePosition`: `Copied` says that until
then the copies it has made stand where it made them, and `ContentsGrow` that the
store then appends exactly them. Its copies go to cells that are not counted, so
they are invisible (`CopyIsSilent`). A pop or clear takes effect where it stores
`m_ValidPosition` (`ContentsShrink`), and `readData` returns a prefix
(`ReadIsPrefix`). Every other step stutters.

`Channel_proofs` proves for every size of ring and picture, every set of blocks
the device may deliver and whatever `FallsOff` and `InOrder`:

* `ChannelUsesRing`: `Spec => RingSpec`. The threads of a channel never overlap
  two calls of the same side, so the theorems about the ring hold in it.
* `ChannelTypeCorrect`: `Spec => []ChannelTypeOK`.
* `LengthSound`: `Spec => []LengthIsSound`.

The invariant is `ChannelIInv`. `LengthIsSound` speaks of the moments at which
`lenOfValid` is used; between them the analysis thread has begun a `popData` whose
position is not stored yet, or stored it and not counted down. `LengthSuffices`
covers every place of the thread and adds that the local is long enough for what
is still to be counted down, so that no subtraction wraps; `DropsAtMost` says that
a `popData` takes no more than the caller will subtract. `quit` ends the wait for
the next header without the bytes, so `LengthSuffices` and `LengthIsSound` are
stated up to `quit`; after it the local may wrap, which its type allows.

Its last section proves `ChannelImplementsStream`, that is
`InOrder /\ Spec => ChannelIsStream`. The queue of the stream is the queue of
`RingImplementsFifo`. What the channel consumes and shows takes several of its steps
(the test for a header, a `popData` of 4, the copy, a `popData` of a picture), and the
stream does it in one; `ViewInv` carries across them what the thread has seen:
the header at the front and the one behind the picture still stand there, because
the read thread only appends (`ReaderAppends`), and a `popData` that has begun drops
what it was asked for. `LengthSuffices` is what makes the test look at received bytes
(`HeaderIsThere`). After `quit` neither need hold, and the step is the stream's
`LastTurn`.

`EndIsNear` is the safety half of `QuitEnds`: the rank `StepsLeft` goes down with
every step after `quit`, so neither thread goes through a loop once more, and that
is true of every size and whatever `InOrder` and `FallsOff` (steps of other threads at
`mtx0` do not count, and it is left to `QuitEnds` that a wait there ends or is for a lost
mutex). `RoomMade` is that of
`BlockIsStored`, for the case the two threads could wait for each other: the ring is
full. `RoomLeft` ranks the places of the analysis thread by how far they are from a
`popData` or `isClear`. It goes down only because a thread that waits for the next
header in a full ring sees enough bytes when it looks again (`LengthSuffices` and the
size of the ring), and a thread that looks for a header either finds one or drops a
byte; `ViewInv` says so. Both theorems leave to liveness only that a thread that can
go on does.

`BytesKept`, `NoPictureLost` and `PicturesGenuine` are about `ChannelHistory`, from the
device to the shown picture, with `InOrder`. Their invariant (`Trace`) says that the
memory is one `FrameHistory` could have, and that `delivered` is its stream with what
is still to be pushed behind it (`EveryByteIsKept`). A step of the analysis thread is a step
of `FrameHistory` or not noticed (`AnalysisIsHistory`); a `pushData` that stores its
position is an arrival; a read only lengthens what is still to be pushed. What
`FrameHistory` proves of the bytes that have arrived then holds of `delivered`, because
what has been decided stays right as more is delivered (`DeliveredIsMore`, `MoreBytes`). After
`quit` nothing of the kind is promised, see `LastTurn`.

`FrameHistory_proofs`: `NoneSkipped` and `ShownAreGenuine`, for pictures of every
size. They are theorems under the hypothesis `StreamAssumption`, which a channel's
constants satisfy (`HistoryParameters` in `Channel_proofs`). `NoFrameSkipped` is not inductive: a place passed over before the header behind
it arrived would have to stay harmless. The invariant says why it does: every byte
gone past is `Accounted`, shown, flushed, within a picture that was shown, or
`RuledOut`, which needs four received bytes that are no header, there or a picture
further on; received bytes do not change.

`DmaTransfer_proofs`: `TransferType`, `NothingTaken` and `NoGap`, for every chunk
size and number of chunks. The invariant (`ProgressInv`) says that while a transfer
is under way the buffer holds `count` consecutive bytes from its address and the
next read continues behind them: the offset is where the position must be, either
because it was sought or because it never moved.

`FrameStore_proofs`: nine theorems, for any number of pictures, from two
invariants. `LockInv` says who holds `mtx0` and that at most one thread is inside.
`MatInv` says what the Mats hold: half a picture only while its writer still owns
the pixels, and else the newest picture or an older one because the Mat was replaced.
`StoreType`, `FramesThere`, `NewestKept` and `WaitStacks` follow.
`QuietInv`, which holds until `Wait` is called, adds that nothing is drawn over a Mat or
a frame, that no frame handed out is newer than its Mat and that only enabled channels
change a Mat's size; `SnapshotPairs`, `LostByWidths` and `NoGoingBack` follow from it.
`WholeFrames` needs both: that frames are of one picture each whatever `Wait` does, and that
nothing is drawn over them before it is called. `StoreImplementsBoard` is the refinement,
`StoreSpec => StoreIsBoard`: a conversion is a `Post`, the Mats `Start` and `Wait`
replace are `Prepare` and `Disturb`, the end of a call is a `Take` (because its clone
is still the newest picture, `QuietInv`, and nobody is inside the mutex, `LockInv`) or
with `Wait` about a `TakeApart`; everything else stutters. It needs that no Mat and no
clone has a picture that was not posted (`PostedInv`), also with `Wait`.

`CpThread_proofs`: `SchedulingInRange` and `LevelsAreApart` about the arithmetic of
priorities (for any range of the system, the latter from twelve steps on), and
`CpType`, `IdIsLive`, `AffinityKnown`, `NothingUsesTheDestroyed`. The invariant
(`LiveInv`) ties `_running`, `_finished` and `_tid` to the one thread that is not at
its end, wherever a refusal left them.

`Event_proofs`: `EventType`, `AutoLosesNoWakeup`, `AllWakesAll`, for any number of
waiters, and `EventImplementsSignal`, the safety half of the refinement: every step
of an event is a step of the signal or a stutter. `TurnsTaken` proves
`TurnsAreTaken` of `RwSynchronizer`: its invariant (`Token`) is that one token, a
report of completion, a free frame or a full one, is in one place at a time.

`Config_proofs`: `SettingsCorrect`, `ReadStrTerminated` and `ThrowsOverNumbers`, for
every file, list of settings and size of buffer and `int`. The invariant (`CfgIInv`)
needs that `read_str` is clear before each setting: then the string in it is the
value copied last (`CopyIsString`). The lookup is in the file's text with anything
behind it. `InFront` says that a key within the text is found at its place there too, and
`FoundOnItsLine` that the value behind the place `strstr` finds is that of the line,
when the place is one and the line ends before the other text begins: no stop stands
before the end of the line in either, because keys hold neither a line end nor an
"=". Nothing is assumed of what `stoi` makes of digits and a sign, only that it returns
an `int` or throws. The exceptions of the properties (section 2) are those of the theorems.

## 5. Checked by TLC only

Liveness, which the prover cannot treat: `BlockIsStored`, `QuitEnds`,
`PicturesGetThrough`, `PicturesAreServed`, `RequestsEndIt`, `FramesKeepPassing` and the
fair half of `EventIsSignal`. Of `QuitEnds` and `BlockIsStored` the part that is not
about fairness is proved (`EndIsNear`, `RoomMade`). That `stoi` computes the number its digits write is not
proved either; the run `config` evaluates it.

## 6. Disagreements and plan

Three runs show code that does not do what it says: `ring_race`, `channel_clear`,
`cpthread_again`. Others were met while modelling. The models contain them, and the
properties name them as exceptions:

* `cxdma_receiver.cpp:602`: `quit` ends the wait for the next header with bytes
  missing, and line 611 looks at cells not received, against the comment in line
  609. `FrameStream` has `LastTurn` for it.
* `cxdma_receiver.cpp:250`: nothing compares `CIRCLEBUFFER_CAPACITY` with a picture;
  in a ring of less than 8 bytes more than one the two threads of a channel wait for
  each other for ever. The runs use the smallest ring that is large enough. The
  product is one of `int`s and wraps from 2048 on, and `std::stoi` takes a "-1", from
  which comes a `uint64_t` of nearly 2^64 (`Fits` in `Config`).
* `cxdma_utils.cpp:23`: address 0 is never sought (`NoGapInBuffer`).
* `cxdma_receiver.cpp:357`: an exception leaves `mtx0` locked. An analysis thread that
  comes to its lock (636, 781) then never ends, `quit` or not; its ring fills and its
  read thread retries until `quit` (`Stuck` in `Channel`).
* `cxdma_receiver.cpp:329`: `Wait` draws into both Mats without `mtx0`, so that its NO
  INPUT may stand over a picture that has just come (`FramesAreWhole`).
* `cxdma_receiver.cpp:332`: `Wait`, "wait for the exit" (line 313), does not end.
* `cxdma_demo.cpp:109`: the end of `main` cuts the detached threads off, against the
  comment in `cxdma_receiver.cpp:284`.
* `cpthread.cpp:220`: nothing clears `_interruption_requested`; an object that is
  started again tells its new thread to stop.
* `cpthread.cpp:138`: the fallback for a refused idle priority waits for a return
  value of -1, which `pthread_setschedparam` does not give.
* `common.cpp:81`: a key is found inside another key of an earlier line, in a value or
  in a comment (`Unambiguous` in `Config`).
* `common.cpp:57`, `:74`: the buffer is 4096 bytes that nothing clears or terminates. A
  key that is not in the file may be found behind it, and a last line without a line
  break runs on into what is there (`Unambiguous`, `Ended`); a missing number may in this
  way stop the constructor (`ThrowsOverNumbersOnly`).
* `cpthread.cpp:18`: the destructor holds `_mutex` and calls two methods that lock it:
  it never returns while its thread is there. `NoUseAfterDestroy` speaks of the
  destructors that do return.
* `cxdma_utils.cpp:43`: a read that fails after earlier chunks forgets their bytes.
  `FailureTakesNothing` speaks of transfers of one chunk, which the receiver's are.

Every component of the program's own logic is modelled, and every safety property of
a passing run is proved for every value of the constants. What is left to prove are
the parts of the remaining liveness properties that fairness has nothing to do with,
as was done for `QuitEnds` and `BlockIsStored`: that a picture at the front of a ring
stays there until it is shown and each step of the analysis thread brings it nearer
(`PicturesGetThrough`), and that a request to end leaves a thread only so many steps
(`RequestsEndIt`); and an abstract specification of a transfer that `DmaTransfer`
implements.

## 7. Not modelled

* `time_counter`: a stopwatch whose readings go to disabled messages.
* `load_driver.sh`, `xdma.ko`: loading a binary driver. The device is external.
* `include/spdlog`: vendored and unused.
  It is most of the repository's lines: the models cover the program's own sources.
* `Sdireader_GetFrame` before `Sdireader_Init` dereferences a null pointer.
* `~cxdma_receiver`: nothing in the repository destroys a receiver. It would delete
  ring pointers that the constructor sets for enabled channels only.
* `isFull`, `isEmpty`: change nothing and are never called.
* What `printf` writes, what OpenCV computes, the time a `usleep` takes.
