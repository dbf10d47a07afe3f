------------------------------ MODULE SpscRing ------------------------------
(***************************************************************************)
(* A CircleBuffer shared by two threads without a lock, as cxdma_receiver  *)
(* shares one between a channel's read thread and its analysis thread: one *)
(* thread calls pushData, the other popData, readData and isClear.         *)
(*                                                                         *)
(* Neither position is atomic.  A call is therefore split at its accesses  *)
(* to what the other thread uses: the load of the other thread's position, *)
(* each memcpy, and the store of its own position.  At -O2 a call loads    *)
(* the foreign position once and stores its own once (the intermediate     *)
(* value of "p += n; p %= m_Size" stays in a register).                    *)
(*                                                                         *)
(* InOrder = FALSE is the machine the driver in the repository is built    *)
(* for (xdma.ko is an aarch64 module): nothing orders the stores of one    *)
(* pushData call, so they may become visible in any order.  InOrder = TRUE *)
(* is a machine that keeps the program's order of stores.                  *)
(***************************************************************************)
EXTENDS CircleBuffer

CONSTANTS
  Chunks,   (* what pushData may be given: sequences of bytes        *)
  Pops,     (* what popData and readData may be asked for            *)
  Garbage,  (* the bytes fresh memory may hold: new uint8_t[size]    *)
  InOrder   (* whether one thread's stores are seen in program order *)

ASSUME RingAssumption ==
  /\ Chunks \subseteq Seq(Byte)
  /\ Pops \subseteq Nat
  /\ Garbage \subseteq Byte
  /\ InOrder \in BOOLEAN

VARIABLES
  m_Buffer,
  m_ValidPosition,       (* written by the consumer only              *)
  m_StorablePosition,    (* written by the producer only              *)
  producer,              (* "idle", or "push" inside pushData         *)
  chunk,                 (* its argument                              *)
  count,                 (* the number of bytes it takes              *)
  base,                  (* m_StorablePosition when it was called     *)
  todo,                  (* those of its stores not yet visible       *)
  consumer,              (* "idle", or "store" inside popData/isClear *)
  target,                (* the m_ValidPosition that call will store  *)
  linear                 (* what readData last copied out             *)

producerVars == <<m_StorablePosition, producer, chunk, count, base, todo>>
consumerVars == <<m_ValidPosition, consumer, target, linear>>
ringVars == <<m_Buffer, producerVars, consumerVars>>

(* The stores of pushData, in program order. *)
Stores == {"first", "second", "index"}

(* Mutant of Before: m_StorablePosition moves on ahead of the bytes. *)
BeforeIndexFirst(store) ==
  CASE store = "first"  -> {"index"}
    [] store = "second" -> {"index", "first"}
    [] store = "index"  -> {}

Before(store) ==
  CASE store = "first"  -> {}
    [] store = "second" -> {"first"}
    [] store = "index"  -> {"first", "second"}

(* A fresh ring; isFull, isEmpty and the destructor change nothing. *)
RingInit ==
  /\ m_Buffer \in [Cells -> Garbage]
  /\ m_ValidPosition = 0
  /\ m_StorablePosition = 0
  /\ producer = "idle"
  /\ chunk = <<>>
  /\ count = 0
  /\ base = 0
  /\ todo = {}
  /\ consumer = "idle"
  /\ target = 0
  /\ linear = <<>>

-----------------------------------------------------------------------------
(* pushData *)

(* Loads m_ValidPosition and settles how much to take and where it goes. *)
BeginPush(bytes) ==
  /\ producer = "idle"
  /\ LET n == PushLength(Len(bytes),
                getLenOfValidSpace(m_ValidPosition, m_StorablePosition))
     IN /\ count' = n
        /\ todo' = IF Wraps(m_StorablePosition, n) THEN Stores
                                                   ELSE Stores \ {"second"}
  /\ producer' = "push"
  /\ chunk' = bytes
  /\ base' = m_StorablePosition
  /\ UNCHANGED <<m_Buffer, m_StorablePosition, consumerVars>>

MayStore(store) ==
  /\ store \in todo
  /\ InOrder => Before(store) \cap todo = {}

CopyFirst ==
  /\ MayStore("first")
  /\ m_Buffer' = Memcpy(m_Buffer, base, chunk, 0, FirstLength(base, count))
  /\ todo' = todo \ {"first"}
  /\ UNCHANGED <<m_StorablePosition, producer, chunk, count, base, consumerVars>>

CopySecond ==
  /\ MayStore("second")
  /\ LET first == FirstLength(base, count)
     IN m_Buffer' = Memcpy(m_Buffer, 0, chunk, first, count - first)
  /\ todo' = todo \ {"second"}
  /\ UNCHANGED <<m_StorablePosition, producer, chunk, count, base, consumerVars>>

StoreIndex ==
  /\ MayStore("index")
  /\ m_StorablePosition' = Advance(base, count)
  /\ todo' = todo \ {"index"}
  /\ UNCHANGED <<m_Buffer, producer, chunk, count, base, consumerVars>>

(* The call returns count to its caller; its locals are gone. *)
EndPush ==
  /\ producer = "push"
  /\ todo = {}
  /\ producer' = "idle"
  /\ chunk' = <<>>
  /\ count' = 0
  /\ base' = 0
  /\ UNCHANGED <<m_Buffer, m_StorablePosition, todo, consumerVars>>

-----------------------------------------------------------------------------
(* popData, isClear, readData *)

(* popData loads m_StorablePosition to bound what it drops. *)
BeginPop(n) ==
  /\ consumer = "idle"
  /\ target' = Advance(m_ValidPosition,
                 PopLength(n, getLenOfValidData(m_ValidPosition, m_StorablePosition)))
  /\ consumer' = "store"
  /\ UNCHANGED <<m_Buffer, m_ValidPosition, linear, producerVars>>

(* isClear, in spite of its name, drops what m_StorablePosition counts. *)
BeginClear ==
  /\ consumer = "idle"
  /\ target' = m_StorablePosition
  /\ consumer' = "store"
  /\ UNCHANGED <<m_Buffer, m_ValidPosition, linear, producerVars>>

StoreValid ==
  /\ consumer = "store"
  /\ m_ValidPosition' = target
  /\ consumer' = "idle"
  /\ target' = 0
  /\ UNCHANGED <<m_Buffer, linear, producerVars>>

(* readData returns 0 and leaves the destination alone when the ring holds *)
(* fewer bytes than it is asked for.                                       *)
Read(n) ==
  /\ consumer = "idle"
  /\ linear' = IF n > 0 /\ n <= getLenOfValidData(m_ValidPosition, m_StorablePosition)
                 THEN ReadBytes(m_Buffer, m_ValidPosition, n)
                 ELSE linear
  /\ UNCHANGED <<m_Buffer, m_ValidPosition, consumer, target, producerVars>>

-----------------------------------------------------------------------------
Produce ==
  \/ \E bytes \in Chunks : BeginPush(bytes)
  \/ CopyFirst
  \/ CopySecond
  \/ StoreIndex
  \/ EndPush

Consume ==
  \/ \E n \in Pops : BeginPop(n) \/ Read(n)
  \/ BeginClear
  \/ StoreValid

RingNext == Produce \/ Consume

RingSpec == RingInit /\ [][RingNext]_ringVars

-----------------------------------------------------------------------------
(* Properties *)

RingTypeOK ==
  /\ m_Buffer \in [Cells -> Byte]
  /\ m_ValidPosition \in Cells
  /\ m_StorablePosition \in Cells
  /\ producer \in {"idle", "push"}
  /\ chunk \in Seq(Byte)
  /\ count \in 0 .. Size - 1
  /\ base \in Cells
  /\ todo \in SUBSET Stores
  /\ consumer \in {"idle", "store"}
  /\ target \in Cells
  /\ linear \in Seq(Byte)

(* The cells the running pushData has yet to write. *)
InFlight ==
  LET first == FirstLength(base, count)
  IN (IF "first"  \in todo THEN base .. base + first - 1 ELSE {})
       \cup (IF "second" \in todo THEN 0 .. count - first - 1 ELSE {})

(* The cells getLenOfValidData counts. *)
Counted ==
  {c \in Cells : Distance(m_ValidPosition, c)
                   < getLenOfValidData(m_ValidPosition, m_StorablePosition)}

(* What getLenOfValidData counts as valid data is written: no cell the      *)
(* consumer may look at is one the producer is still copying into.  This is *)
(* the whole of the synchronisation between the two threads, who share the  *)
(* positions and the cells with no lock.                                    *)
CountedIsWritten == InFlight \cap Counted = {}

(* m_StorablePosition never passes m_ValidPosition and m_ValidPosition never *)
(* passes m_StorablePosition, although each side acts on a stale value of    *)
(* the other's: a store of pushData adds exactly the bytes it reports, and a *)
(* store of popData or isClear removes a prefix of what is counted.          *)
NoOverrun ==
  [][LET len == getLenOfValidData(m_ValidPosition, m_StorablePosition)
     IN len' = len + (IF m_StorablePosition' # m_StorablePosition THEN count ELSE 0)
                   - (IF m_ValidPosition' # m_ValidPosition
                        THEN Distance(m_ValidPosition, target) ELSE 0)]_ringVars

-----------------------------------------------------------------------------
(* Refinement *)

(* The queue of the bytes that the positions count *)
Fifo == INSTANCE ByteFifo WITH
          Capacity <- Size - 1,
          Offers   <- Chunks,
          queue    <- Contents(m_Buffer, m_ValidPosition, m_StorablePosition),
          copied   <- linear

(* A lock-free CircleBuffer with one producer and one consumer is a bounded *)
(* queue of bytes: what is read is what was pushed, in order, once, for     *)
(* every interleaving of the calls' loads, copies and stores.               *)
RingIsFifo == Fifo!FifoSpec

=============================================================================
