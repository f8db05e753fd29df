------------------------------ MODULE FifoSync ------------------------------
(***************************************************************************)
(* fifo_sync.sv: a synchronous FIFO kept as a ring in mem, with separate   *)
(* write and read pointers and a count.  One step is one clock edge with   *)
(* any combination of write and read requests, asked for or not.  Depth    *)
(* need not be a power of two: the pointers wrap by comparison.            *)
(***************************************************************************)
EXTENDS Naturals, Sequences

CONSTANTS Depth,      \* FIFO_DEPTH
          Value       \* what wr_data may carry

ASSUME DepthIsPositive == Depth \in Nat \ {0}

VARIABLES mem, wr_ptr, rd_ptr, fifo_count

fifoVars == <<mem, wr_ptr, rd_ptr, fifo_count>>

empty == fifo_count = 0
full  == fifo_count = Depth

Index   == 0..(Depth - 1)
Next1(ptr) == IF ptr = Depth - 1 THEN 0 ELSE ptr + 1

FifoInit == /\ mem \in [Index -> Value]      \* the array is not reset
            /\ wr_ptr = 0 /\ rd_ptr = 0 /\ fifo_count = 0

(* Mutant: the full flag is not looked at. *)
Writes_Unguarded(wr_en) == wr_en

Writes(wr_en) == wr_en /\ ~full
Reads(rd_en)  == rd_en /\ ~empty

WritePort(wr_en, wr_data) ==
    IF Writes(wr_en)
    THEN mem' = [mem EXCEPT ![wr_ptr] = wr_data] /\ wr_ptr' = Next1(wr_ptr)
    ELSE UNCHANGED <<mem, wr_ptr>>

(* Mutant: the pointer advances on an empty FIFO too. *)
ReadPort_Unguarded(rd_en) == rd_ptr' = IF rd_en THEN Next1(rd_ptr) ELSE rd_ptr

ReadPort(rd_en) == rd_ptr' = IF Reads(rd_en) THEN Next1(rd_ptr) ELSE rd_ptr

(* Mutant: a read and a write in one cycle count as a write. *)
CountUpdate_WriteWins(wr_en, rd_en) ==
    fifo_count' = CASE Writes(wr_en) -> fifo_count + 1
                    [] Reads(rd_en) /\ ~Writes(wr_en) -> fifo_count - 1
                    [] OTHER -> fifo_count

CountUpdate(wr_en, rd_en) ==
    fifo_count' = CASE Reads(rd_en) /\ ~Writes(wr_en) -> fifo_count - 1
                    [] Writes(wr_en) /\ ~Reads(rd_en) -> fifo_count + 1
                    [] OTHER -> fifo_count

FifoClock(wr_en, rd_en, wr_data) ==
    /\ WritePort(wr_en, wr_data)
    /\ ReadPort(rd_en)
    /\ CountUpdate(wr_en, rd_en)

FifoNext == \E wr_en, rd_en \in BOOLEAN, wr_data \in Value : FifoClock(wr_en, rd_en, wr_data)
FifoSpec == FifoInit /\ [][FifoNext]_fifoVars

-----------------------------------------------------------------------------
(* The slot k places after the one at ptr. *)
Slot(ptr, k) == IF ptr + k < Depth THEN ptr + k ELSE ptr + k - Depth

(* Pointers and count stay in range: the pointers never address a cell that *)
(* is not there and the count never passes FIFO_DEPTH (assert_count_range). *)
FifoTypeOK == /\ mem \in [Index -> Value]
              /\ wr_ptr \in Index /\ rd_ptr \in Index
              /\ fifo_count \in 0..Depth

(* The three registers agree: the write pointer is count places after the   *)
(* read pointer, whatever was asked while full or empty.                    *)
PointersAgree == wr_ptr = Slot(rd_ptr, fifo_count)

(* The n values a reader at ptr would find in m, in the order it would.     *)
Cells(m, ptr, n) == [k \in 1..n |-> m[Slot(ptr, k - 1)]]
Contents == Cells(mem, rd_ptr, fifo_count)

Queue == INSTANCE BoundedQueue WITH queue <- Contents, Capacity <- Depth

(* The ring implements the queue: order kept, nothing lost, nothing twice.  *)
FifoIsAQueue == Queue!QueueSpec
=============================================================================
