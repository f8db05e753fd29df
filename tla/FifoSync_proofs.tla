--------------------------- MODULE FifoSync_proofs ---------------------------
(***************************************************************************)
(* For every depth and every set of values, the ring of fifo_sync.sv is a  *)
(* bounded queue.  The inductive invariant is FifoTypeOK with              *)
(* PointersAgree: a count in range alone does not say which cells are live.*)
(***************************************************************************)
EXTENDS FifoSync, SequenceTheorems, TLAPS

RingInv == FifoTypeOK /\ PointersAgree

(* Moving along the ring: one place further is the next pointer, and the    *)
(* live cells, fewer than Depth apart, are different cells.                 *)
LEMMA SlotFacts ==
    ASSUME NEW p \in Index, NEW k \in 0..Depth
    PROVE  /\ Slot(p, k) \in Index
           /\ Next1(p) \in Index
           /\ Slot(p, 0) = p
           /\ k < Depth => Slot(p, k + 1) = Next1(Slot(p, k))
           /\ k < Depth => Slot(Next1(p), k) = Slot(p, k + 1)
           /\ \A j \in 0..Depth : j < k /\ k < Depth => Slot(p, j) # Slot(p, k)
  BY DepthIsPositive DEF Slot, Index, Next1

(* The reset state is a well-formed, empty ring. *)
LEMMA RingInit == FifoInit => RingInv
  BY DepthIsPositive DEF FifoInit, RingInv, FifoTypeOK, PointersAgree, Index, Slot

(* Every combination of requests keeps the ring well formed. *)
LEMMA RingStep == RingInv /\ [FifoNext]_fifoVars => RingInv'
  <1> SUFFICES ASSUME RingInv, [FifoNext]_fifoVars PROVE RingInv'
    OBVIOUS
  <1> USE DEF RingInv
  <1>1. CASE UNCHANGED fifoVars
    BY <1>1 DEF fifoVars, FifoTypeOK, PointersAgree
  <1>2. ASSUME NEW wr_en \in BOOLEAN, NEW rd_en \in BOOLEAN, NEW wr_data \in Value,
               FifoClock(wr_en, rd_en, wr_data)
        PROVE  RingInv'
    <2> USE <1>2 DEF FifoClock
    <2>1. mem' \in [Index -> Value]
      BY DEF WritePort, FifoTypeOK
    <2>2. wr_ptr' \in Index /\ rd_ptr' \in Index
      BY DepthIsPositive DEF WritePort, ReadPort, FifoTypeOK, Next1, Index
    <2>3. fifo_count' \in 0..Depth
      BY DepthIsPositive DEF CountUpdate, Writes, Reads, full, empty, FifoTypeOK
    <2>4. PointersAgree'
      <3>1. /\ rd_ptr \in Index /\ fifo_count \in 0..Depth /\ wr_ptr = Slot(rd_ptr, fifo_count)
        BY DEF FifoTypeOK, PointersAgree
      <3>2. CASE Writes(wr_en) /\ Reads(rd_en)
        <4>1. fifo_count' = fifo_count /\ wr_ptr' = Next1(wr_ptr) /\ rd_ptr' = Next1(rd_ptr)
          BY <3>2 DEF CountUpdate, WritePort, ReadPort
        <4>2. fifo_count < Depth
          BY <3>1, <3>2, DepthIsPositive DEF Writes, full
        <4>3. Slot(Next1(rd_ptr), fifo_count) = Next1(Slot(rd_ptr, fifo_count))
          BY <3>1, <4>2, SlotFacts
        <4> QED BY <3>1, <4>1, <4>3 DEF PointersAgree
      <3>3. CASE Writes(wr_en) /\ ~Reads(rd_en)
        <4>1. fifo_count' = fifo_count + 1 /\ wr_ptr' = Next1(wr_ptr) /\ rd_ptr' = rd_ptr
          BY <3>3 DEF CountUpdate, WritePort, ReadPort
        <4>2. fifo_count < Depth
          BY <3>1, <3>3, DepthIsPositive DEF Writes, full
        <4>3. Slot(rd_ptr, fifo_count + 1) = Next1(Slot(rd_ptr, fifo_count))
          BY <3>1, <4>2, SlotFacts
        <4> QED BY <3>1, <4>1, <4>3 DEF PointersAgree
      <3>4. CASE ~Writes(wr_en) /\ Reads(rd_en)
        <4>1. fifo_count' = fifo_count - 1 /\ wr_ptr' = wr_ptr /\ rd_ptr' = Next1(rd_ptr)
          BY <3>4 DEF CountUpdate, WritePort, ReadPort
        <4>2. fifo_count - 1 \in 0..Depth /\ fifo_count - 1 < Depth
          BY <3>1, <3>4, DepthIsPositive DEF Reads, empty
        <4>3. Slot(Next1(rd_ptr), fifo_count - 1) = Slot(rd_ptr, (fifo_count - 1) + 1)
          BY <3>1, <4>2, SlotFacts
        <4> QED BY <3>1, <4>1, <4>3 DEF PointersAgree
      <3>5. CASE ~Writes(wr_en) /\ ~Reads(rd_en)
        <4>1. fifo_count' = fifo_count /\ wr_ptr' = wr_ptr /\ rd_ptr' = rd_ptr
          BY <3>5 DEF CountUpdate, WritePort, ReadPort
        <4> QED BY <3>1, <4>1 DEF PointersAgree
      <3> QED BY <3>2, <3>3, <3>4, <3>5
    <2> QED BY <2>1, <2>2, <2>3, <2>4 DEF FifoTypeOK
  <1> QED BY <1>1, <1>2 DEF FifoNext

(* fifo_sync.sv, assert_count_range and more: in every reachable state the  *)
(* pointers and the count are in range and agree, for every depth.          *)
THEOREM RingIsWellFormed == FifoSpec => [](FifoTypeOK /\ PointersAgree)
  <1>1. FifoInit => RingInv
    BY RingInit
  <1>2. RingInv /\ [FifoNext]_fifoVars => RingInv'
    BY RingStep
  <1> QED BY <1>1, <1>2, PTL DEF FifoSpec, RingInv

(* fifo_sync.sv, assert_count_range and assert_empty_full_exclusive: pointers   *)
(* and count keep their widths although a write on full and a read on empty *)
(* are allowed to be asked for.                                             *)
THEOREM RingKeepsItsWidths == FifoSpec => []FifoTypeOK
  <1>1. FifoTypeOK /\ PointersAgree => FifoTypeOK
    OBVIOUS
  <1> QED BY <1>1, RingIsWellFormed, PTL

-----------------------------------------------------------------------------
(* The live cells, read from the read pointer on, are a sequence.           *)
LEMMA CellsAreASeq ==
    ASSUME NEW m \in [Index -> Value], NEW p \in Index, NEW n \in 0..Depth
    PROVE  /\ Cells(m, p, n) \in Seq(Value)
           /\ Len(Cells(m, p, n)) = n
           /\ \A k \in 1..n : Cells(m, p, n)[k] = m[Slot(p, k - 1)]
           /\ Cells(m, p, n) = <<>> <=> n = 0
  <1>1. \A k \in 1..n : Slot(p, k - 1) \in Index
    BY DepthIsPositive DEF Slot, Index
  <1>2. Cells(m, p, n) \in [1..n -> Value] /\ n \in Nat
    BY <1>1, DepthIsPositive DEF Cells
  <1>3. Cells(m, p, n) \in Seq(Value) /\ Len(Cells(m, p, n)) = n
    BY <1>2
  <1>4. Cells(m, p, n) = <<>> <=> n = 0
    BY <1>3, EmptySeq
  <1> QED BY <1>3, <1>4 DEF Cells

(* Writing the free cell after the last appends, and disturbs no live cell. *)
LEMMA WriteAppends ==
    ASSUME NEW m \in [Index -> Value], NEW p \in Index, NEW n \in 0..(Depth - 1),
           NEW v \in Value
    PROVE  Cells([m EXCEPT ![Slot(p, n)] = v], p, n + 1) = Append(Cells(m, p, n), v)
  <1> DEFINE m2 == [m EXCEPT ![Slot(p, n)] = v]
             new == Cells(m2, p, n + 1)
             old == Cells(m, p, n)
  <1>1. Slot(p, n) \in Index /\ n \in 0..Depth /\ n + 1 \in 0..Depth /\ n \in Nat
    BY SlotFacts, DepthIsPositive
  <1>2. /\ m2 \in [Index -> Value]
        /\ \A i \in Index : m2[i] = IF i = Slot(p, n) THEN v ELSE m[i]
    BY <1>1
  <1>3. /\ old \in Seq(Value) /\ Len(old) = n
        /\ \A k \in 1..n : old[k] = m[Slot(p, k - 1)]
    BY <1>1, CellsAreASeq
  <1>4. /\ new \in Seq(Value) /\ Len(new) = n + 1
        /\ \A k \in 1..(n + 1) : new[k] = m2[Slot(p, k - 1)]
    BY <1>1, <1>2, CellsAreASeq
  <1>5. \A k \in 1..n : Slot(p, k - 1) \in Index /\ Slot(p, k - 1) # Slot(p, n)
    BY DepthIsPositive DEF Slot, Index
  <1> HIDE DEF m2, new, old
  <1>6. \A k \in 1..n : new[k] = old[k]
    BY <1>1, <1>2, <1>3, <1>4, <1>5
  <1>7. new[n + 1] = v
    <2>1. new[n + 1] = m2[Slot(p, (n + 1) - 1)] /\ (n + 1) - 1 = n
      BY <1>1, <1>4
    <2> QED BY <1>1, <1>2, <2>1
  <1>8. /\ Append(old, v) \in Seq(Value) /\ Len(Append(old, v)) = n + 1
        /\ \A k \in 1..(n + 1) : Append(old, v)[k] = IF k = n + 1 THEN v ELSE old[k]
    BY <1>1, <1>3
  <1>9. \A k \in 1..(n + 1) : new[k] = Append(old, v)[k]
    BY <1>1, <1>6, <1>7, <1>8
  <1>10. new = Append(old, v)
    BY <1>1, <1>4, <1>8, <1>9, SeqEqual
  <1> QED BY <1>10 DEF m2, new, old

(* Moving the read pointer one place drops the head.                        *)
LEMMA ReadTails ==
    ASSUME NEW m \in [Index -> Value], NEW p \in Index, NEW n \in 1..Depth
    PROVE  Cells(m, Next1(p), n - 1) = Tail(Cells(m, p, n))
  <1> DEFINE new == Cells(m, Next1(p), n - 1)
             old == Cells(m, p, n)
  <1>1. n \in 0..Depth /\ n - 1 \in 0..Depth /\ Next1(p) \in Index /\ n \in Nat
    BY SlotFacts, DepthIsPositive DEF Next1, Index
  <1>2. /\ old \in Seq(Value) /\ Len(old) = n /\ old # <<>>
        /\ \A k \in 1..n : old[k] = m[Slot(p, k - 1)]
    BY <1>1, CellsAreASeq
  <1>3. /\ new \in Seq(Value) /\ Len(new) = n - 1
        /\ \A k \in 1..(n - 1) : new[k] = m[Slot(Next1(p), k - 1)]
    BY <1>1, CellsAreASeq
  <1>4. /\ Tail(old) \in Seq(Value) /\ Len(Tail(old)) = n - 1
        /\ \A k \in 1..(n - 1) : Tail(old)[k] = old[k + 1]
    BY <1>2, HeadTailProperties
  <1>5. \A k \in 1..(n - 1) : Slot(Next1(p), k - 1) = Slot(p, k)
    BY DepthIsPositive DEF Slot, Next1, Index
  <1>6. \A k \in 1..(n - 1) : new[k] = Tail(old)[k]
    BY <1>1, <1>2, <1>3, <1>4, <1>5
  <1> QED BY <1>3, <1>4, <1>6, SeqEqual

(* One clock edge of a well-formed ring is one move of the queue, or none.  *)
LEMMA QueueStep == RingInv /\ [FifoNext]_fifoVars => [Queue!QueueNext]_Contents
  <1> SUFFICES ASSUME RingInv, [FifoNext]_fifoVars PROVE [Queue!QueueNext]_Contents
    OBVIOUS
  <1>1. CASE UNCHANGED fifoVars
    BY <1>1 DEF fifoVars, Contents, Cells, Slot
  <1>2. ASSUME NEW wr_en \in BOOLEAN, NEW rd_en \in BOOLEAN, NEW wr_data \in Value,
               FifoClock(wr_en, rd_en, wr_data)
        PROVE  [Queue!QueueNext]_Contents
    <2>1. /\ mem \in [Index -> Value] /\ rd_ptr \in Index /\ fifo_count \in 0..Depth
          /\ wr_ptr = Slot(rd_ptr, fifo_count)
      BY DEF RingInv, FifoTypeOK, PointersAgree
    <2>2. /\ WritePort(wr_en, wr_data) /\ ReadPort(rd_en) /\ CountUpdate(wr_en, rd_en)
      BY <1>2 DEF FifoClock
    <2>3. Len(Contents) = fifo_count /\ (Contents = <<>> <=> fifo_count = 0)
      BY <2>1, CellsAreASeq DEF Contents
    <2>4. CASE Writes(wr_en) /\ ~Reads(rd_en)
      <3>1. fifo_count \in 0..(Depth - 1) /\ fifo_count # Depth
        BY <2>1, <2>4, DepthIsPositive DEF Writes, full
      <3>2. /\ mem' = [mem EXCEPT ![Slot(rd_ptr, fifo_count)] = wr_data]
            /\ rd_ptr' = rd_ptr /\ fifo_count' = fifo_count + 1
        BY <2>1, <2>2, <2>4 DEF WritePort, ReadPort, CountUpdate
      <3>3. Contents' = Append(Contents, wr_data)
        BY <2>1, <3>1, <3>2, WriteAppends DEF Contents
      <3>4. Queue!Put(wr_data)
        BY <2>3, <3>1, <3>3 DEF Queue!Put, Queue!Full
      <3> QED BY <3>4 DEF Queue!QueueNext
    <2>5. CASE ~Writes(wr_en) /\ Reads(rd_en)
      <3>1. fifo_count \in 1..Depth
        BY <2>1, <2>5, DepthIsPositive DEF Reads, empty
      <3>2. mem' = mem /\ rd_ptr' = Next1(rd_ptr) /\ fifo_count' = fifo_count - 1
        BY <2>2, <2>5 DEF WritePort, ReadPort, CountUpdate
      <3>3. Contents' = Tail(Contents)
        BY <2>1, <3>1, <3>2, ReadTails DEF Contents
      <3>4. Queue!Get
        BY <2>3, <3>1, <3>3 DEF Queue!Get, Queue!Empty
      <3> QED BY <3>4 DEF Queue!QueueNext
    <2>6. CASE Writes(wr_en) /\ Reads(rd_en)
      <3>1. fifo_count \in 1..Depth /\ fifo_count - 1 \in 0..(Depth - 1) /\ fifo_count # Depth
        BY <2>1, <2>6, DepthIsPositive DEF Writes, Reads, full, empty
      <3>2. /\ mem' = [mem EXCEPT ![Slot(rd_ptr, fifo_count)] = wr_data]
            /\ rd_ptr' = Next1(rd_ptr) /\ fifo_count' = fifo_count
        BY <2>1, <2>2, <2>6 DEF WritePort, ReadPort, CountUpdate
      <3>3. /\ Next1(rd_ptr) \in Index
            /\ Slot(Next1(rd_ptr), fifo_count - 1) = Slot(rd_ptr, fifo_count)
            /\ (fifo_count - 1) + 1 = fifo_count
        BY <2>1, <3>1, DepthIsPositive DEF Slot, Next1, Index
      <3>4. Cells(mem, Next1(rd_ptr), fifo_count - 1) = Tail(Contents)
        BY <2>1, <3>1, ReadTails DEF Contents
      <3>5. Cells([mem EXCEPT ![Slot(Next1(rd_ptr), fifo_count - 1)] = wr_data],
                  Next1(rd_ptr), (fifo_count - 1) + 1)
            = Append(Cells(mem, Next1(rd_ptr), fifo_count - 1), wr_data)
        BY <2>1, <3>1, <3>3, WriteAppends
      <3>6. Contents' = Append(Tail(Contents), wr_data)
        BY <3>2, <3>3, <3>4, <3>5 DEF Contents
      <3>7. Queue!PutGet(wr_data)
        BY <2>3, <3>1, <3>6 DEF Queue!PutGet, Queue!Full, Queue!Empty
      <3> QED BY <3>7 DEF Queue!QueueNext
    <2>7. CASE ~Writes(wr_en) /\ ~Reads(rd_en)
      <3>1. UNCHANGED fifoVars
        BY <2>2, <2>7 DEF WritePort, ReadPort, CountUpdate, fifoVars
      <3> QED BY <3>1 DEF fifoVars, Contents, Cells, Slot
    <2> QED BY <2>4, <2>5, <2>6, <2>7
  <1> QED BY <1>1, <1>2 DEF FifoNext

(* fifo_sync.sv is a queue: values leave in the order they were written,    *)
(* none lost and none twice, whatever is asked of it while full or empty,   *)
(* for every depth.                                                         *)
THEOREM RingImplementsQueue == FifoSpec => FifoIsAQueue
  <1>1. FifoInit => Queue!QueueInit
    <2> SUFFICES ASSUME FifoInit PROVE Contents = <<>>
      BY DEF Queue!QueueInit
    <2>1. mem \in [Index -> Value] /\ rd_ptr \in Index /\ fifo_count = 0 /\ 0 \in 0..Depth
      BY DepthIsPositive DEF FifoInit, Index
    <2> QED BY <2>1, CellsAreASeq DEF Contents
  <1>2. FifoInit => RingInv
    BY RingInit
  <1>3. RingInv /\ [FifoNext]_fifoVars => RingInv'
    BY RingStep
  <1>4. RingInv /\ [FifoNext]_fifoVars => [Queue!QueueNext]_Contents
    BY QueueStep
  <1> QED BY <1>1, <1>2, <1>3, <1>4, PTL DEF FifoSpec, FifoIsAQueue, Queue!QueueSpec
=============================================================================
