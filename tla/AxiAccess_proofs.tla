--------------------------- MODULE AxiAccess_proofs ---------------------------
(***************************************************************************)
(* Theorems about the AXI master, for every slave, every timeout, every    *)
(* set of legal commands and every address space: its registers keep their *)
(* widths, and it implements the port the control state machine is wired   *)
(* to.                                                                     *)
(***************************************************************************)
EXTENDS AxiAccess, SequenceTheorems, TLAPS

Outcomes == {STATUS_OK, STATUS_ALIGN, STATUS_TIMEOUT, STATUS_SLVERR, STATUS_BUSY}

Widths ==
    /\ mstate \in MasterState /\ master_cmd \in Byte
    /\ beat_counter \in 0..15 /\ current_addr \in 0..(AddrSpace - 1)
    /\ data_byte_index \in 0..63
    /\ status_reg \in Outcomes /\ axi_timer \in 0..AxiTimeout
    /\ early_busy_sent \in BOOLEAN /\ transaction_done \in BOOLEAN
    /\ read_data \in Seq(Byte) /\ Len(read_data) <= 64 /\ read_data_count \in 0..64
    /\ r_queue \in Seq(0..(AddrSpace - 1))

WritePhase == {"WRITE_ADDR", "WRITE_DATA", "WRITE_RESP"}
ReadPhase  == {"READ_ADDR", "READ_DATA"}

(* Which command is under way, and which beat of it.                        *)
BeatPlace ==
    /\ mstate \in WritePhase => ~IsRead(master_cmd)
    /\ mstate \in ReadPhase  => IsRead(master_cmd)
    /\ mstate \in Phase \cup {"NEXT_BEAT", "DONE"} => SizeField(master_cmd) # 3
    /\ mstate = "CHECK_ALIGNMENT" => beat_counter = 0
    /\ mstate \in Phase \cup {"NEXT_BEAT"} => beat_counter <= LenField(master_cmd)
    /\ mstate = "NEXT_BEAT" => beat_counter < LenField(master_cmd)
    /\ mstate \in Phase \cup {"CHECK_ALIGNMENT", "NEXT_BEAT"} =>
           data_byte_index = beat_counter * beat_size

(* The buffer holds the bytes of the beats before this one, and the count   *)
(* is written with the last of them only.                                   *)
BufferPlace ==
    /\ mstate \in {"CHECK_ALIGNMENT"} \cup WritePhase => Len(read_data) = 0
    /\ mstate \in ReadPhase => Len(read_data) = data_byte_index
    /\ mstate = "NEXT_BEAT" =>
           Len(read_data) = IF IsRead(master_cmd) THEN data_byte_index + beat_size ELSE 0
    /\ mstate \in Phase \cup {"CHECK_ALIGNMENT", "NEXT_BEAT", "ERROR"} => read_data_count = 0
    /\ mstate = "DONE" =>
           /\ Len(read_data) = read_data_count
           /\ read_data_count = IF IsRead(master_cmd) THEN (LenField(master_cmd) + 1) * beat_size ELSE 0

(* An error is never reported as OK.                                        *)
ErrorPlace == mstate = "ERROR" => status_reg # STATUS_OK

IInv == Widths /\ BeatPlace /\ BufferPlace /\ ErrorPlace

-----------------------------------------------------------------------------
LEMMA StatusesDiffer ==
    /\ Outcomes \subseteq Status
    /\ STATUS_ALIGN # STATUS_OK /\ STATUS_TIMEOUT # STATUS_OK /\ STATUS_BUSY # STATUS_OK
  BY DEF Outcomes, Status, STATUS_OK, STATUS_ALIGN, STATUS_TIMEOUT, STATUS_SLVERR, STATUS_BUSY

(* The bytes of a command, up to and with beat i. *)
LEMMA BeatArithmetic ==
    ASSUME NEW cmd \in Byte, SizeField(cmd) # 3
    PROVE  /\ LenField(cmd) \in 0..15 /\ BeatSize(cmd) \in {1, 2, 4}
           /\ \A i \in 0..LenField(cmd) :
                 /\ i * BeatSize(cmd) \in 0..60 /\ (i + 1) * BeatSize(cmd) \in 1..64
                 /\ (i + 1) * BeatSize(cmd) = i * BeatSize(cmd) + BeatSize(cmd)
  <1>1. LenField(cmd) \in 0..15
    BY DEF LenField, Byte
  <1>2. SizeField(cmd) \in 0..3
    BY DEF SizeField, Byte
  <1>3. BeatSize(cmd) \in {1, 2, 4}
    BY <1>2 DEF BeatSize
  <1>4. CASE BeatSize(cmd) = 1
    BY <1>1, <1>4
  <1>5. CASE BeatSize(cmd) = 2
    BY <1>1, <1>5
  <1>6. CASE BeatSize(cmd) = 4
    BY <1>1, <1>6
  <1> QED BY <1>3, <1>4, <1>5, <1>6

(* What the slave delivers is a word of four bytes. *)
LEMMA WordIsBytes ==
    ASSUME NEW addr \in Nat, NEW n \in {1, 2, 4}
    PROVE  /\ SubSeq(Word(addr), 1, n) \in Seq(Byte) /\ Len(SubSeq(Word(addr), 1, n)) = n
           /\ \A i \in 1..n : addr % 4 = 0 => SubSeq(Word(addr), 1, n)[i] = (addr + i - 1) % 256
  <1>1. \A i \in 1..n : Word(addr)[i] \in Byte
    BY DEF Word, Byte
  <1>2. \A i \in 1..n : addr % 4 = 0 => Word(addr)[i] = (addr + i - 1) % 256
    BY DEF Word
  <1>3. \A i \in 1..n : SubSeq(Word(addr), 1, n)[i] = Word(addr)[i]
    BY <1>1, SubSeqProperties
  <1>4. SubSeq(Word(addr), 1, n) \in Seq(Byte) /\ Len(SubSeq(Word(addr), 1, n)) = n
    BY <1>1, SubSeqProperties
  <1> QED BY <1>2, <1>3, <1>4

(* A beat read goes right behind the bytes that are there. *)
LEMMA BeatAppended ==
    ASSUME NEW buf \in Seq(Byte), NEW addr \in Nat, NEW n \in {1, 2, 4}
    PROVE  LET after == SubSeq(buf, 1, Len(buf)) \o SubSeq(Word(addr), 1, n)
           IN  after \in Seq(Byte) /\ Len(after) = Len(buf) + n
  <1>1. SubSeq(buf, 1, Len(buf)) = buf
    BY SubSeqFull
  <1>2. SubSeq(Word(addr), 1, n) \in Seq(Byte) /\ Len(SubSeq(Word(addr), 1, n)) = n
    BY WordIsBytes
  <1>3. /\ buf \o SubSeq(Word(addr), 1, n) \in Seq(Byte)
        /\ Len(buf \o SubSeq(Word(addr), 1, n)) = Len(buf) + n
    BY <1>2, ConcatProperties
  <1> QED BY <1>1, <1>3

(* The access in hand: which fields are in range, and where the beat ends.  *)
LEMMA BeatInHand ==
    ASSUME IInv, mstate \in Phase \cup {"NEXT_BEAT"}
    PROVE  /\ LenField(master_cmd) \in 0..15 /\ beat_size \in {1, 2, 4}
           /\ data_byte_index \in 0..60 /\ data_byte_index + beat_size \in 1..64
           /\ beat_counter < LenField(master_cmd) =>
                  data_byte_index + beat_size = (beat_counter + 1) * beat_size
                  /\ data_byte_index + beat_size \in 0..60
           /\ last_beat => /\ beat_counter = LenField(master_cmd)
                           /\ data_byte_index + beat_size = (LenField(master_cmd) + 1) * beat_size
  <1>1. /\ master_cmd \in Byte /\ SizeField(master_cmd) # 3 /\ beat_counter \in 0..15
        /\ beat_counter <= LenField(master_cmd) /\ data_byte_index = beat_counter * beat_size
    BY DEF IInv, Widths, BeatPlace
  <1>2. LenField(master_cmd) \in 0..15 /\ beat_size \in {1, 2, 4}
    BY <1>1, BeatArithmetic DEF beat_size
  <1>3. beat_counter \in 0..LenField(master_cmd)
    BY <1>1, <1>2
  <1>4. /\ beat_counter * beat_size \in 0..60 /\ (beat_counter + 1) * beat_size \in 1..64
        /\ (beat_counter + 1) * beat_size = beat_counter * beat_size + beat_size
    BY <1>1, <1>3, BeatArithmetic DEF beat_size
  <1>5. ASSUME beat_counter < LenField(master_cmd)
        PROVE  (beat_counter + 1) * beat_size \in 0..60
    <2>1. beat_counter + 1 \in 0..LenField(master_cmd)
      BY <1>1, <1>2, <1>5
    <2> QED BY <1>1, <2>1, BeatArithmetic DEF beat_size
  <1>6. last_beat => beat_counter = LenField(master_cmd)
    BY <1>1, <1>2 DEF last_beat
  <1> QED BY <1>1, <1>2, <1>4, <1>5, <1>6

(* One cycle of a channel handshake. *)
LEMMA LateIsAnOutcome ==
    ASSUME IInv
    PROVE  LateStatus \in Outcomes /\ (axi_timed_out => LateStatus # STATUS_OK)
  <1>1. status_reg \in Outcomes
    BY DEF IInv, Widths
  <1> QED BY <1>1, StatusesDiffer DEF LateStatus, Outcomes

LEMMA TimerRuns ==
    ASSUME IInv, NEW phase \in Phase, NEW hs, NEW next, Await(phase, hs, next)
    PROVE  axi_timer' \in 0..AxiTimeout
  <1>1. axi_timer \in 0..AxiTimeout
    BY DEF IInv, Widths
  <1> QED BY <1>1, AxiTimeoutIsNat DEF Await, axi_timed_out

(* A handshake phase that moves no data and does not end the beat. *)
LEMMA AwaitStep ==
    ASSUME IInv, NEW phase \in Phase, NEW next \in Phase, NEW hs \in BOOLEAN,
           IsRead(master_cmd) <=> next = "READ_DATA", next \in {"WRITE_DATA", "WRITE_RESP", "READ_DATA"},
           Await(phase, hs, next), status_reg' = LateStatus, r_queue' \in Seq(0..(AddrSpace - 1)),
           UNCHANGED <<early_busy_sent, read_data, read_data_count>>
    PROVE  IInv'
  <1>1. axi_timer' \in 0..AxiTimeout
    BY TimerRuns
  <1>2. status_reg' \in Outcomes /\ (axi_timed_out => status_reg' # STATUS_OK)
    BY LateIsAnOutcome
  <1>3. /\ mstate = phase
        /\ mstate' \in {phase, next, "ERROR"} /\ (mstate' = "ERROR" => axi_timed_out)
        /\ UNCHANGED <<master_cmd, beat_counter, current_addr, data_byte_index, transaction_done>>
    BY DEF Await, Phase
  <1>4. Widths'
    BY <1>1, <1>2, <1>3 DEF IInv, Widths, MasterState, Phase
  <1>5. BeatPlace'
    BY <1>3 DEF IInv, BeatPlace, Phase, WritePhase, ReadPhase, beat_size
  <1>6. BufferPlace'
    BY <1>3 DEF IInv, BufferPlace, BeatPlace, Phase, WritePhase, ReadPhase, beat_size
  <1>7. ErrorPlace'
    BY <1>2, <1>3 DEF ErrorPlace
  <1> QED BY <1>4, <1>5, <1>6, <1>7 DEF IInv

LEMMA WriteRespStep ==
    ASSUME IInv, NEW hs \in BOOLEAN, NEW okay, WriteResp(hs, okay), UNCHANGED r_queue
    PROVE  IInv'
  <1>1. axi_timer' \in 0..AxiTimeout
    BY TimerRuns DEF WriteResp, Phase
  <1>2. /\ status_reg' \in Outcomes
        /\ axi_timed_out /\ ~hs => status_reg' # STATUS_OK
    BY LateIsAnOutcome, StatusesDiffer DEF WriteResp, Outcomes
  <1>3. /\ mstate = "WRITE_RESP"
        /\ \/ mstate' \in {"WRITE_RESP"}
           \/ mstate' = "ERROR" /\ axi_timed_out /\ ~hs
           \/ mstate' = "DONE"
           \/ mstate' = "NEXT_BEAT" /\ ~last_beat
        /\ UNCHANGED <<master_cmd, beat_counter, current_addr, data_byte_index, transaction_done,
                       early_busy_sent, read_data, read_data_count>>
    BY DEF WriteResp, Await
  <1>4. LenField(master_cmd) \in 0..15 /\ beat_counter \in 0..15
    BY <1>3, BeatInHand DEF IInv, Widths, Phase
  <1>5. Widths'
    BY <1>1, <1>2, <1>3 DEF IInv, Widths, MasterState, Phase
  <1>6. BeatPlace'
    BY <1>3, <1>4 DEF IInv, BeatPlace, Phase, WritePhase, ReadPhase, beat_size, last_beat
  <1>7. BufferPlace'
    BY <1>3 DEF IInv, BufferPlace, BeatPlace, Phase, WritePhase, ReadPhase, beat_size
  <1>8. ErrorPlace'
    BY <1>2, <1>3 DEF ErrorPlace
  <1> QED BY <1>5, <1>6, <1>7, <1>8 DEF IInv

LEMMA ReadDataStep ==
    ASSUME IInv, NEW hs \in BOOLEAN, NEW okay \in BOOLEAN, NEW addr \in Nat,
           ReadData(hs, okay, Word(addr)), r_queue' \in Seq(0..(AddrSpace - 1))
    PROVE  IInv'
  <1>1. axi_timer' \in 0..AxiTimeout
    BY TimerRuns DEF ReadData, Phase
  <1>2. /\ status_reg' \in Outcomes
        /\ axi_timed_out /\ ~hs => status_reg' # STATUS_OK
    BY LateIsAnOutcome, StatusesDiffer DEF ReadData, Outcomes
  <1>3. /\ mstate = "READ_DATA"
        /\ mstate' = IF hs THEN IF last_beat THEN "DONE" ELSE "NEXT_BEAT"
                     ELSE IF axi_timed_out THEN "ERROR" ELSE "READ_DATA"
        /\ UNCHANGED <<master_cmd, beat_counter, current_addr, data_byte_index, transaction_done>>
    BY DEF ReadData, Await
  <1>4. /\ LenField(master_cmd) \in 0..15 /\ beat_counter \in 0..15 /\ beat_size \in {1, 2, 4}
        /\ data_byte_index \in 0..60 /\ data_byte_index + beat_size \in 1..64
        /\ last_beat => data_byte_index + beat_size = (LenField(master_cmd) + 1) * beat_size
    BY <1>3, BeatInHand DEF IInv, Widths, Phase
  <1>5. read_data \in Seq(Byte) /\ Len(read_data) = data_byte_index /\ read_data_count = 0
    BY <1>3 DEF IInv, Widths, BufferPlace, ReadPhase, Phase
  <1>6. /\ read_data' \in Seq(Byte)
        /\ Len(read_data') = IF hs THEN data_byte_index + beat_size ELSE data_byte_index
    <2>1. CASE hs
      <3>1. read_data' = SubSeq(read_data, 1, Len(read_data)) \o SubSeq(Word(addr), 1, beat_size)
        BY <1>5, <2>1 DEF ReadData
      <3> QED BY <1>4, <1>5, <2>1, <3>1, BeatAppended
    <2>2. CASE ~hs
      BY <1>5, <2>2 DEF ReadData
    <2> QED BY <2>1, <2>2
  <1>7. read_data_count' = IF hs /\ last_beat THEN data_byte_index + beat_size ELSE 0
    BY <1>5 DEF ReadData
  <1>8. early_busy_sent' \in BOOLEAN
    <2>1. early_busy_sent' = (early_busy_sent \/ axi_timer >= EarlyBusyThreshold)
      BY DEF ReadData
    <2> QED BY <2>1
  <1>9. Widths'
    <2>1. mstate' \in MasterState
      BY <1>3 DEF MasterState, Phase
    <2>2. read_data_count' \in 0..64 /\ Len(read_data') <= 64
      BY <1>4, <1>6, <1>7
    <2> QED BY <1>1, <1>2, <1>3, <1>6, <1>8, <2>1, <2>2 DEF IInv, Widths
  <1>10. BeatPlace'
    BY <1>3, <1>4 DEF IInv, BeatPlace, Phase, WritePhase, ReadPhase, beat_size, last_beat
  <1>11. BufferPlace'
    <2>1. IsRead(master_cmd)
      BY <1>3 DEF IInv, BeatPlace, ReadPhase
    <2> QED BY <1>3, <1>4, <1>6, <1>7, <2>1 DEF BufferPlace, Phase, WritePhase, ReadPhase, beat_size
  <1>12. ErrorPlace'
    BY <1>2, <1>3 DEF ErrorPlace
  <1> QED BY <1>9, <1>10, <1>11, <1>12 DEF IInv

LEMMA NextBeatStep ==
    ASSUME IInv, NextBeat, UNCHANGED r_queue
    PROVE  IInv'
  <1>1. /\ mstate = "NEXT_BEAT" /\ mstate' = IF IsRead(master_cmd) THEN "READ_ADDR" ELSE "WRITE_ADDR"
        /\ beat_counter' = (beat_counter + 1) % 16
        /\ data_byte_index' = data_byte_index + beat_size /\ axi_timer' = 0
        /\ UNCHANGED <<master_cmd, status_reg, early_busy_sent, transaction_done, read_data,
                       read_data_count, r_queue>>
    BY DEF NextBeat
  <1>2. /\ beat_counter \in 0..15 /\ beat_counter < LenField(master_cmd)
        /\ current_addr \in 0..(AddrSpace - 1)
    BY <1>1 DEF IInv, Widths, BeatPlace
  <1>3. /\ LenField(master_cmd) \in 0..15 /\ beat_size \in {1, 2, 4} /\ data_byte_index \in 0..60
        /\ data_byte_index + beat_size = (beat_counter + 1) * beat_size
        /\ data_byte_index + beat_size \in 0..60
    BY <1>1, <1>2, BeatInHand DEF Phase
  <1>4. beat_counter' = beat_counter + 1 /\ beat_counter' \in 0..15 /\ beat_counter' <= LenField(master_cmd)
    BY <1>1, <1>2, <1>3
  <1>5. current_addr' \in 0..(AddrSpace - 1)
    <2>1. (current_addr + beat_size) % AddrSpace \in 0..(AddrSpace - 1)
      BY <1>2, <1>3, AddrSpaceIsWords
    <2> QED BY <1>2, <2>1 DEF NextBeat
  <1>6. Widths'
    BY <1>1, <1>3, <1>4, <1>5, AxiTimeoutIsNat DEF IInv, Widths, MasterState, Phase
  <1>7. BeatPlace'
    BY <1>1, <1>3, <1>4 DEF IInv, BeatPlace, Phase, WritePhase, ReadPhase, beat_size
  <1>8. BufferPlace'
    BY <1>1, <1>3 DEF IInv, BufferPlace, BeatPlace, Phase, WritePhase, ReadPhase, beat_size
  <1>9. ErrorPlace'
    BY <1>1 DEF ErrorPlace
  <1> QED BY <1>6, <1>7, <1>8, <1>9 DEF IInv

LEMMA BeginStep ==
    ASSUME IInv, Begin
    PROVE  IInv'
  <1>1. PICK cmd \in Byte, addr \in 0..(AddrSpace - 1) :
            StartTransaction(cmd, addr) /\ UNCHANGED slaveVars
    BY CommandsAreLegal DEF Begin
  <1>3. /\ mstate' = "CHECK_ALIGNMENT" /\ master_cmd' = cmd /\ current_addr' = addr
        /\ beat_counter' = 0 /\ data_byte_index' = 0 /\ status_reg' = STATUS_OK /\ axi_timer' = 0
        /\ early_busy_sent' \in BOOLEAN /\ transaction_done' \in BOOLEAN
        /\ read_data_count' = 0 /\ r_queue' = r_queue
    BY <1>1 DEF StartTransaction, slaveVars
  <1>4. read_data' \in Seq(Byte) /\ Len(read_data') = 0
    BY <1>1, EmptySeq DEF StartTransaction
  <1>5. Widths'
    BY <1>3, <1>4, AxiTimeoutIsNat DEF IInv, Widths, MasterState, Outcomes
  <1>6. 0 * beat_size' = 0
    <2>1. SizeField(cmd) \in 0..3
      BY DEF SizeField, Byte
    <2>2. BeatSize(cmd) \in {0, 1, 2, 4}
      BY <2>1 DEF BeatSize
    <2> QED BY <1>3, <2>2 DEF beat_size
  <1>7. BeatPlace'
    BY <1>3, <1>6 DEF BeatPlace, Phase, WritePhase, ReadPhase
  <1>8. BufferPlace'
    BY <1>3, <1>4 DEF BufferPlace, Phase, WritePhase, ReadPhase
  <1>9. ErrorPlace'
    BY <1>3 DEF ErrorPlace
  <1> QED BY <1>5, <1>7, <1>8, <1>9 DEF IInv

LEMMA CheckAlignmentStep ==
    ASSUME IInv, CheckAlignment, UNCHANGED r_queue
    PROVE  IInv'
  <1>1. /\ mstate = "CHECK_ALIGNMENT" /\ axi_timer' = 0
        /\ mstate' = IF ~addr_ok THEN "ERROR"
                     ELSE IF IsRead(master_cmd) THEN "READ_ADDR" ELSE "WRITE_ADDR"
        /\ status_reg' = IF addr_ok THEN status_reg ELSE STATUS_ALIGN
        /\ UNCHANGED <<master_cmd, beat_counter, current_addr, data_byte_index, early_busy_sent,
                       transaction_done, read_data, read_data_count, r_queue>>
    BY DEF CheckAlignment
  <1>2. addr_ok => SizeField(master_cmd) # 3
    BY DEF addr_ok
  <1>3. beat_counter = 0 /\ LenField(master_cmd) \in 0..15
    BY <1>1 DEF IInv, BeatPlace, Widths, LenField, Byte
  <1>4. Widths'
    BY <1>1, AxiTimeoutIsNat DEF IInv, Widths, MasterState, Phase, Outcomes
  <1>5. BeatPlace'
    BY <1>1, <1>2, <1>3 DEF IInv, BeatPlace, Phase, WritePhase, ReadPhase, beat_size
  <1>6. data_byte_index = 0
    <2>1. data_byte_index = 0 * beat_size
      BY <1>1, <1>3 DEF IInv, BeatPlace
    <2>2. SizeField(master_cmd) \in 0..3
      BY DEF SizeField, Byte, IInv, Widths
    <2>3. beat_size \in Nat
      BY <2>2 DEF beat_size, BeatSize
    <2> QED BY <2>1, <2>3
  <1>7. BufferPlace'
    BY <1>1, <1>6 DEF IInv, BufferPlace, Phase, WritePhase, ReadPhase
  <1>8. ErrorPlace'
    BY <1>1, StatusesDiffer DEF ErrorPlace
  <1> QED BY <1>4, <1>5, <1>7, <1>8 DEF IInv

(* At rest, and back to rest. *)
LEMMA RestStep ==
    ASSUME IInv, RestIdle \/ Finish, UNCHANGED r_queue
    PROVE  IInv'
  <1>1. /\ mstate' = "IDLE" /\ transaction_done' \in BOOLEAN /\ axi_timer' = 0
        /\ read_data_count' \in {0, read_data_count}
        /\ UNCHANGED <<master_cmd, beat_counter, current_addr, data_byte_index, status_reg,
                       early_busy_sent, read_data, r_queue>>
    BY DEF RestIdle, Finish
  <1>2. Widths'
    BY <1>1, AxiTimeoutIsNat DEF IInv, Widths, MasterState
  <1>3. BeatPlace' /\ BufferPlace' /\ ErrorPlace'
    BY <1>1 DEF BeatPlace, BufferPlace, ErrorPlace, Phase, WritePhase, ReadPhase
  <1> QED BY <1>2, <1>3 DEF IInv

(* What a handshake leads to, for the phases that only wait.                *)
LEMMA WaitingPhases ==
    ASSUME IInv, NEW hs \in BOOLEAN, r_queue' \in Seq(0..(AddrSpace - 1)),
           WriteAddr(hs) \/ WriteData(hs) \/ ReadAddr(hs)
    PROVE  IInv'
  <1>1. CASE WriteAddr(hs)
    <2>1. Await("WRITE_ADDR", hs, "WRITE_DATA") /\ ~IsRead(master_cmd)
      BY <1>1 DEF WriteAddr, Await, IInv, BeatPlace, WritePhase
    <2> QED BY <1>1, <2>1, AwaitStep DEF WriteAddr, Phase
  <1>2. CASE WriteData(hs)
    <2>1. Await("WRITE_DATA", hs, "WRITE_RESP") /\ ~IsRead(master_cmd)
      BY <1>2 DEF WriteData, Await, IInv, BeatPlace, WritePhase
    <2> QED BY <1>2, <2>1, AwaitStep DEF WriteData, Phase
  <1>3. CASE ReadAddr(hs)
    <2>1. Await("READ_ADDR", hs, "READ_DATA") /\ IsRead(master_cmd)
      BY <1>3 DEF ReadAddr, Await, IInv, BeatPlace, ReadPhase
    <2> QED BY <1>3, <2>1, AwaitStep DEF ReadAddr, Phase
  <1> QED BY <1>1, <1>2, <1>3

LEMMA IInvInit == Init => IInv
  <1> SUFFICES ASSUME Init PROVE IInv
    OBVIOUS
  <1>1. /\ mstate = "IDLE" /\ master_cmd = 0 /\ beat_counter = 0 /\ current_addr = 0
        /\ data_byte_index = 0 /\ status_reg = STATUS_OK /\ axi_timer = 0
        /\ early_busy_sent \in BOOLEAN /\ transaction_done \in BOOLEAN /\ read_data_count = 0
    BY DEF Init, MasterInit
  <1>2. read_data \in Seq(Byte) /\ Len(read_data) = 0 /\ r_queue \in Seq(0..(AddrSpace - 1))
    BY EmptySeq DEF Init, MasterInit
  <1>3. Widths
    BY <1>1, <1>2, AxiTimeoutIsNat, AddrSpaceIsWords DEF Widths, MasterState, Outcomes, Byte
  <1> QED BY <1>1, <1>3 DEF IInv, BeatPlace, BufferPlace, ErrorPlace, Phase, WritePhase, ReadPhase

LEMMA IInvStep == IInv /\ [Next]_vars => IInv'
  <1> SUFFICES ASSUME IInv, [Next]_vars PROVE IInv'
    OBVIOUS
  <1>0. /\ r_queue \in Seq(0..(AddrSpace - 1)) /\ current_addr \in 0..(AddrSpace - 1)
        /\ current_addr \in Nat
    BY AddrSpaceIsWords DEF IInv, Widths
  <1>1. CASE Begin
    BY <1>1, BeginStep
  <1>2. CASE Internal
    BY <1>2, RestStep, CheckAlignmentStep, NextBeatStep DEF Internal, Nothing, slaveVars
  <1>3. CASE Wait
    <2>1. r_queue' = r_queue
      BY <1>3 DEF Wait, Nothing, slaveVars
    <2>2. \/ WriteAddr(FALSE) \/ WriteData(FALSE) \/ ReadAddr(FALSE)
          \/ WriteResp(FALSE, TRUE) \/ ReadData(FALSE, TRUE, Word(current_addr))
      BY <1>3 DEF Wait
    <2> QED BY <1>0, <2>1, <2>2, WaitingPhases, WriteRespStep, ReadDataStep
  <1>4. CASE TakeWriteAddr
    <2>1. WriteAddr(TRUE) /\ r_queue' = r_queue
      BY <1>4 DEF TakeWriteAddr
    <2> QED BY <1>0, <2>1, WaitingPhases
  <1>5. CASE TakeWriteData
    <2>1. WriteData(TRUE) /\ r_queue' = r_queue
      BY <1>5 DEF TakeWriteData
    <2> QED BY <1>0, <2>1, WaitingPhases
  <1>6. CASE GiveWriteResp
    <2>1. PICK okay \in BOOLEAN : WriteResp(TRUE, okay) /\ r_queue' = r_queue
      BY <1>6 DEF GiveWriteResp
    <2> QED BY <2>1, WriteRespStep
  <1>7. CASE TakeReadAddr
    <2>1. ReadAddr(TRUE) /\ r_queue' = Append(r_queue, current_addr)
      BY <1>7 DEF TakeReadAddr
    <2>2. r_queue' \in Seq(0..(AddrSpace - 1))
      BY <1>0, <2>1, AppendProperties
    <2> QED BY <2>1, <2>2, WaitingPhases
  <1>8. CASE GiveReadData
    <2>1. PICK okay \in BOOLEAN : ReadData(TRUE, okay, Word(Head(r_queue)))
      BY <1>8 DEF GiveReadData
    <2>2. r_queue # <<>> /\ r_queue' = Tail(r_queue)
      BY <1>8 DEF GiveReadData
    <2>3. Head(r_queue) \in 0..(AddrSpace - 1) /\ r_queue' \in Seq(0..(AddrSpace - 1))
      BY <1>0, <2>2, HeadTailProperties
    <2>4. Head(r_queue) \in Nat
      BY <2>3
    <2> QED BY <2>1, <2>3, <2>4, ReadDataStep
  <1>9. CASE Report
    BY <1>9, RestStep DEF Report, slaveVars
  <1>10. CASE UNCHANGED vars
    BY <1>10 DEF vars, masterVars, slaveVars, IInv, Widths, BeatPlace, BufferPlace, ErrorPlace,
       beat_size
  <1> QED BY <1>1, <1>2, <1>3, <1>4, <1>5, <1>6, <1>7, <1>8, <1>9, <1>10 DEF Next, Edge

-----------------------------------------------------------------------------
(* Axi4_Lite_Master: no register ever outgrows its width, whatever the      *)
(* slave does.                                                              *)
THEOREM MasterKeepsItsWidths == Spec => []MasterTypeOK
  <1>1. IInv => MasterTypeOK
    BY StatusesDiffer DEF IInv, Widths, MasterTypeOK
  <1> QED BY <1>1, IInvInit, IInvStep, PTL DEF Spec

(* The port's vocabulary is the master's own. *)
LEMMA PortVocabulary ==
    /\ Port!Byte = Byte /\ Port!STATUS_OK = STATUS_OK
    /\ \A cmd : /\ Port!IsRead(cmd) = IsRead(cmd)
                /\ Port!BytesAsked(cmd) = (LenField(cmd) + 1) * BeatSize(cmd)
  BY DEF Port!Byte, Byte, Port!STATUS_OK, STATUS_OK, Port!IsRead, IsRead, Port!BytesAsked,
     Port!LenField, LenField, Port!BeatSize, BeatSize, Port!SizeField, SizeField

LEMMA PortInit == Init => Port!AxiInit
  <1> SUFFICES ASSUME Init PROVE Port!AxiInit
    OBVIOUS
  <1> QED BY PortVocabulary DEF Init, MasterInit, Port!AxiInit

(* Every step of the master is a step of the port, or none.                 *)
LEMMA PortStep == IInv /\ [Next]_vars => [Port!AxiNext]_(Port!axiVars)
  <1> SUFFICES ASSUME IInv, [Next]_vars PROVE [Port!AxiNext]_(Port!axiVars)
    OBVIOUS
  <1>1. CASE Begin
    <2>1. PICK cmd \in Byte, addr \in 0..(AddrSpace - 1) : StartTransaction(cmd, addr)
      BY <1>1, CommandsAreLegal DEF Begin
    <2>2. Port!AxiStart(TRUE, cmd)
      BY <2>1, PortVocabulary DEF StartTransaction, Port!AxiStart
    <2> QED BY <2>2, PortVocabulary DEF Port!AxiNext
  <1>2. CASE RestIdle /\ Nothing
    <2>1. Port!AxiIdle(FALSE)
      BY <1>2 DEF RestIdle, Nothing, Port!AxiIdle
    <2> QED BY <2>1 DEF Port!AxiNext
  <1>3. CASE Report
    <2>1. /\ mstate \in {"DONE", "ERROR"} /\ mstate' = "IDLE" /\ transaction_done' = TRUE
          /\ master_cmd' = master_cmd /\ status_reg' = status_reg
          /\ delivered' = SubSeq(read_data, 1, read_data_count)
      BY <1>3 DEF Report, Finish
    <2>2. status_reg \in Outcomes /\ read_data \in Seq(Byte) /\ master_cmd \in Byte
      BY DEF IInv, Widths
    <2>3. CASE mstate = "DONE" /\ IsRead(master_cmd)
      <3> DEFINE n == (LenField(master_cmd) + 1) * beat_size
      <3>1. SizeField(master_cmd) # 3 /\ read_data_count = n /\ Len(read_data) = n
        BY <2>3 DEF IInv, BeatPlace, BufferPlace
      <3>2. n \in 1..64
        <4>1. LenField(master_cmd) \in 0..LenField(master_cmd)
          BY <2>2, <3>1, BeatArithmetic
        <4> QED BY <2>2, <3>1, <4>1, BeatArithmetic DEF beat_size
      <3>3. delivered' = read_data
        BY <2>1, <2>2, <3>1, SubSeqFull
      <3>4. delivered' \in [1..n -> Byte]
        BY <2>2, <3>1, <3>3, LenProperties
      <3>5. Port!BytesAsked(master_cmd) = n
        BY PortVocabulary DEF beat_size
      <3> HIDE DEF n
      <3>6. Port!AxiFinish
        BY <2>1, <2>2, <2>3, <3>4, <3>5, PortVocabulary DEF Port!AxiFinish, Outcomes
      <3> QED BY <3>6 DEF Port!AxiNext
    <2>4. CASE ~(mstate = "DONE" /\ IsRead(master_cmd))
      <3>1. read_data_count = 0 /\ (IsRead(master_cmd) => status_reg # STATUS_OK)
        BY <2>1, <2>4 DEF IInv, BufferPlace, ErrorPlace
      <3>2. delivered' = <<>>
        BY <2>1, <3>1, SubSeqEmpty
      <3>3. Port!AxiFinish
        BY <2>1, <2>2, <3>1, <3>2, PortVocabulary DEF Port!AxiFinish, Outcomes
      <3> QED BY <3>3 DEF Port!AxiNext
    <2> QED BY <2>3, <2>4
  <1>4. CASE \/ (CheckAlignment \/ NextBeat) /\ Nothing
            \/ Wait \/ TakeWriteAddr \/ TakeWriteData \/ GiveWriteResp \/ TakeReadAddr \/ GiveReadData
    <2>1. /\ mstate # "IDLE" /\ mstate' # "IDLE"
          /\ transaction_done' = transaction_done /\ master_cmd' = master_cmd
      BY <1>4 DEF CheckAlignment, NextBeat, Wait, TakeWriteAddr, TakeWriteData, GiveWriteResp,
         TakeReadAddr, GiveReadData, WriteAddr, WriteData, WriteResp, ReadAddr, ReadData, Await
    <2> QED BY <2>1 DEF Port!axiVars
  <1>5. CASE UNCHANGED vars
    BY <1>5 DEF vars, masterVars, Port!axiVars
  <1> QED BY <1>1, <1>2, <1>3, <1>4, <1>5 DEF Next, Edge, Internal

(* What the control state machine relies on holds whatever slave is on the  *)
(* bus: one done pulse for one start, an outcome that stays readable, a     *)
(* good read complete and a failed one complete or empty.                   *)
THEOREM MasterImplementsPort == Spec => PortImplemented
  <1> QED BY IInvInit, IInvStep, PortInit, PortStep, PTL DEF Spec, PortImplemented, Port!AxiPortSpec

-----------------------------------------------------------------------------
(* Where the bytes of a write go: the address in hand is that of the beat.  *)
AddressPlace ==
    /\ asked_addr \in 0..(AddrSpace - 1)
    /\ mstate = "CHECK_ALIGNMENT" => current_addr = asked_addr
    /\ mstate \in Phase \cup {"NEXT_BEAT"} => current_addr = BeatAddr(beat_counter)

StaysInside == IInv /\ AddressPlace /\ landed \in [Cells -> Nat] /\ WritesStayInside

(* Reducing an address in steps or at once is the same. *)
LEMMA Remainder ==
    ASSUME NEW N \in Nat \ {0}, NEW x \in Nat, NEW b \in Nat
    PROVE  ((x % N) + b) % N = (x + b) % N
  <1> DEFINE q == x \div N
             r == x % N
             s == (r + b) \div N
             t == (r + b) % N
             u == (x + b) \div N
             v == (x + b) % N
  <1>1. q \in Nat /\ r \in 0..(N - 1) /\ x = N * q + r
    OBVIOUS
  <1>2. s \in Nat /\ t \in 0..(N - 1) /\ r + b = N * s + t
    BY <1>1
  <1>3. u \in Nat /\ v \in 0..(N - 1) /\ x + b = N * u + v
    OBVIOUS
  <1> HIDE DEF q, r, s, t, u, v
  <1>4. N * (q + s) + t = N * u + v
    <2>1. N * (q + s) = N * q + N * s
      BY <1>1, <1>2
    <2> QED BY <1>1, <1>2, <1>3, <2>1
  <1>5. q + s = u
    <2>1. CASE q + s > u
      <3>1. PICK d \in Nat : q + s = u + 1 + d
        <4>1. q + s - u - 1 \in Nat
          BY <1>1, <1>2, <1>3, <2>1
        <4>2. q + s = u + 1 + (q + s - u - 1)
          BY <1>1, <1>2, <1>3
        <4> QED BY <4>1, <4>2
      <3>2. N * (q + s) = N * u + N + N * d /\ N * d \in Nat
        BY <1>3, <3>1
      <3> QED BY <1>2, <1>3, <1>4, <3>2
    <2>2. CASE q + s < u
      <3>1. PICK d \in Nat : u = q + s + 1 + d
        <4>1. u - q - s - 1 \in Nat
          BY <1>1, <1>2, <1>3, <2>2
        <4>2. u = q + s + 1 + (u - q - s - 1)
          BY <1>1, <1>2, <1>3
        <4> QED BY <4>1, <4>2
      <3>2. N * u = N * (q + s) + N + N * d /\ N * d \in Nat
        BY <1>1, <1>2, <3>1
      <3>3. N * (q + s) \in Nat
        BY <1>1, <1>2
      <3> QED BY <1>2, <1>3, <1>4, <3>2, <3>3
    <2> QED BY <1>1, <1>2, <1>3, <2>1, <2>2
  <1>6. t = v
    <2>1. N * (q + s) = N * u
      BY <1>5
    <2>2. N * u \in Nat
      BY <1>3
    <2> QED BY <1>2, <1>3, <1>4, <2>1, <2>2
  <1> QED BY <1>6 DEF t, v, r

(* The first beat is at the address asked for, each next one beat further.  *)
LEMMA BeatAddresses ==
    ASSUME Widths, SizeField(master_cmd) # 3, asked_addr \in 0..(AddrSpace - 1)
    PROVE  /\ BeatAddr(0) = asked_addr
           /\ \A i \in 0..15 :
                 BeatAddr(i + 1) = IF IncBit(master_cmd) THEN (BeatAddr(i) + beat_size) % AddrSpace
                                   ELSE asked_addr
  <1>1. beat_size \in {1, 2, 4} /\ AddrSpace \in Nat \ {0} /\ asked_addr \in Nat
    BY BeatArithmetic, AddrSpaceIsWords DEF Widths, beat_size
  <1>2. BeatAddr(0) = asked_addr
    <2>1. asked_addr + 0 * beat_size = asked_addr
      BY <1>1
    <2>2. asked_addr % AddrSpace = asked_addr
      BY <1>1
    <2> QED BY <2>1, <2>2 DEF BeatAddr
  <1>3. ASSUME NEW i \in 0..15, IncBit(master_cmd)
        PROVE  BeatAddr(i + 1) = (BeatAddr(i) + beat_size) % AddrSpace
    <2>1. asked_addr + i * beat_size \in Nat /\ beat_size \in Nat
      BY <1>1
    <2>2. asked_addr + (i + 1) * beat_size = (asked_addr + i * beat_size) + beat_size
      BY <1>1
    <2> QED BY <1>1, <1>3, <2>1, <2>2, Remainder DEF BeatAddr
  <1> QED BY <1>2, <1>3 DEF BeatAddr

(* The write data of a beat lands in the cells of the beat.                 *)
LEMMA LandsInside ==
    ASSUME StaysInside, mstate = "WRITE_DATA", NEW c \in Cells,
           c - (current_addr - (current_addr % 4)) \in wstrb
    PROVE  LET byte == wdata[c - (current_addr - (current_addr % 4))]
           IN  /\ byte \in Nat
               /\ \E i \in Beats : c \in BeatCells(i) /\ byte = i * beat_size + 1 + c - BeatAddr(i)
  <1> DEFINE lane == c - (current_addr - (current_addr % 4))
             byte == wdata[lane]
  <1>1. /\ current_addr \in Nat /\ c \in Nat /\ data_byte_index \in Nat /\ beat_counter \in 0..15
        /\ beat_counter <= LenField(master_cmd) /\ data_byte_index = beat_counter * beat_size
        /\ current_addr = BeatAddr(beat_counter)
    <2>1. /\ current_addr \in 0..(AddrSpace - 1) /\ data_byte_index \in 0..63 /\ beat_counter \in 0..15
          /\ beat_counter <= LenField(master_cmd) /\ data_byte_index = beat_counter * beat_size
      BY DEF StaysInside, IInv, Widths, BeatPlace, Phase
    <2>2. current_addr = BeatAddr(beat_counter)
      BY DEF StaysInside, AddressPlace, Phase
    <2>3. c \in Nat
      BY CommandsAreLegal
    <2> QED BY <2>1, <2>2, <2>3, AddrSpaceIsWords
  <1>2. beat_size \in {1, 2, 4} /\ LenField(master_cmd) \in 0..15
    BY BeatInHand DEF StaysInside, Phase
  <1>3. current_addr % 4 \in 0..3
    BY <1>1
  <1>4. wstrb = (current_addr % 4)..((current_addr % 4) + beat_size - 1)
    BY DEF wstrb, lane_of_addr
  <1>5. lane >= current_addr % 4 /\ lane <= (current_addr % 4) + beat_size - 1 /\ lane \in Int
    BY <1>1, <1>2, <1>3, <1>4
  <1>6. c \in current_addr..(current_addr + beat_size - 1)
    BY <1>1, <1>2, <1>3, <1>5
  <1>7. byte = data_byte_index + 1 + lane - (current_addr % 4)
    BY DEF wdata, lane_of_addr
  <1>8. byte = data_byte_index + 1 + c - current_addr
    BY <1>1, <1>3, <1>7
  <1>9. byte \in Nat
    BY <1>1, <1>6, <1>8
  <1>10. beat_counter \in Beats
    BY <1>1, <1>2 DEF Beats
  <1>11. c \in BeatCells(beat_counter)
    BY <1>1, <1>6 DEF BeatCells
  <1> QED BY <1>1, <1>8, <1>9, <1>10, <1>11

(* A step that stores nothing and starts nothing. *)
LEMMA NothingStored ==
    ASSUME WritesStayInside, UNCHANGED <<master_cmd, asked_addr, landed>>
    PROVE  WritesStayInside'
  BY DEF WritesStayInside, Beats, BeatCells, BeatAddr, beat_size

(* Where the address goes in the steps of a handshake. *)
LEMMA AddressKept ==
    ASSUME IInv, AddressPlace, UNCHANGED <<master_cmd, asked_addr, current_addr, beat_counter>>,
           mstate \in Phase \cup {"NEXT_BEAT"} \/ mstate' \in {"IDLE", "DONE", "ERROR"},
           mstate' # "CHECK_ALIGNMENT"
    PROVE  AddressPlace'
  BY DEF AddressPlace, BeatAddr, beat_size, Phase

(* Every step that neither starts, checks, advances nor stores.             *)
LEMMA QuietStep ==
    ASSUME StaysInside, IInv', UNCHANGED <<master_cmd, asked_addr, current_addr, beat_counter, landed>>,
           mstate \in Phase \/ mstate' \in {"IDLE", "DONE", "ERROR"}, mstate' # "CHECK_ALIGNMENT"
    PROVE  StaysInside'
  <1>1. IInv /\ AddressPlace /\ WritesStayInside /\ landed \in [Cells -> Nat]
    BY DEF StaysInside
  <1>2. AddressPlace'
    BY <1>1, AddressKept
  <1>3. WritesStayInside'
    BY <1>1, NothingStored
  <1> QED BY <1>1, <1>2, <1>3 DEF StaysInside

(* What a start leaves behind: nothing has landed.                          *)
LEMMA NothingLanded ==
    ASSUME landed = [cell \in Cells |-> 0]
    PROVE  landed \in [Cells -> Nat] /\ WritesStayInside
  BY DEF WritesStayInside

LEMMA BeginInside ==
    ASSUME StaysInside, IInv', Begin
    PROVE  StaysInside'
  <1>1. PICK cmd \in Byte, addr \in 0..(AddrSpace - 1) :
            /\ StartTransaction(cmd, addr) /\ asked_addr' = addr
            /\ landed' = [cell \in Cells |-> 0]
    BY CommandsAreLegal DEF Begin
  <1>2. AddressPlace'
    BY <1>1 DEF StartTransaction, AddressPlace, Phase
  <1>3. landed' \in [Cells -> Nat] /\ WritesStayInside'
    BY <1>1 DEF WritesStayInside
  <1> QED BY <1>2, <1>3 DEF StaysInside

LEMMA CheckInside ==
    ASSUME StaysInside, IInv', CheckAlignment, Nothing
    PROVE  StaysInside'
  <1>1. /\ mstate = "CHECK_ALIGNMENT" /\ mstate' \in Phase \cup {"ERROR"}
        /\ mstate' \in Phase => SizeField(master_cmd) # 3
        /\ UNCHANGED <<master_cmd, asked_addr, current_addr, beat_counter, landed>>
    BY DEF CheckAlignment, addr_ok, Nothing, Phase
  <1>2. /\ IInv /\ Widths /\ AddressPlace /\ WritesStayInside /\ landed \in [Cells -> Nat]
        /\ beat_counter = 0 /\ current_addr = asked_addr /\ asked_addr \in 0..(AddrSpace - 1)
    BY <1>1 DEF StaysInside, IInv, BeatPlace, AddressPlace
  <1>3. mstate' \in Phase => BeatAddr(0) = asked_addr
    BY <1>1, <1>2, BeatAddresses
  <1>4. BeatAddr(0)' = BeatAddr(0)
    BY <1>1 DEF BeatAddr, beat_size
  <1>5. AddressPlace'
    BY <1>1, <1>2, <1>3, <1>4 DEF AddressPlace, Phase
  <1>6. WritesStayInside'
    BY <1>1, <1>2, NothingStored
  <1> QED BY <1>1, <1>2, <1>5, <1>6 DEF StaysInside

LEMMA AdvanceInside ==
    ASSUME StaysInside, IInv', NextBeat, Nothing
    PROVE  StaysInside'
  <1>1. /\ mstate = "NEXT_BEAT" /\ mstate' \in Phase
        /\ beat_counter' = (beat_counter + 1) % 16
        /\ current_addr' = IF IncBit(master_cmd) THEN (current_addr + beat_size) % AddrSpace
                           ELSE current_addr
        /\ UNCHANGED <<master_cmd, asked_addr, landed>>
    BY DEF NextBeat, Nothing, Phase
  <1>2. /\ IInv /\ Widths /\ WritesStayInside /\ landed \in [Cells -> Nat]
        /\ asked_addr \in 0..(AddrSpace - 1) /\ current_addr = BeatAddr(beat_counter)
        /\ SizeField(master_cmd) # 3 /\ beat_counter \in 0..15 /\ beat_counter < LenField(master_cmd)
        /\ LenField(master_cmd) \in 0..15
    BY <1>1, BeatInHand DEF StaysInside, IInv, Widths, BeatPlace, AddressPlace
  <1>3. beat_counter' = beat_counter + 1
    BY <1>1, <1>2
  <1>4. current_addr' = BeatAddr(beat_counter + 1)
    <2>1. BeatAddr(beat_counter + 1) = IF IncBit(master_cmd)
                                       THEN (BeatAddr(beat_counter) + beat_size) % AddrSpace
                                       ELSE asked_addr
      BY <1>2, BeatAddresses
    <2>2. ~IncBit(master_cmd) => BeatAddr(beat_counter) = asked_addr
      BY DEF BeatAddr
    <2> QED BY <1>1, <1>2, <2>1, <2>2
  <1>5. BeatAddr(beat_counter)' = BeatAddr(beat_counter + 1)
    BY <1>1, <1>3 DEF BeatAddr, beat_size
  <1>6. AddressPlace'
    BY <1>1, <1>2, <1>4, <1>5 DEF AddressPlace, Phase
  <1>7. WritesStayInside'
    BY <1>1, <1>2, NothingStored
  <1> QED BY <1>1, <1>2, <1>6, <1>7 DEF StaysInside

LEMMA StoreInside ==
    ASSUME StaysInside, IInv', TakeWriteData
    PROVE  StaysInside'
  <1> DEFINE base == current_addr - (current_addr % 4)
             after == [c \in Cells |-> IF c - base \in wstrb THEN wdata[c - base] ELSE landed[c]]
  <1>1. /\ mstate = "WRITE_DATA" /\ landed' \in {after, landed} /\ mstate' # "CHECK_ALIGNMENT"
        /\ UNCHANGED <<master_cmd, asked_addr, current_addr, beat_counter>>
    BY DEF TakeWriteData, WriteData, Await
  <1>2. IInv /\ AddressPlace /\ WritesStayInside /\ landed \in [Cells -> Nat]
    BY DEF StaysInside
  <1>3. AddressPlace'
    BY <1>1, <1>2, AddressKept DEF Phase
  <1>4. CASE landed' = landed
    BY <1>1, <1>2, <1>3, <1>4, NothingStored DEF StaysInside
  <1>5. CASE landed' = after
    <2>1. ASSUME NEW c \in Cells
          PROVE  /\ landed'[c] \in Nat
                 /\ landed'[c] # 0 => \E i \in Beats : /\ c \in BeatCells(i)
                                                      /\ landed'[c] = i * beat_size + 1 + c - BeatAddr(i)
      <3>1. CASE c - base \in wstrb
        <4>1. landed'[c] = wdata[c - base]
          BY <1>5, <3>1
        <4> HIDE DEF after
        <4> QED BY <1>1, <3>1, <4>1, LandsInside
      <3>2. CASE c - base \notin wstrb
        <4>1. landed'[c] = landed[c]
          BY <1>5, <3>2
        <4> QED BY <1>2, <4>1 DEF WritesStayInside
      <3> QED BY <3>1, <3>2
    <2>2. landed' \in [Cells -> Nat]
      BY <1>5, <2>1
    <2>3. WritesStayInside'
      BY <1>1, <2>1 DEF WritesStayInside, Beats, BeatCells, BeatAddr, beat_size
    <2> QED BY <1>3, <2>2, <2>3 DEF StaysInside
  <1> QED BY <1>1, <1>4, <1>5

LEMMA StaysInsideInit == Init => StaysInside
  <1> SUFFICES ASSUME Init PROVE StaysInside
    OBVIOUS
  <1>1. IInv
    BY IInvInit
  <1>2. AddressPlace
    BY AddrSpaceIsWords DEF Init, MasterInit, AddressPlace, Phase
  <1>3. landed \in [Cells -> Nat] /\ WritesStayInside
    BY NothingLanded DEF Init
  <1> QED BY <1>1, <1>2, <1>3 DEF StaysInside

LEMMA StaysInsideStep == StaysInside /\ [Next]_vars => StaysInside'
  <1> SUFFICES ASSUME StaysInside, [Next]_vars PROVE StaysInside'
    OBVIOUS
  <1>1. IInv'
    BY IInvStep DEF StaysInside
  <1>2. CASE Begin
    BY <1>1, <1>2, BeginInside
  <1>3. CASE CheckAlignment /\ Nothing
    BY <1>1, <1>3, CheckInside
  <1>4. CASE NextBeat /\ Nothing
    BY <1>1, <1>4, AdvanceInside
  <1>5. CASE TakeWriteData
    BY <1>1, <1>5, StoreInside
  <1>6. CASE RestIdle /\ Nothing
    BY <1>1, <1>6, QuietStep DEF RestIdle, Nothing
  <1>7. CASE Wait \/ TakeWriteAddr \/ GiveWriteResp \/ TakeReadAddr \/ GiveReadData
    <2>1. /\ mstate \in Phase /\ mstate' # "CHECK_ALIGNMENT"
          /\ UNCHANGED <<master_cmd, asked_addr, current_addr, beat_counter, landed>>
      BY <1>7 DEF Wait, TakeWriteAddr, GiveWriteResp, TakeReadAddr, GiveReadData, Nothing,
         WriteAddr, WriteData, WriteResp, ReadAddr, ReadData, Await, Phase
    <2> QED BY <1>1, <2>1, QuietStep
  <1>8. CASE Report
    BY <1>1, <1>8, QuietStep DEF Report, Finish
  <1>9. CASE UNCHANGED vars
    <2>1. UNCHANGED <<master_cmd, asked_addr, current_addr, beat_counter, landed, mstate>>
      BY <1>9 DEF vars, masterVars
    <2> QED BY <1>1, <2>1, NothingStored DEF StaysInside, AddressPlace, BeatAddr, beat_size
  <1> QED BY <1>2, <1>3, <1>4, <1>5, <1>6, <1>7, <1>8, <1>9 DEF Next, Edge, Internal

(* Whatever the slave does and whatever the outcome, a write changes only   *)
(* the cells its beats address, each with its own byte of the payload.      *)
THEOREM BytesLandWhereAddressed == Spec => []WritesStayInside
  <1>1. StaysInside => WritesStayInside
    BY DEF StaysInside
  <1> QED BY <1>1, StaysInsideInit, StaysInsideStep, PTL DEF Spec

-----------------------------------------------------------------------------
(* What an OK stands for.  The payload byte a cell holds once a set of      *)
(* beats is stored, and once the first n are: that of the last of them on   *)
(* it.                                                                      *)
ByteOf(beats, c) ==
    LET on == {i \in beats : c \in BeatCells(i)}
        i  == CHOOSE i \in on : \A j \in on : j <= i
    IN  IF on = {} THEN 0 ELSE i * beat_size + 1 + c - BeatAddr(i)

WantedAfter(n, c) == ByteOf(0..(n - 1), c)

Stored(n) == \A c \in Cells : landed[c] = WantedAfter(n, c)

(* The bytes of the first n beats, as far as the master promises them.      *)
Fetched(bytes, n) ==
    \A i \in 0..(n - 1), k \in 1..beat_size :
        BeatAddr(i) % 4 = 0 => bytes[i * beat_size + k] = (BeatAddr(i) + k - 1) % 256

(* With one access of a kind at a time, what the slave holds while the      *)
(* master waits is the beat in hand: an access given up on blocks the next. *)
SlavePlace ==
    /\ b_queue \in Seq(BOOLEAN)
    /\ mstate = "WRITE_DATA" => b_queue = <<>>
    /\ mstate = "WRITE_RESP" => Len(b_queue) = 1
    /\ mstate = "READ_DATA"  => r_queue = <<current_addr>>

(* Beats answered, and an error that is never forgotten.                    *)
CountPlace ==
    /\ mstate # "IDLE" => ~transaction_done
    /\ mstate \in Phase \cup {"NEXT_BEAT"} => addr_ok
    /\ mstate \in Phase \cup {"CHECK_ALIGNMENT"} => answered = beat_counter
    /\ mstate = "NEXT_BEAT" => answered = beat_counter + 1
    /\ mstate = "DONE" => answered = LenField(master_cmd) + 1
    /\ refused \in BOOLEAN
    /\ refused => status_reg # STATUS_OK

StoredPlace ==
    status_reg = STATUS_OK /\ ~IsRead(master_cmd) =>
        /\ mstate \in {"CHECK_ALIGNMENT", "WRITE_ADDR", "WRITE_DATA"} => Stored(beat_counter)
        /\ mstate = "WRITE_RESP" /\ b_queue = <<TRUE>> => Stored(beat_counter + 1)
        /\ mstate = "NEXT_BEAT" => Stored(beat_counter + 1)
        /\ mstate = "DONE" => Stored(LenField(master_cmd) + 1)

FetchedPlace ==
    IsRead(master_cmd) =>
        /\ mstate \in ReadPhase => Fetched(read_data, beat_counter)
        /\ mstate = "NEXT_BEAT" => Fetched(read_data, beat_counter + 1)
        /\ mstate = "DONE" => Fetched(read_data, LenField(master_cmd) + 1)

CarriedOut == /\ StaysInside /\ SlavePlace /\ CountPlace /\ StoredPlace /\ FetchedPlace
              /\ OkMeansDone

LEMMA WantedGrows ==
    ASSUME NEW n \in Nat, NEW c
    PROVE  /\ WantedAfter(0, c) = 0
           /\ WantedAfter(n + 1, c) = IF c \in BeatCells(n) THEN n * beat_size + 1 + c - BeatAddr(n)
                                      ELSE WantedAfter(n, c)
  <1> DEFINE On(m) == {i \in 0..(m - 1) : c \in BeatCells(i)}
             Last(m) == CHOOSE i \in On(m) : \A j \in On(m) : j <= i
  <1>0. \A m : WantedAfter(m, c) = IF On(m) = {} THEN 0
                                   ELSE Last(m) * beat_size + 1 + c - BeatAddr(Last(m))
    BY DEF WantedAfter, ByteOf
  <1>1. On(0) = {}
    OBVIOUS
  <1>2. CASE c \in BeatCells(n)
    <2>1. n \in On(n + 1) /\ \A j \in On(n + 1) : j <= n
      BY <1>2
    <2>2. Last(n + 1) \in On(n + 1) /\ n <= Last(n + 1) /\ Last(n + 1) <= n
      BY <2>1
    <2>3. Last(n + 1) = n
      BY <2>2
    <2> HIDE DEF On, Last
    <2> QED BY <1>0, <1>1, <1>2, <2>1, <2>3
  <1>3. CASE c \notin BeatCells(n)
    <2>1. On(n + 1) = On(n)
      BY <1>3
    <2>2. Last(n + 1) = Last(n)
      BY <2>1
    <2> HIDE DEF On, Last
    <2> QED BY <1>0, <1>1, <1>3, <2>1, <2>2
  <1> QED BY <1>2, <1>3

(* What a beat stores, cell by cell: its own bytes in its own cells.        *)
LEMMA BeatStored ==
    ASSUME StaysInside, addr_ok, mstate = "WRITE_DATA", NEW c \in Cells
    PROVE  LET lane == c - (current_addr - (current_addr % 4))
           IN  /\ lane \in wstrb <=> c \in BeatCells(beat_counter)
               /\ lane \in wstrb =>
                      wdata[lane] = beat_counter * beat_size + 1 + c - BeatAddr(beat_counter)
  <1> DEFINE lane == c - (current_addr - (current_addr % 4))
  <1>1. /\ current_addr \in Nat /\ c \in Nat /\ data_byte_index \in Nat
        /\ data_byte_index = beat_counter * beat_size /\ current_addr = BeatAddr(beat_counter)
    <2>1. /\ current_addr \in 0..(AddrSpace - 1) /\ data_byte_index \in 0..63
          /\ data_byte_index = beat_counter * beat_size
      BY DEF StaysInside, IInv, Widths, BeatPlace, Phase
    <2>2. current_addr = BeatAddr(beat_counter)
      BY DEF StaysInside, AddressPlace, Phase
    <2> QED BY <2>1, <2>2, CommandsAreLegal, AddrSpaceIsWords
  <1>2. beat_size \in {1, 2, 4}
    BY BeatInHand DEF StaysInside, Phase
  <1>3. current_addr % 4 \in 0..3
    BY <1>1
  <1>4. wstrb = (current_addr % 4)..((current_addr % 4) + beat_size - 1)
    BY DEF wstrb, lane_of_addr
  <1>5. lane \in wstrb <=> c \in current_addr..(current_addr + beat_size - 1)
    BY <1>1, <1>2, <1>3, <1>4
  <1>6. ASSUME lane \in wstrb
        PROVE  wdata[lane] = data_byte_index + 1 + c - current_addr
    <2>1. wdata[lane] = data_byte_index + 1 + lane - (current_addr % 4)
      BY <1>6 DEF wdata, lane_of_addr
    <2> QED BY <1>1, <1>3, <2>1
  <1> QED BY <1>1, <1>5, <1>6 DEF BeatCells

(* What is promised of a transaction is the same while its command is.      *)
LEMMA PromiseKept ==
    ASSUME UNCHANGED <<master_cmd, asked_addr>>
    PROVE  /\ beat_size' = beat_size /\ UNCHANGED Beats
           /\ \A i : BeatAddr(i)' = BeatAddr(i) /\ BeatCells(i)' = BeatCells(i)
           /\ \A n, c : WantedAfter(n, c)' = WantedAfter(n, c)
           /\ \A c : Wanted(c)' = Wanted(c)
  BY DEF beat_size, Beats, BeatAddr, BeatCells, ByteOf, WantedAfter, Wanted

LEMMA StoredKept ==
    ASSUME UNCHANGED <<master_cmd, asked_addr, landed>>, NEW n
    PROVE  Stored(n)' = Stored(n)
  BY PromiseKept DEF Stored

LEMMA FetchedKept ==
    ASSUME UNCHANGED <<master_cmd, asked_addr, read_data>>, NEW n
    PROVE  Fetched(read_data, n)' = Fetched(read_data, n)
  BY PromiseKept DEF Fetched

LEMMA FetchedMoved ==
    ASSUME UNCHANGED <<master_cmd, asked_addr>>, NEW n
    PROVE  Fetched(read_data, n)' = Fetched(read_data', n)
  BY PromiseKept DEF Fetched

(* A status that has gone wrong stays wrong until the next start.           *)
LEMMA LateForgetsNothing == LateStatus = STATUS_OK => status_reg = STATUS_OK
  BY StatusesDiffer DEF LateStatus

(* A cycle in which nothing is handed over: the beat waits, or is given up. *)
LEMMA WaitDone ==
    ASSUME CarriedOut, StaysInside', Wait
    PROVE  CarriedOut'
  <1>1. /\ mstate \in Phase /\ mstate' \in {mstate, "ERROR"}
        /\ UNCHANGED <<master_cmd, beat_counter, current_addr, transaction_done, read_data>>
        /\ UNCHANGED <<asked_addr, landed, answered, refused, b_queue, r_queue>>
        /\ status_reg' = STATUS_OK => status_reg = STATUS_OK
    BY LateForgetsNothing DEF Wait, Nothing, slaveVars, WriteAddr, WriteData, WriteResp, ReadAddr,
       ReadData, Await, Phase
  <1>2. SlavePlace'
    BY <1>1 DEF CarriedOut, SlavePlace
  <1>3. CountPlace'
    BY <1>1 DEF CarriedOut, CountPlace, Phase, addr_ok, beat_size
  <1>4. StoredPlace'
    BY <1>1, StoredKept DEF CarriedOut, StoredPlace, Phase
  <1>5. FetchedPlace'
    BY <1>1, FetchedKept DEF CarriedOut, FetchedPlace, Phase, ReadPhase
  <1>6. OkMeansDone'
    BY <1>1 DEF CarriedOut, CountPlace, OkMeansDone, Phase
  <1> QED BY <1>2, <1>3, <1>4, <1>5, <1>6 DEF CarriedOut

LEMMA BeginDone ==
    ASSUME CarriedOut, StaysInside', Begin
    PROVE  CarriedOut'
  <1>1. /\ mstate' = "CHECK_ALIGNMENT" /\ beat_counter' = 0 /\ transaction_done' = FALSE
        /\ b_queue' = b_queue /\ answered' = 0 /\ refused' = FALSE
        /\ landed' = [cell \in Cells |-> 0]
    BY DEF Begin, StartTransaction, slaveVars
  <1>2. SlavePlace' /\ CountPlace' /\ FetchedPlace' /\ OkMeansDone'
    BY <1>1 DEF CarriedOut, SlavePlace, CountPlace, FetchedPlace, OkMeansDone, Phase, ReadPhase
  <1>3. StoredPlace'
    <2>1. \A c : WantedAfter(0, c)' = 0
      BY DEF WantedAfter, ByteOf
    <2>2. Stored(0)'
      BY <1>1, <2>1 DEF Stored
    <2> QED BY <1>1, <2>2 DEF StoredPlace
  <1> QED BY <1>2, <1>3 DEF CarriedOut

LEMMA CheckDone ==
    ASSUME CarriedOut, StaysInside', CheckAlignment, Nothing
    PROVE  CarriedOut'
  <1>1. /\ mstate = "CHECK_ALIGNMENT"
        /\ \/ mstate' \in {"READ_ADDR", "WRITE_ADDR"} /\ addr_ok
           \/ mstate' = "ERROR"
        /\ status_reg' = STATUS_OK => status_reg = STATUS_OK
        /\ UNCHANGED <<master_cmd, beat_counter, current_addr, transaction_done, read_data>>
        /\ UNCHANGED <<asked_addr, landed, answered, refused, b_queue, r_queue>>
    BY StatusesDiffer DEF CheckAlignment, Nothing, slaveVars
  <1>2. beat_counter = 0
    BY <1>1 DEF CarriedOut, StaysInside, IInv, BeatPlace
  <1>3. SlavePlace'
    BY <1>1 DEF CarriedOut, SlavePlace
  <1>4. CountPlace'
    BY <1>1 DEF CarriedOut, CountPlace, Phase, addr_ok, beat_size
  <1>5. StoredPlace'
    BY <1>1, StoredKept DEF CarriedOut, StoredPlace
  <1>6. FetchedPlace'
    BY <1>1, <1>2 DEF FetchedPlace, ReadPhase, Fetched
  <1>7. OkMeansDone'
    BY <1>1 DEF CarriedOut, CountPlace, OkMeansDone
  <1> QED BY <1>3, <1>4, <1>5, <1>6, <1>7 DEF CarriedOut

(* One beat further from an aligned address is an aligned address.          *)
LEMMA StaysAligned ==
    ASSUME NEW a \in Nat, NEW b \in {1, 2, 4}, a % b = 0
    PROVE  ((a + b) % AddrSpace) % b = 0
  <1>1. AddrSpace \in Nat \ {0} /\ AddrSpace % 4 = 0
    BY AddrSpaceIsWords
  <1> DEFINE words == AddrSpace \div 4
             q == (a + b) \div AddrSpace
             r == (a + b) % AddrSpace
  <1>2. words \in Nat /\ AddrSpace = 4 * words
    BY <1>1
  <1>3. q \in Nat /\ r \in Nat /\ a + b = AddrSpace * q + r
    BY <1>1
  <1> HIDE DEF words, q, r
  <1>4. AddrSpace * q = 4 * (words * q) /\ words * q \in Nat
    BY <1>2, <1>3
  <1> DEFINE p == words * q
  <1>5. p \in Nat /\ r = a + b - 4 * p
    BY <1>3, <1>4
  <1> HIDE DEF p
  <1>6. CASE b = 1
    BY <1>3, <1>6 DEF r
  <1>7. CASE b = 2
    <2>1. r % 2 = 0
      BY <1>3, <1>5, <1>7
    <2> QED BY <1>7, <2>1 DEF r
  <1>8. CASE b = 4
    <2>1. r % 4 = 0
      BY <1>3, <1>5, <1>8
    <2> QED BY <1>8, <2>1 DEF r
  <1> QED BY <1>6, <1>7, <1>8

LEMMA NextBeatDone ==
    ASSUME CarriedOut, StaysInside', NextBeat, Nothing
    PROVE  CarriedOut'
  <1>1. /\ mstate = "NEXT_BEAT" /\ mstate' \in {"READ_ADDR", "WRITE_ADDR"}
        /\ mstate' = "READ_ADDR" <=> IsRead(master_cmd)
        /\ current_addr' = IF IncBit(master_cmd) THEN (current_addr + beat_size) % AddrSpace
                           ELSE current_addr
        /\ UNCHANGED <<master_cmd, status_reg, transaction_done, read_data>>
        /\ UNCHANGED <<asked_addr, landed, answered, refused, b_queue, r_queue>>
    BY DEF NextBeat, Nothing, slaveVars
  <1>2. beat_counter' = beat_counter + 1
    <2>1. beat_counter \in 0..15 /\ beat_counter < LenField(master_cmd)
          /\ LenField(master_cmd) \in 0..15
      BY <1>1, BeatInHand DEF CarriedOut, StaysInside, IInv, Widths, BeatPlace, Phase
    <2> QED BY <2>1 DEF NextBeat
  <1>3. addr_ok'
    <2>1. beat_size \in {1, 2, 4} /\ current_addr \in Nat /\ SizeField(master_cmd) # 3
          /\ current_addr % beat_size = 0
      BY <1>1, BeatInHand, AddrSpaceIsWords
         DEF CarriedOut, StaysInside, IInv, Widths, CountPlace, addr_ok, Phase
    <2>2. current_addr' % beat_size = 0
      BY <1>1, <2>1, StaysAligned
    <2> QED BY <1>1, <2>1, <2>2 DEF addr_ok, beat_size
  <1>4. SlavePlace'
    BY <1>1 DEF CarriedOut, SlavePlace
  <1>5. CountPlace'
    BY <1>1, <1>2, <1>3 DEF CarriedOut, CountPlace, Phase
  <1>6. StoredPlace'
    BY <1>1, <1>2, StoredKept DEF CarriedOut, StoredPlace
  <1>7. FetchedPlace'
    BY <1>1, <1>2, FetchedKept DEF CarriedOut, FetchedPlace, ReadPhase
  <1>8. OkMeansDone'
    BY <1>1 DEF CarriedOut, CountPlace, OkMeansDone
  <1> QED BY <1>4, <1>5, <1>6, <1>7, <1>8 DEF CarriedOut

(* With room for one access only, an address is taken by an empty slave.    *)
LEMMA TakeAddrDone ==
    ASSUME SlaveDepth = 1, CarriedOut, StaysInside', TakeWriteAddr \/ TakeReadAddr
    PROVE  CarriedOut'
  <1>1. /\ \/ mstate = "WRITE_ADDR" /\ mstate' = "WRITE_DATA" /\ Len(b_queue) < 1 /\ r_queue' = r_queue
           \/ /\ mstate = "READ_ADDR" /\ mstate' = "READ_DATA" /\ Len(r_queue) < 1
              /\ r_queue' = Append(r_queue, current_addr)
        /\ UNCHANGED <<master_cmd, beat_counter, current_addr, transaction_done, read_data>>
        /\ UNCHANGED <<asked_addr, landed, answered, refused, b_queue>>
        /\ status_reg' = STATUS_OK => status_reg = STATUS_OK
    BY LateForgetsNothing DEF TakeWriteAddr, TakeReadAddr, WriteAddr, ReadAddr, Await
  <1>2. /\ b_queue \in Seq(BOOLEAN) /\ r_queue \in Seq(0..(AddrSpace - 1))
        /\ current_addr \in 0..(AddrSpace - 1)
    BY DEF CarriedOut, SlavePlace, StaysInside, IInv, Widths
  <1>3. SlavePlace'
    <2>1. CASE mstate = "WRITE_ADDR"
      <3>1. b_queue = <<>>
        BY <1>1, <1>2, <2>1, EmptySeq
      <3> QED BY <1>1, <1>2, <2>1, <3>1 DEF SlavePlace
    <2>2. CASE mstate = "READ_ADDR"
      <3>1. r_queue = <<>>
        BY <1>1, <1>2, <2>2, EmptySeq
      <3>2. r_queue' = <<current_addr>>
        BY <1>1, <2>2, <3>1
      <3> QED BY <1>1, <1>2, <2>2, <3>2 DEF SlavePlace
    <2> QED BY <1>1, <2>1, <2>2
  <1>4. CountPlace'
    BY <1>1 DEF CarriedOut, CountPlace, Phase, addr_ok, beat_size
  <1>5. StoredPlace'
    BY <1>1, StoredKept DEF CarriedOut, StoredPlace
  <1>6. FetchedPlace'
    BY <1>1, FetchedKept DEF CarriedOut, FetchedPlace, ReadPhase
  <1>7. OkMeansDone'
    BY <1>1 DEF CarriedOut, CountPlace, OkMeansDone
  <1> QED BY <1>3, <1>4, <1>5, <1>6, <1>7 DEF CarriedOut

LEMMA TakeDataDone ==
    ASSUME CarriedOut, StaysInside', TakeWriteData
    PROVE  CarriedOut'
  <1> DEFINE base == current_addr - (current_addr % 4)
             after == [c \in Cells |-> IF c - base \in wstrb THEN wdata[c - base] ELSE landed[c]]
  <1>1. PICK okay \in BOOLEAN :
            /\ mstate = "WRITE_DATA" /\ mstate' = "WRITE_RESP"
            /\ UNCHANGED <<master_cmd, beat_counter, current_addr, transaction_done, read_data>>
            /\ UNCHANGED <<asked_addr, answered, refused, r_queue>>
            /\ status_reg' = STATUS_OK => status_reg = STATUS_OK
            /\ b_queue' = Append(b_queue, okay)
            /\ okay = TRUE => landed' = after
    <2>1. PICK okay \in BOOLEAN :
              /\ WriteData(TRUE) /\ b_queue' = Append(b_queue, okay)
              /\ landed' \in {after} \cup (IF okay THEN {} ELSE {landed})
              /\ UNCHANGED <<r_queue, asked_addr, answered, refused>>
      BY DEF TakeWriteData
    <2>2. okay = TRUE => landed' = after
      BY <2>1
    <2> HIDE DEF after
    <2> QED BY <2>1, <2>2, LateForgetsNothing DEF WriteData, Await
  <1>2. b_queue' = <<okay>>
    BY <1>1 DEF CarriedOut, SlavePlace
  <1>3. SlavePlace'
    BY <1>1, <1>2 DEF SlavePlace
  <1>4. CountPlace'
    BY <1>1 DEF CarriedOut, CountPlace, Phase, addr_ok, beat_size
  <1>5. StoredPlace'
    <2> SUFFICES ASSUME status_reg = STATUS_OK, ~IsRead(master_cmd), okay = TRUE
                 PROVE  Stored(beat_counter + 1)'
      <3>1. b_queue' = <<TRUE>> => okay = TRUE
        BY <1>2
      <3> QED BY <1>1, <3>1 DEF StoredPlace, IsRead
    <2>1. Stored(beat_counter) /\ addr_ok /\ StaysInside /\ beat_counter \in Nat
      <3>1. Stored(beat_counter)
        BY <1>1 DEF CarriedOut, StoredPlace
      <3>2. addr_ok
        BY <1>1 DEF CarriedOut, CountPlace, Phase
      <3> QED BY <3>1, <3>2 DEF CarriedOut, StaysInside, IInv, Widths
    <2>2. ASSUME NEW c \in Cells
          PROVE  landed'[c] = WantedAfter(beat_counter + 1, c)
      <3>1. landed'[c] = IF c - base \in wstrb THEN wdata[c - base] ELSE landed[c]
        BY <1>1
      <3>2. landed[c] = WantedAfter(beat_counter, c)
        BY <2>1 DEF Stored
      <3> QED BY <1>1, <2>1, <3>1, <3>2, BeatStored, WantedGrows
    <2>3. \A n, c : WantedAfter(n, c)' = WantedAfter(n, c)
      BY <1>1, PromiseKept
    <2> QED BY <1>1, <2>2, <2>3 DEF Stored
  <1>6. FetchedPlace'
    BY <1>1 DEF FetchedPlace, ReadPhase
  <1>7. OkMeansDone'
    BY <1>1 DEF CarriedOut, CountPlace, OkMeansDone
  <1> QED BY <1>3, <1>4, <1>5, <1>6, <1>7 DEF CarriedOut

(* A queue of one is its head.                                              *)
LEMMA OneLeft ==
    ASSUME NEW S, NEW q \in Seq(S), Len(q) = 1
    PROVE  q = <<Head(q)>>
  OBVIOUS

LEMMA GiveRespDone ==
    ASSUME CarriedOut, StaysInside', GiveWriteResp
    PROVE  CarriedOut'
  <1>1. PICK okay \in BOOLEAN :
            /\ b_queue # <<>> /\ Head(b_queue) = okay /\ WriteResp(TRUE, okay)
            /\ refused' = (refused \/ ~okay) /\ answered' = answered + 1
            /\ b_queue' = Tail(b_queue) /\ UNCHANGED <<asked_addr, landed, r_queue>>
    BY DEF GiveWriteResp
  <1>2. /\ mstate = "WRITE_RESP" /\ mstate' = IF last_beat THEN "DONE" ELSE "NEXT_BEAT"
        /\ UNCHANGED <<master_cmd, beat_counter, current_addr, transaction_done, read_data>>
        /\ status_reg' = STATUS_OK => status_reg = STATUS_OK /\ okay
    BY <1>1, LateForgetsNothing DEF WriteResp, Await, STATUS_OK, STATUS_SLVERR
  <1>3. last_beat => beat_counter = LenField(master_cmd)
    BY <1>2, BeatInHand DEF CarriedOut, StaysInside, Phase
  <1>4. SlavePlace'
    <2>1. b_queue' \in Seq(BOOLEAN)
      BY <1>1, HeadTailProperties DEF CarriedOut, SlavePlace
    <2> QED BY <1>2, <2>1 DEF SlavePlace
  <1>5. CountPlace'
    BY <1>1, <1>2, <1>3 DEF CarriedOut, CountPlace, Phase, addr_ok, beat_size
  <1>6. StoredPlace'
    <2> SUFFICES ASSUME status_reg' = STATUS_OK, ~IsRead(master_cmd)
                 PROVE  /\ mstate' = "NEXT_BEAT" => Stored(beat_counter + 1)'
                        /\ mstate' = "DONE" => Stored(LenField(master_cmd) + 1)'
      BY <1>2 DEF StoredPlace, IsRead
    <2>1. b_queue = <<TRUE>>
      <3>1. b_queue \in Seq(BOOLEAN) /\ Len(b_queue) = 1 /\ okay = TRUE
        BY <1>2 DEF CarriedOut, SlavePlace
      <3>2. b_queue = <<Head(b_queue)>>
        BY <3>1, OneLeft
      <3> QED BY <1>1, <3>1, <3>2, Zenon
    <2>2. Stored(beat_counter + 1)
      BY <1>2, <2>1 DEF CarriedOut, StoredPlace
    <2> QED BY <1>1, <1>2, <1>3, <2>2, StoredKept
  <1>7. FetchedPlace'
    BY <1>2 DEF CarriedOut, FetchedPlace, StaysInside, IInv, BeatPlace, WritePhase
  <1>8. OkMeansDone'
    BY <1>2 DEF CarriedOut, CountPlace, OkMeansDone
  <1> QED BY <1>4, <1>5, <1>6, <1>7, <1>8 DEF CarriedOut

(* The bytes of a beat are those of its address, if it is a word's first.   *)
LEMMA BeatFetched ==
    ASSUME NEW buf \in Seq(Byte), NEW n \in Nat, Fetched(buf, n), beat_size \in {1, 2, 4},
           Len(buf) = n * beat_size, BeatAddr(n) \in Nat
    PROVE  Fetched(SubSeq(buf, 1, Len(buf)) \o SubSeq(Word(BeatAddr(n)), 1, beat_size), n + 1)
  <1> DEFINE beat == SubSeq(Word(BeatAddr(n)), 1, beat_size)
  <1>1. SubSeq(buf, 1, Len(buf)) = buf
    BY SubSeqFull
  <1>2. beat \in Seq(Byte) /\ Len(beat) = beat_size
    BY WordIsBytes
  <1>3. \A k \in 1..beat_size : BeatAddr(n) % 4 = 0 => beat[k] = (BeatAddr(n) + k - 1) % 256
    BY WordIsBytes
  <1> HIDE DEF beat
  <1>4. ASSUME NEW i \in 0..n, NEW k \in 1..beat_size, BeatAddr(i) % 4 = 0
        PROVE  (buf \o beat)[i * beat_size + k] = (BeatAddr(i) + k - 1) % 256
    <2>1. CASE i = n
      <3>1. (buf \o beat)[n * beat_size + k] = beat[k]
        BY <1>2
      <3> QED BY <1>3, <1>4, <2>1, <3>1
    <2>2. CASE i < n
      <3>1. i * beat_size + k \in 1..(n * beat_size)
        <4>1. CASE beat_size = 1
          BY <2>2, <4>1
        <4>2. CASE beat_size = 2
          BY <2>2, <4>2
        <4>3. CASE beat_size = 4
          BY <2>2, <4>3
        <4> QED BY <4>1, <4>2, <4>3
      <3>2. (buf \o beat)[i * beat_size + k] = buf[i * beat_size + k]
        BY <1>2, <3>1
      <3>3. i \in 0..(n - 1)
        BY <2>2
      <3> QED BY <1>4, <3>2, <3>3 DEF Fetched
    <2>3. i = n \/ i < n
      OBVIOUS
    <2> QED BY <2>1, <2>2, <2>3, Zenon
  <1>5. Fetched(buf \o beat, n + 1)
    <2>1. 0..((n + 1) - 1) = 0..n
      OBVIOUS
    <2> QED BY <1>4, <2>1, Zenon DEF Fetched
  <1> QED BY <1>1, <1>5 DEF beat

LEMMA GiveDataDone ==
    ASSUME CarriedOut, StaysInside', GiveReadData
    PROVE  CarriedOut'
  <1>1. PICK okay \in BOOLEAN :
            /\ ReadData(TRUE, okay, Word(Head(r_queue)))
            /\ refused' = (refused \/ ~okay)
            /\ UNCHANGED <<b_queue, asked_addr, landed>>
            /\ answered' = answered + 1
    BY DEF GiveReadData
  <1>2. /\ mstate = "READ_DATA" /\ mstate' = IF last_beat THEN "DONE" ELSE "NEXT_BEAT"
        /\ UNCHANGED <<master_cmd, beat_counter, current_addr, transaction_done>>
        /\ status_reg' = STATUS_OK => status_reg = STATUS_OK /\ okay
        /\ read_data' = SubSeq(read_data, 1, data_byte_index) \o SubSeq(Word(Head(r_queue)), 1, beat_size)
    BY <1>1, LateForgetsNothing DEF ReadData, Await, STATUS_OK, STATUS_SLVERR
  <1>3. Head(r_queue) = current_addr
    BY <1>2 DEF CarriedOut, SlavePlace
  <1>4. last_beat => beat_counter = LenField(master_cmd)
    BY <1>2, BeatInHand DEF CarriedOut, StaysInside, Phase
  <1>5. SlavePlace'
    BY <1>1, <1>2 DEF CarriedOut, SlavePlace
  <1>6. CountPlace'
    BY <1>1, <1>2, <1>4 DEF CarriedOut, CountPlace, Phase, addr_ok, beat_size
  <1>7. StoredPlace'
    BY <1>2 DEF CarriedOut, StoredPlace, StaysInside, IInv, BeatPlace, ReadPhase
  <1>8. FetchedPlace'
    <2>1. /\ read_data \in Seq(Byte) /\ beat_counter \in Nat /\ Fetched(read_data, beat_counter)
          /\ Len(read_data) = data_byte_index /\ data_byte_index = beat_counter * beat_size
          /\ current_addr = BeatAddr(beat_counter) /\ current_addr \in Nat
      BY <1>2, AddrSpaceIsWords DEF CarriedOut, FetchedPlace, ReadPhase, StaysInside, IInv, Widths, BeatPlace,
         BufferPlace, AddressPlace, Phase
    <2>2. beat_size \in {1, 2, 4}
      BY <1>2, BeatInHand DEF CarriedOut, StaysInside, Phase
    <2>3. Fetched(read_data', beat_counter + 1)
      BY <1>2, <1>3, <2>1, <2>2, BeatFetched
    <2>4. Fetched(read_data, beat_counter + 1)'
      BY <1>1, <1>2, <2>3, FetchedMoved
    <2> QED BY <1>2, <1>4, <2>4 DEF FetchedPlace, ReadPhase
  <1>9. OkMeansDone'
    BY <1>2 DEF CarriedOut, CountPlace, OkMeansDone
  <1> QED BY <1>5, <1>6, <1>7, <1>8, <1>9 DEF CarriedOut

(* What DONE leaves in IDLE.                                                *)
LEMMA ReportDone ==
    ASSUME CarriedOut, StaysInside', Report
    PROVE  CarriedOut'
  <1>1. /\ mstate \in {"DONE", "ERROR"} /\ mstate' = "IDLE"
        /\ UNCHANGED <<master_cmd, status_reg, read_data>>
        /\ UNCHANGED <<asked_addr, landed, answered, refused, b_queue>>
        /\ delivered' = SubSeq(read_data, 1, read_data_count)
    BY DEF Report, Finish, slaveVars
  <1>2. SlavePlace' /\ CountPlace' /\ StoredPlace' /\ FetchedPlace'
    BY <1>1 DEF CarriedOut, SlavePlace, CountPlace, StoredPlace, FetchedPlace, Phase, ReadPhase
  <1>3. ASSUME status_reg = STATUS_OK
        PROVE  OkMeansDone'
    <2>1. /\ mstate = "DONE" /\ answered = LenField(master_cmd) + 1 /\ ~refused
          /\ SizeField(master_cmd) # 3 /\ master_cmd \in Byte
      BY <1>1, <1>3 DEF CarriedOut, CountPlace, StaysInside, IInv, ErrorPlace, BeatPlace, Widths
    <2>2. LenField(master_cmd) \in 0..15 /\ beat_size \in {1, 2, 4}
      BY <2>1, BeatArithmetic DEF beat_size
    <2>3. ASSUME ~IsRead(master_cmd), NEW c \in Cells
          PROVE  landed'[c] = Wanted(c)'
      <3>1. landed[c] = WantedAfter(LenField(master_cmd) + 1, c)
        BY <1>3, <2>1, <2>3 DEF CarriedOut, StoredPlace, Stored
      <3>2. 0..((LenField(master_cmd) + 1) - 1) = Beats
        BY <2>2 DEF Beats
      <3>3. WantedAfter(LenField(master_cmd) + 1, c) = ByteOf(Beats, c)
        BY <3>2 DEF WantedAfter
      <3>4. ByteOf(Beats, c) = Wanted(c)
        BY DEF ByteOf, Wanted
      <3> QED BY <1>1, <3>1, <3>3, <3>4, PromiseKept
    <2>4. ASSUME IsRead(master_cmd)
          PROVE  /\ Len(delivered') = answered * beat_size
                 /\ \A i \in Beats, k \in 1..beat_size :
                        BeatAddr(i) % 4 = 0 =>
                            delivered'[i * beat_size + k] = (BeatAddr(i) + k - 1) % 256
      <3>1. /\ read_data \in Seq(Byte) /\ Len(read_data) = read_data_count
            /\ read_data_count = (LenField(master_cmd) + 1) * beat_size
            /\ Fetched(read_data, LenField(master_cmd) + 1)
        BY <2>1, <2>4 DEF CarriedOut, StaysInside, IInv, Widths, BufferPlace, FetchedPlace
      <3>2. delivered' = read_data
        BY <1>1, <3>1, SubSeqFull
      <3>3. 0..((LenField(master_cmd) + 1) - 1) = Beats
        BY <2>2 DEF Beats
      <3> QED BY <2>1, <3>1, <3>2, <3>3 DEF Fetched
    <2>5. beat_size' = beat_size /\ UNCHANGED Beats /\ \A i : BeatAddr(i)' = BeatAddr(i)
      BY <1>1, PromiseKept
    <2> QED BY <1>1, <2>1, <2>3, <2>4, <2>5 DEF OkMeansDone
  <1>4. OkMeansDone'
    BY <1>1, <1>3 DEF OkMeansDone
  <1> QED BY <1>2, <1>4 DEF CarriedOut

(* At rest, or nothing at all.                                              *)
LEMMA RestDone ==
    ASSUME CarriedOut, StaysInside', (RestIdle /\ Nothing) \/ UNCHANGED vars
    PROVE  CarriedOut'
  <1>1. CASE RestIdle /\ Nothing
    <2>1. /\ mstate' = "IDLE" /\ transaction_done' = FALSE /\ UNCHANGED <<status_reg, refused, b_queue>>
      BY <1>1 DEF RestIdle, Nothing, slaveVars
    <2> QED BY <2>1 DEF CarriedOut, SlavePlace, CountPlace, StoredPlace, FetchedPlace, OkMeansDone,
               Phase, ReadPhase
  <1>2. CASE UNCHANGED vars
    <2>1. /\ UNCHANGED <<mstate, master_cmd, beat_counter, current_addr, status_reg, transaction_done>>
          /\ UNCHANGED <<read_data, b_queue, r_queue, asked_addr, landed, answered, refused, delivered>>
      BY <1>2 DEF vars, masterVars, slaveVars
    <2>2. SlavePlace' /\ CountPlace'
      BY <2>1 DEF CarriedOut, SlavePlace, CountPlace, addr_ok, beat_size
    <2>3. StoredPlace' /\ FetchedPlace'
      BY <2>1, StoredKept, FetchedKept DEF CarriedOut, StoredPlace, FetchedPlace
    <2>4. OkMeansDone'
      BY <2>1, PromiseKept DEF CarriedOut, OkMeansDone
    <2> QED BY <2>2, <2>3, <2>4 DEF CarriedOut
  <1> QED BY <1>1, <1>2

(* Axi4_Lite_Master against a slave that takes one access of a kind at a    *)
(* time, as Register_Block does: a transaction reported as OK was carried   *)
(* out beat by beat, its bytes stored where they belong or fetched from     *)
(* there, whatever was given up on before.                                  *)
THEOREM OkIsTheTruth == SlaveDepth = 1 => (Spec => []OkMeansDone)
  <1> SUFFICES ASSUME SlaveDepth = 1 PROVE Spec => []OkMeansDone
    OBVIOUS
  <1>1. Init => CarriedOut
    <2> SUFFICES ASSUME Init PROVE CarriedOut
      OBVIOUS
    <2>1. StaysInside
      BY StaysInsideInit
    <2>2. /\ mstate = "IDLE" /\ ~transaction_done /\ b_queue = <<>> /\ refused = FALSE
      BY DEF Init, MasterInit
    <2>3. SlavePlace
      BY <2>2, EmptySeq DEF SlavePlace
    <2>4. CountPlace
      BY <2>2 DEF CountPlace, Phase
    <2>5. StoredPlace /\ FetchedPlace /\ OkMeansDone
      BY <2>2 DEF StoredPlace, FetchedPlace, ReadPhase, OkMeansDone
    <2> QED BY <2>1, <2>3, <2>4, <2>5 DEF CarriedOut
  <1>2. CarriedOut /\ [Next]_vars => CarriedOut'
    <2> SUFFICES ASSUME CarriedOut, [Next]_vars PROVE CarriedOut'
      OBVIOUS
    <2>1. StaysInside'
      BY StaysInsideStep DEF CarriedOut
    <2> QED BY <2>1, BeginDone, CheckDone, NextBeatDone, WaitDone, TakeAddrDone, TakeDataDone,
               GiveRespDone, GiveDataDone, ReportDone, RestDone DEF Next, Edge, Internal
  <1>3. CarriedOut => OkMeansDone
    BY DEF CarriedOut
  <1> QED BY <1>1, <1>2, <1>3, PTL DEF Spec
=============================================================================
