---------------------------- MODULE AxiLiteMaster ----------------------------
(***************************************************************************)
(* Axi4_Lite_Master.sv with Address_Aligner.sv: carries a command out as   *)
(* one AXI4-Lite access per beat.  One step is one clock edge.             *)
(*                                                                         *)
(* Its inputs in a cycle are start, cmd and addr (the control state        *)
(* machine), hs (valid and ready are both up on the one channel the master *)
(* drives in this state), okay (the response is OKAY) and word, the four   *)
(* byte lanes of RDATA.  A byte of the write data is named by its place in *)
(* the payload, 1..64: the master only moves bytes.                        *)
(***************************************************************************)
EXTENDS BusProtocol

CONSTANTS AxiTimeout,             \* AXI_TIMEOUT, in clock cycles
          EarlyBusyThreshold,     \* EARLY_BUSY_THRESHOLD
          AddrSpace               \* addresses a register holds, 2^32

ASSUME AxiTimeoutIsNat == AxiTimeout \in Nat /\ EarlyBusyThreshold \in Nat
ASSUME AddrSpaceIsWords == AddrSpace \in Nat \ {0} /\ AddrSpace % 4 = 0

VARIABLES mstate, master_cmd,     \* state, cmd_reg
          beat_counter, current_addr, data_byte_index,
          status_reg, axi_timer, early_busy_sent, transaction_done,
          read_data,              \* the bytes of read_data written since the start
          read_data_count

masterVars == <<mstate, master_cmd, beat_counter, current_addr, data_byte_index, status_reg,
                axi_timer, early_busy_sent, transaction_done, read_data, read_data_count>>

Phase       == {"WRITE_ADDR", "WRITE_DATA", "WRITE_RESP", "READ_ADDR", "READ_DATA"}
MasterState == Phase \cup {"IDLE", "CHECK_ALIGNMENT", "NEXT_BEAT", "DONE", "ERROR"}

MasterInit ==
    /\ mstate = "IDLE" /\ master_cmd = 0 /\ beat_counter = 0 /\ current_addr = 0
    /\ data_byte_index = 0 /\ status_reg = STATUS_OK /\ axi_timer = 0
    /\ early_busy_sent = FALSE /\ transaction_done = FALSE
    /\ read_data = <<>> /\ read_data_count = 0

-----------------------------------------------------------------------------
beat_size == BeatSize(master_cmd)

(* Address_Aligner: aligned to the beat, and the byte lanes of one beat.    *)
addr_ok == SizeField(master_cmd) # 3 /\ current_addr % beat_size = 0
lane_of_addr == current_addr % 4
wstrb   == IF addr_ok THEN lane_of_addr..(lane_of_addr + beat_size - 1) ELSE {}

(* The payload byte on each strobed lane of WDATA. *)
wdata == [lane \in wstrb |-> data_byte_index + 1 + lane - lane_of_addr]

axi_timed_out == axi_timer >= AxiTimeout

(* Mutant: one beat too many. *)
last_beat_OneMore == beat_counter > LenField(master_cmd)

last_beat     == beat_counter >= LenField(master_cmd)

(* Flagged whenever the timer has run out, also in a cycle whose handshake  *)
(* still goes through.                                                      *)
LateStatus == IF ~axi_timed_out THEN status_reg
              ELSE IF early_busy_sent THEN STATUS_BUSY ELSE STATUS_TIMEOUT

(* Mutant: a channel is waited for without limit. *)
Await_Forever(phase, hs, next) ==
    /\ mstate = phase
    /\ mstate' = IF hs THEN next ELSE phase
    /\ axi_timer' = IF axi_timed_out THEN axi_timer ELSE axi_timer + 1
    /\ UNCHANGED <<master_cmd, beat_counter, current_addr, data_byte_index, transaction_done>>

(* One state of a channel handshake: the timer runs on over the phases of a *)
(* beat; a handshake in this cycle goes before the timeout.                 *)
Await(phase, hs, next) ==
    /\ mstate = phase
    /\ mstate' = IF hs THEN next ELSE IF axi_timed_out THEN "ERROR" ELSE phase
    /\ axi_timer' = IF axi_timed_out THEN axi_timer ELSE axi_timer + 1
    /\ UNCHANGED <<master_cmd, beat_counter, current_addr, data_byte_index, transaction_done>>

-----------------------------------------------------------------------------
(* One action per state. *)

(* Mutant: a start in the done cycle leaves the done flag up. *)
StartTransaction_KeepsDone(cmd, addr) ==
    /\ mstate = "IDLE" /\ mstate' = "CHECK_ALIGNMENT"
    /\ master_cmd' = cmd /\ current_addr' = addr
    /\ beat_counter' = 0 /\ data_byte_index' = 0
    /\ status_reg' = STATUS_OK /\ axi_timer' = 0 /\ early_busy_sent' = FALSE
    /\ read_data_count' = 0 /\ read_data' = <<>> /\ UNCHANGED transaction_done

StartTransaction(cmd, addr) ==
    /\ mstate = "IDLE" /\ mstate' = "CHECK_ALIGNMENT"
    /\ master_cmd' = cmd /\ current_addr' = addr
    /\ beat_counter' = 0 /\ data_byte_index' = 0
    /\ status_reg' = STATUS_OK /\ axi_timer' = 0 /\ early_busy_sent' = FALSE
    /\ transaction_done' = FALSE /\ read_data_count' = 0 /\ read_data' = <<>>

RestIdle ==
    /\ mstate = "IDLE"
    /\ transaction_done' = FALSE /\ axi_timer' = 0 /\ read_data_count' = 0
    /\ UNCHANGED <<mstate, master_cmd, beat_counter, current_addr, data_byte_index, status_reg,
                   early_busy_sent, read_data>>

CheckAlignment ==
    /\ mstate = "CHECK_ALIGNMENT"
    /\ mstate' = IF ~addr_ok THEN "ERROR"
                 ELSE IF IsRead(master_cmd) THEN "READ_ADDR" ELSE "WRITE_ADDR"
    /\ status_reg' = IF addr_ok THEN status_reg ELSE STATUS_ALIGN
    /\ axi_timer' = 0
    /\ UNCHANGED <<master_cmd, beat_counter, current_addr, data_byte_index, early_busy_sent,
                   transaction_done, read_data, read_data_count>>

WriteAddr(hs) == /\ Await("WRITE_ADDR", hs, "WRITE_DATA") /\ status_reg' = LateStatus
                 /\ UNCHANGED <<early_busy_sent, read_data, read_data_count>>

WriteData(hs) == /\ Await("WRITE_DATA", hs, "WRITE_RESP") /\ status_reg' = LateStatus
                 /\ UNCHANGED <<early_busy_sent, read_data, read_data_count>>

(* Mutant: a beat that is not the last forgives an error response.          *)
WriteResp_LastOnly(hs, okay) ==
    /\ Await("WRITE_RESP", hs, IF last_beat THEN "DONE" ELSE "NEXT_BEAT")
    /\ status_reg' = IF hs /\ ~okay /\ last_beat THEN STATUS_SLVERR ELSE LateStatus
    /\ UNCHANGED <<early_busy_sent, read_data, read_data_count>>

WriteResp(hs, okay) ==
    /\ Await("WRITE_RESP", hs, IF last_beat THEN "DONE" ELSE "NEXT_BEAT")
    /\ status_reg' = IF hs /\ ~okay THEN STATUS_SLVERR ELSE LateStatus
    /\ UNCHANGED <<early_busy_sent, read_data, read_data_count>>

ReadAddr(hs) == /\ Await("READ_ADDR", hs, "READ_DATA") /\ status_reg' = LateStatus
                /\ UNCHANGED <<early_busy_sent, read_data, read_data_count>>

(* The low lanes are taken whatever the address.                            *)
ReadData(hs, okay, word) ==
    /\ Await("READ_DATA", hs, IF last_beat THEN "DONE" ELSE "NEXT_BEAT")
    /\ early_busy_sent' = (early_busy_sent \/ axi_timer >= EarlyBusyThreshold)
    /\ status_reg' = IF hs /\ ~okay THEN STATUS_SLVERR ELSE LateStatus
    /\ read_data' = IF hs THEN SubSeq(read_data, 1, data_byte_index) \o SubSeq(word, 1, beat_size)
                    ELSE read_data
    /\ read_data_count' = IF hs /\ last_beat THEN data_byte_index + beat_size ELSE read_data_count

(* Mutant: the address moves on for fixed-address bursts too. *)
NextBeat_AlwaysInc ==
    /\ mstate = "NEXT_BEAT"
    /\ mstate' = IF IsRead(master_cmd) THEN "READ_ADDR" ELSE "WRITE_ADDR"
    /\ beat_counter' = (beat_counter + 1) % 16
    /\ current_addr' = (current_addr + beat_size) % AddrSpace
    /\ data_byte_index' = data_byte_index + beat_size
    /\ axi_timer' = 0
    /\ UNCHANGED <<master_cmd, status_reg, early_busy_sent, transaction_done, read_data,
                   read_data_count>>

NextBeat ==
    /\ mstate = "NEXT_BEAT"
    /\ mstate' = IF IsRead(master_cmd) THEN "READ_ADDR" ELSE "WRITE_ADDR"
    /\ beat_counter' = (beat_counter + 1) % 16
    /\ current_addr' = IF IncBit(master_cmd) THEN (current_addr + beat_size) % AddrSpace
                       ELSE current_addr
    /\ data_byte_index' = data_byte_index + beat_size
    /\ axi_timer' = 0
    /\ UNCHANGED <<master_cmd, status_reg, early_busy_sent, transaction_done, read_data,
                   read_data_count>>

Finish ==
    /\ mstate \in {"DONE", "ERROR"} /\ mstate' = "IDLE"
    /\ transaction_done' = TRUE /\ axi_timer' = 0
    /\ UNCHANGED <<master_cmd, beat_counter, current_addr, data_byte_index, status_reg,
                   early_busy_sent, read_data, read_data_count>>
=============================================================================
