----------------------------- MODULE FrameParser -----------------------------
(***************************************************************************)
(* Frame_Parser.sv: one step of this module is one rising clock edge.      *)
(*                                                                         *)
(* Its inputs in a cycle are rx, the byte at the head of the RX FIFO       *)
(* (NoByte when rx_fifo_empty), and fc, the main state machine's           *)
(* frame_consumed pulse.  Each always_ff block of the source is one        *)
(* operator; ParserClock is their conjunction.                             *)
(***************************************************************************)
EXTENDS BusProtocol

CONSTANTS TimeoutLimit,    \* TIMEOUT_LIMIT, in clock cycles
          EnableTimeout    \* ENABLE_TIMEOUT

ASSUME TimeoutLimitIsNat == TimeoutLimit \in Nat
ASSUME EnableTimeoutIsBool == EnableTimeout \in BOOLEAN

VARIABLES pstate,              \* state
          cmd_reg, current_cmd, addr_reg,
          data_reg,            \* data_reg[0 .. data_byte_count-1]
          expected_data_bytes,
          received_crc, crc_reg,
          error_status,        \* error_status_reg
          timeout_counter, timeout_occurred,
          frame_valid_hold, frame_consumed_reg,
          soft_reset,          \* soft_reset_pulse = soft_reset_request
          soft_reset_reg       \* soft_reset_pulse_reg

fsmVars    == <<pstate, cmd_reg, current_cmd, addr_reg, data_reg,
                expected_data_bytes, received_crc, crc_reg>>
parserVars == <<fsmVars, error_status, timeout_counter, timeout_occurred,
                frame_valid_hold, frame_consumed_reg, soft_reset, soft_reset_reg>>

NoByte == -1               \* rx_fifo_empty

AddrState    == <<"ADDR_BYTE0", "ADDR_BYTE1", "ADDR_BYTE2", "ADDR_BYTE3">>
WaitingState == {AddrState[i] : i \in 1..4} \cup {"CMD", "DATA_RX", "CRC_RX"}
ParserState  == WaitingState \cup {"IDLE", "VALIDATE", "POSTVTC", "ERROR"}

ParserInit ==
    /\ pstate = "IDLE" /\ cmd_reg = 0 /\ current_cmd = 0
    /\ addr_reg = [i \in 1..4 |-> 0] /\ data_reg = <<>>
    /\ expected_data_bytes = 0 /\ received_crc = 0
    /\ crc_reg \in Byte        \* the CRC register has no reset but SOF
    /\ error_status = STATUS_OK
    /\ timeout_counter = 0 /\ timeout_occurred = FALSE
    /\ frame_valid_hold = FALSE /\ frame_consumed_reg = FALSE
    /\ soft_reset = FALSE /\ soft_reset_reg = FALSE

-----------------------------------------------------------------------------
(* The wires the rest of the bridge reads. *)

frame_valid == frame_valid_hold /\ pstate = "VALIDATE"
frame_error == \/ pstate = "VALIDATE" /\ error_status # STATUS_OK
               \/ pstate = "ERROR"
               \/ timeout_occurred
parser_busy == pstate # "IDLE" /\ ~soft_reset

(* rx_fifo_rd_en: every state that waits for a byte takes it at once. *)
Pops(rx) == rx # NoByte /\ pstate \in WaitingState \cup {"IDLE"}

-----------------------------------------------------------------------------
(* The state machine, one action per state and event. *)

(* Mutant: the byte count of the last frame is not cleared. *)
HuntSof_KeepsData(rx) ==
    /\ pstate = "IDLE"
    /\ IF rx = SOF_HOST THEN pstate' = "CMD" /\ crc_reg' = 0
                        ELSE UNCHANGED <<pstate, crc_reg>>
    /\ current_cmd' = 0 /\ expected_data_bytes' = 0
    /\ UNCHANGED <<cmd_reg, addr_reg, data_reg, received_crc>>

HuntSof(rx) ==             \* IDLE: other bytes are discarded
    /\ pstate = "IDLE"
    /\ IF rx = SOF_HOST THEN pstate' = "CMD" /\ crc_reg' = 0
                        ELSE UNCHANGED <<pstate, crc_reg>>
    /\ data_reg' = <<>> /\ current_cmd' = 0 /\ expected_data_bytes' = 0
    /\ UNCHANGED <<cmd_reg, addr_reg, received_crc>>

TakeCmd(rx) ==
    /\ pstate = "CMD" /\ rx # NoByte
    /\ pstate' = IF rx = CMD_RESET THEN "CRC_RX" ELSE AddrState[1]
    /\ cmd_reg' = rx /\ current_cmd' = rx
    /\ expected_data_bytes' = PayloadBytes(rx)
    /\ crc_reg' = CrcNext(crc_reg, rx)
    /\ UNCHANGED <<addr_reg, data_reg, received_crc>>

TakeAddr(rx) ==
    /\ rx # NoByte
    /\ \E i \in 1..4 :
         /\ pstate = AddrState[i]
         /\ pstate' = IF i < 4 THEN AddrState[i + 1]
                      ELSE IF expected_data_bytes = 0 THEN "CRC_RX" ELSE "DATA_RX"
         /\ addr_reg' = [addr_reg EXCEPT ![i] = rx]
    /\ crc_reg' = CrcNext(crc_reg, rx)
    /\ UNCHANGED <<cmd_reg, current_cmd, data_reg, expected_data_bytes, received_crc>>

TakeData(rx) ==
    /\ pstate = "DATA_RX" /\ rx # NoByte
    /\ pstate' = IF Len(data_reg) + 1 >= expected_data_bytes THEN "CRC_RX" ELSE "DATA_RX"
    /\ data_reg' = IF Len(data_reg) < 64 THEN Append(data_reg, rx) ELSE data_reg
    /\ crc_reg' = CrcNext(crc_reg, rx)
    /\ UNCHANGED <<cmd_reg, current_cmd, addr_reg, expected_data_bytes, received_crc>>

TakeCrc(rx) ==
    /\ pstate = "CRC_RX" /\ rx # NoByte
    /\ pstate' = "VALIDATE" /\ received_crc' = rx
    /\ UNCHANGED <<cmd_reg, current_cmd, addr_reg, data_reg, expected_data_bytes, crc_reg>>

(* Mutant: the wait for the CRC byte has no timeout. *)
AwaitByte_CrcForever(rx) ==
    /\ pstate \in WaitingState /\ rx = NoByte
    /\ pstate' = IF timeout_occurred /\ pstate # "CRC_RX" THEN "ERROR" ELSE pstate
    /\ UNCHANGED <<cmd_reg, current_cmd, addr_reg, data_reg, expected_data_bytes,
                   received_crc, crc_reg>>

AwaitByte(rx) ==           \* no byte: wait, or give the frame up
    /\ pstate \in WaitingState /\ rx = NoByte
    /\ pstate' = IF timeout_occurred THEN "ERROR" ELSE pstate
    /\ UNCHANGED <<cmd_reg, current_cmd, addr_reg, data_reg, expected_data_bytes,
                   received_crc, crc_reg>>

(* Mutant: a valid frame does not wait for frame_consumed. *)
Validate_DropsFrame(fc) ==
    /\ pstate = "VALIDATE"
    /\ pstate' = IF current_cmd = CMD_RESET THEN "POSTVTC"
                 ELSE IF fc \/ frame_valid THEN "IDLE" ELSE "VALIDATE"
    /\ UNCHANGED <<cmd_reg, current_cmd, addr_reg, data_reg, expected_data_bytes,
                   received_crc, crc_reg>>

Validate(fc) ==            \* RESET leaves at once, CRC or not
    /\ pstate = "VALIDATE"
    /\ pstate' = IF current_cmd = CMD_RESET THEN "POSTVTC"
                 ELSE IF fc THEN "IDLE" ELSE "VALIDATE"
    /\ UNCHANGED <<cmd_reg, current_cmd, addr_reg, data_reg, expected_data_bytes,
                   received_crc, crc_reg>>

(* Mutant: ERROR is a one-cycle state. *)
LeaveError_AtOnce(fc) ==
    /\ pstate = "ERROR"
    /\ pstate' = "IDLE"
    /\ UNCHANGED <<cmd_reg, current_cmd, addr_reg, data_reg, expected_data_bytes,
                   received_crc, crc_reg>>

LeaveError(fc) ==
    /\ pstate = "ERROR"
    /\ pstate' = IF fc THEN "IDLE" ELSE "ERROR"
    /\ UNCHANGED <<cmd_reg, current_cmd, addr_reg, data_reg, expected_data_bytes,
                   received_crc, crc_reg>>

PostReset ==
    /\ pstate = "POSTVTC"
    /\ pstate' = "IDLE"
    /\ UNCHANGED <<cmd_reg, current_cmd, addr_reg, data_reg, expected_data_bytes,
                   received_crc, crc_reg>>

SoftResetFsm ==
    /\ pstate' = "IDLE" /\ cmd_reg' = 0 /\ current_cmd' = 0
    /\ addr_reg' = [i \in 1..4 |-> 0] /\ data_reg' = <<>>
    /\ expected_data_bytes' = 0 /\ received_crc' = 0
    /\ UNCHANGED crc_reg

ParserFsm(rx, fc) ==
    \/ soft_reset /\ SoftResetFsm
    \/ /\ ~soft_reset
       /\ \/ HuntSof(rx) \/ TakeCmd(rx) \/ TakeAddr(rx) \/ TakeData(rx) \/ TakeCrc(rx)
          \/ AwaitByte(rx) \/ Validate(fc) \/ LeaveError(fc) \/ PostReset

-----------------------------------------------------------------------------
(* The registers beside the state machine. *)

(* The last assignment of the block wins: a timeout flagged in this cycle   *)
(* overrides the verdict, even when a byte has just arrived.                *)
ErrorStatus(rx) ==
    error_status' =
        IF soft_reset \/ pstate = "IDLE" THEN STATUS_OK
        ELSE IF timeout_occurred /\ pstate # "ERROR" THEN STATUS_TIMEOUT
        ELSE IF pstate = "CRC_RX" /\ rx # NoByte
             THEN IF rx = crc_reg THEN STATUS_OK ELSE STATUS_CRC_ERR
        ELSE IF pstate = "VALIDATE"
             THEN IF ~CmdValid(current_cmd) THEN STATUS_CMD_INV
                  ELSE IF received_crc # crc_reg THEN STATUS_CRC_ERR ELSE STATUS_OK
        ELSE error_status

TimeoutMonitor(rx) ==
    IF ~EnableTimeout \/ pstate \notin WaitingState \/ rx # NoByte
    THEN timeout_counter' = 0 /\ timeout_occurred' = FALSE
    ELSE IF timeout_counter >= TimeoutLimit
         THEN timeout_occurred' = TRUE /\ UNCHANGED timeout_counter
         ELSE timeout_counter' = timeout_counter + 1 /\ UNCHANGED timeout_occurred

(* Mutant: the CRC comparison is left out. *)
FrameValidHold_AnyCrc(fc) ==
    frame_valid_hold' =
        IF soft_reset \/ pstate \in {"POSTVTC", "IDLE"} \/ fc \/ frame_consumed_reg THEN FALSE
        ELSE IF pstate = "VALIDATE" THEN current_cmd # CMD_RESET /\ CmdValid(current_cmd)
        ELSE frame_valid_hold

FrameValidHold(fc) ==
    frame_valid_hold' =
        IF soft_reset \/ pstate \in {"POSTVTC", "IDLE"} \/ fc \/ frame_consumed_reg THEN FALSE
        ELSE IF pstate = "VALIDATE"
             THEN /\ current_cmd # CMD_RESET
                  /\ CmdValid(current_cmd)
                  /\ received_crc = crc_reg
        ELSE frame_valid_hold

ConsumedLatch(fc) ==
    frame_consumed_reg' = (fc \/ (frame_consumed_reg /\ pstate # "IDLE"))

SoftResetPulse ==
    LET fire == pstate = "VALIDATE" /\ current_cmd = CMD_RESET /\ ~soft_reset_reg
    IN  /\ soft_reset' = fire
        /\ soft_reset_reg' = (fire \/ (soft_reset_reg /\ pstate = "VALIDATE"))

ParserClock(rx, fc) ==
    /\ ParserFsm(rx, fc)
    /\ ErrorStatus(rx)
    /\ TimeoutMonitor(rx)
    /\ FrameValidHold(fc)
    /\ ConsumedLatch(fc)
    /\ SoftResetPulse

ParserTypeOK ==
    /\ pstate \in ParserState
    /\ cmd_reg \in Byte /\ current_cmd \in Byte
    /\ addr_reg \in [1..4 -> Byte]
    /\ data_reg \in Seq(Byte) /\ Len(data_reg) <= 64
    /\ expected_data_bytes \in 0..64
    /\ received_crc \in Byte /\ crc_reg \in Byte
    /\ error_status \in Status
    /\ timeout_counter \in 0..TimeoutLimit /\ timeout_occurred \in BOOLEAN
    /\ frame_valid_hold \in BOOLEAN /\ frame_consumed_reg \in BOOLEAN
    /\ soft_reset \in BOOLEAN /\ soft_reset_reg \in BOOLEAN
=============================================================================
