---------------------------- MODULE FrameBuilder ----------------------------
(***************************************************************************)
(* Frame_Builder.sv: turns a (status, command, address, data) request into *)
(* the bytes of a response frame, one per clock, written to the TX FIFO    *)
(* through a registered write port.                                        *)
(*                                                                         *)
(* Its inputs in a cycle are full (tx_fifo_full), build (build_response),  *)
(* req (the request on the data ports) and reset (soft_reset_request).     *)
(***************************************************************************)
EXTENDS BusProtocol

VARIABLES bstate,                        \* state
          status_reg, cmd_echo_reg, addr_echo_reg,
          resp_data,                     \* data_reg[0 .. data_count_reg-1]
          data_index,
          build_response_prev,
          bcrc_reg,                      \* crc_calc.crc_reg
          tx_fifo_wr_en, tx_fifo_data

requestRegs == <<status_reg, cmd_echo_reg, addr_echo_reg, resp_data>>
builderVars == <<bstate, requestRegs, data_index, build_response_prev, bcrc_reg,
                 tx_fifo_wr_en, tx_fifo_data>>

SOF_DEVICE == 90           \* 0x5A, opens a response frame

BAddrState   == <<"BADDR_BYTE0", "BADDR_BYTE1", "BADDR_BYTE2", "BADDR_BYTE3">>
SendState    == {"BSOF", "BSTATUS", "BCMD", "BDATA", "BCRC"} \cup {BAddrState[i] : i \in 1..4}
BuilderState == SendState \cup {"BIDLE", "BDONE", "BGAP"}

BuilderInit ==
    /\ bstate = "BIDLE" /\ status_reg = 0 /\ cmd_echo_reg = 0
    /\ addr_echo_reg = [i \in 1..4 |-> 0] /\ resp_data = <<>>
    /\ data_index = 0 /\ build_response_prev = FALSE /\ bcrc_reg = 0
    /\ tx_fifo_wr_en = FALSE /\ tx_fifo_data = 0

builder_busy == bstate # "BIDLE"
(* Mutant: completion is signalled one state early. *)
response_complete_Early == bstate = "BCRC"

response_complete == bstate = "BDONE"

BuildEdge(build) == build /\ ~build_response_prev

(* The byte the current state sends, and the state after it. *)
ByteToSend ==
    CASE bstate = "BSOF"    -> SOF_DEVICE
      [] bstate = "BSTATUS" -> status_reg
      [] bstate = "BCMD"    -> cmd_echo_reg
      [] bstate = "BDATA"   -> resp_data[data_index + 1]
      [] bstate = "BCRC"    -> bcrc_reg
      [] OTHER -> addr_echo_reg[CHOOSE i \in 1..4 : bstate = BAddrState[i]]

(* Only a successful read carries address and data; RESET stops after the   *)
(* command echo.                                                            *)
AfterCmd == CASE cmd_echo_reg = CMD_RESET -> "BIDLE"
              [] IsRead(cmd_echo_reg) /\ cmd_echo_reg # CMD_RESET
                   /\ status_reg \in {0, 64, 128} -> BAddrState[1]
              [] OTHER -> "BCRC"

(* Mutant: off by one at the last data byte. *)
AfterData_OneMore == IF data_index = Len(resp_data) THEN "BCRC" ELSE "BDATA"

AfterData == IF data_index + 1 = Len(resp_data) THEN "BCRC" ELSE "BDATA"

AfterSend ==
    CASE bstate = "BSOF"    -> "BSTATUS"
      [] bstate = "BSTATUS" -> "BCMD"
      [] bstate = "BCMD"    -> AfterCmd
      [] bstate = BAddrState[4] -> IF Len(resp_data) > 0 THEN "BDATA" ELSE "BCRC"
      [] bstate = "BDATA"   -> AfterData
      [] bstate = "BCRC"    -> "BDONE"
      [] OTHER -> BAddrState[1 + CHOOSE i \in 1..3 : bstate = BAddrState[i]]

Sends(full) == /\ bstate \in SendState /\ ~full
               /\ bstate = "BDATA" => data_index < Len(resp_data)

-----------------------------------------------------------------------------
(* The state machine and the request registers. *)

StartResponse(build, req) ==
    /\ bstate = "BIDLE" /\ BuildEdge(build)
    /\ bstate' = "BSOF" /\ data_index' = 0
    /\ status_reg' = req.status /\ cmd_echo_reg' = req.cmd
    /\ addr_echo_reg' = req.addr /\ resp_data' = req.data

(* Mutant: the index into the response data is not advanced. *)
SendByte_SameIndex(full, build) ==
    /\ Sends(full)
    /\ bstate' = AfterSend
    /\ data_index' = IF BuildEdge(build) THEN 0 ELSE data_index
    /\ UNCHANGED requestRegs

SendByte(full, build) ==
    /\ Sends(full)
    /\ bstate' = AfterSend
    /\ data_index' = IF BuildEdge(build) THEN 0
                     ELSE IF bstate = "BDATA" THEN data_index + 1 ELSE data_index
    /\ UNCHANGED requestRegs

Rest(full, build) ==       \* stalled on a full FIFO, idle, or closing the frame
    /\ ~Sends(full) /\ ~(bstate = "BIDLE" /\ BuildEdge(build))
    /\ bstate' = CASE bstate = "BDONE" -> "BGAP"
                   [] bstate = "BGAP"  -> "BIDLE"
                   [] OTHER            -> bstate
    /\ data_index' = IF BuildEdge(build) THEN 0 ELSE data_index
    /\ UNCHANGED requestRegs

BuilderSoftReset ==
    /\ bstate' = "BIDLE" /\ data_index' = 0
    /\ status_reg' = 0 /\ cmd_echo_reg' = 0
    /\ addr_echo_reg' = [i \in 1..4 |-> 0] /\ resp_data' = <<>>
    /\ build_response_prev' = FALSE
    /\ tx_fifo_wr_en' = FALSE /\ tx_fifo_data' = 0

BuilderFsm(full, build, req) ==
    /\ StartResponse(build, req) \/ SendByte(full, build) \/ Rest(full, build)
    /\ build_response_prev' = build
    /\ tx_fifo_wr_en' = Sends(full)
    /\ tx_fifo_data' = IF Sends(full) THEN ByteToSend ELSE 0

(* Mutant: the CRC is not cleared between frames. *)
BuilderCrc_NoReset(full) ==
    bcrc_reg' = CASE Sends(full) /\ bstate \notin {"BSOF", "BCRC"} -> CrcNext(bcrc_reg, ByteToSend)
                  [] OTHER -> bcrc_reg

(* The CRC runs over every byte but the start marker and the CRC itself; it *)
(* follows the state even in the cycle of a soft reset.                     *)
BuilderCrc(full) ==
    bcrc_reg' = CASE bstate = "BIDLE" -> 0
                  [] Sends(full) /\ bstate \notin {"BSOF", "BCRC"} -> CrcNext(bcrc_reg, ByteToSend)
                  [] OTHER -> bcrc_reg

BuilderClock(full, build, req, reset) ==
    /\ IF reset THEN BuilderSoftReset ELSE BuilderFsm(full, build, req)
    /\ BuilderCrc(full)

BuilderTypeOK ==
    /\ bstate \in BuilderState
    /\ status_reg \in Byte /\ cmd_echo_reg \in Byte
    /\ addr_echo_reg \in [1..4 -> Byte]
    /\ resp_data \in Seq(Byte) /\ Len(resp_data) <= 64
    /\ data_index \in 0..64
    /\ bstate = "BDATA" => data_index < Len(resp_data)
    /\ build_response_prev \in BOOLEAN /\ bcrc_reg \in Byte
    /\ tx_fifo_wr_en \in BOOLEAN /\ tx_fifo_data \in Byte
=============================================================================
