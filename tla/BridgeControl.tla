---------------------------- MODULE BridgeControl ----------------------------
(***************************************************************************)
(* The main control state machine of Uart_Axi4_Bridge.sv between the frame *)
(* parser, the AXI master and the frame builder.  The AXI master is seen   *)
(* through its port only: axi_done (transaction_done), axi_status and      *)
(* axi_read_data, the bytes read so far (read_data_count is its length).   *)
(***************************************************************************)
EXTENDS FrameParser, FrameBuilder

VARIABLES main_state,
          captured_cmd, captured_addr, captured_read_data_count,
          axi_transaction_done_prev,
          axi_start_issued, builder_start_issued

controlVars == <<main_state, captured_cmd, captured_addr, captured_read_data_count,
                 axi_transaction_done_prev, axi_start_issued, builder_start_issued>>

MainState == {"MAIN_IDLE", "MAIN_AXI_TRANSACTION", "MAIN_BUILD_RESPONSE", "MAIN_WAIT_RESPONSE"}

ControlInit ==
    /\ main_state = "MAIN_IDLE"
    /\ captured_cmd = 0 /\ captured_addr = [i \in 1..4 |-> 0]
    /\ captured_read_data_count = 0
    /\ axi_transaction_done_prev = FALSE
    /\ axi_start_issued = FALSE /\ builder_start_issued = FALSE

-----------------------------------------------------------------------------
(* The wires the state machine drives. *)

axi_start_transaction == main_state = "MAIN_AXI_TRANSACTION" /\ ~axi_start_issued
build_response == /\ main_state = "MAIN_BUILD_RESPONSE"
                  /\ ~builder_busy /\ ~builder_start_issued
frame_consumed == main_state = "MAIN_WAIT_RESPONSE" /\ response_complete

(* What the builder is asked to send: the parser's error, if it still shows *)
(* one in this cycle, or else the outcome of the AXI transaction.           *)
BuildRequest(axi_status, axi_read_data) ==
    [status |-> IF frame_error THEN error_status ELSE axi_status,
     cmd    |-> captured_cmd,
     addr   |-> captured_addr,
     data   |-> IF ~frame_error /\ IsRead(captured_cmd) /\ axi_status = STATUS_OK
                THEN SubSeq(axi_read_data, 1, captured_read_data_count) ELSE <<>>]

-----------------------------------------------------------------------------
(* One action per state. *)

MainIdle ==
    /\ main_state = "MAIN_IDLE"
    /\ main_state' = IF frame_valid THEN "MAIN_AXI_TRANSACTION"
                     ELSE IF frame_error THEN "MAIN_BUILD_RESPONSE" ELSE "MAIN_IDLE"

MainAxiTransaction(axi_done) ==
    /\ main_state = "MAIN_AXI_TRANSACTION"
    /\ main_state' = IF axi_done THEN "MAIN_BUILD_RESPONSE" ELSE "MAIN_AXI_TRANSACTION"

MainBuildResponse ==
    /\ main_state = "MAIN_BUILD_RESPONSE"
    /\ main_state' = IF builder_busy THEN "MAIN_BUILD_RESPONSE" ELSE "MAIN_WAIT_RESPONSE"

MainWaitResponse ==
    /\ main_state = "MAIN_WAIT_RESPONSE"
    /\ main_state' = IF response_complete THEN "MAIN_IDLE" ELSE "MAIN_WAIT_RESPONSE"

(* A frame or an error on the parser's port is captured in whatever state;  *)
(* the count of bytes read survives for exactly one cycle after axi_done.   *)
Capture(axi_done, axi_status, axi_read_data) ==
    LET shown == frame_valid \/ frame_error
    IN  /\ captured_cmd'  = IF shown THEN cmd_reg ELSE captured_cmd
        /\ captured_addr' = IF shown THEN addr_reg ELSE captured_addr
        /\ captured_read_data_count' =
               IF axi_done /\ ~axi_transaction_done_prev
               THEN IF IsRead(captured_cmd) /\ axi_status = STATUS_OK
                    THEN Len(axi_read_data) ELSE 0
               ELSE IF shown THEN 0 ELSE captured_read_data_count
        /\ axi_transaction_done_prev' = axi_done

ControlSoftReset ==
    /\ main_state' = "MAIN_IDLE"
    /\ captured_cmd' = CMD_RESET /\ captured_addr' = [i \in 1..4 |-> 0]
    /\ captured_read_data_count' = 0 /\ axi_transaction_done_prev' = FALSE

StartPulses ==             \* not touched by a soft reset
    /\ axi_start_issued' = (main_state = "MAIN_AXI_TRANSACTION")
    /\ builder_start_issued' = (main_state = "MAIN_BUILD_RESPONSE")

ControlClock(axi_done, axi_status, axi_read_data) ==
    /\ \/ soft_reset /\ ControlSoftReset
       \/ /\ ~soft_reset
          /\ MainIdle \/ MainAxiTransaction(axi_done) \/ MainBuildResponse \/ MainWaitResponse
          /\ Capture(axi_done, axi_status, axi_read_data)
    /\ StartPulses

ControlTypeOK ==
    /\ main_state \in MainState
    /\ captured_cmd \in Byte /\ captured_addr \in [1..4 -> Byte]
    /\ captured_read_data_count \in 0..64
    /\ axi_transaction_done_prev \in BOOLEAN
    /\ axi_start_issued \in BOOLEAN /\ builder_start_issued \in BOOLEAN
=============================================================================
