----------------------------- MODULE RequestPath -----------------------------
(***************************************************************************)
(* Parser, control state machine and builder of Uart_Axi4_Bridge.sv wired  *)
(* together, between an open byte source (the RX FIFO), an AXI master that *)
(* answers after any delay with any status, and a TX FIFO that may be full *)
(* in any cycle.  One step is one clock edge.                              *)
(***************************************************************************)
EXTENDS BridgeControl, AxiPort, SequencesExt

CONSTANTS IdleBytes, CmdBytes, AddrBytes, DataBytes,  \* what the line may offer, by field
          LateBytes,       \* may a byte land in the very cycle timeout_occurred is up?
          CutResets        \* may a RESET frame lose its CRC byte?

ASSUME OfferedAreBytes ==
    /\ IdleBytes \subseteq Byte /\ CmdBytes \subseteq Byte
    /\ AddrBytes \in [1..4 -> SUBSET Byte] /\ DataBytes \subseteq Byte
    /\ LateBytes \in BOOLEAN /\ CutResets \in BOOLEAN

VARIABLES taken,           \* history: bytes of the frame since its marker
          result,          \* history: outcome of the frame being answered
          emitted          \* history: bytes of the reply under way

vars == <<parserVars, builderVars, controlVars, axiVars, taken, result, emitted>>

NoResult == [status |-> STATUS_OK, data |-> <<>>]

Service == INSTANCE FrameService WITH
    phase   <- IF soft_reset THEN "listening"
               ELSE CASE main_state = "MAIN_IDLE" -> "listening"
                      [] main_state = "MAIN_AXI_TRANSACTION" -> "executing"
                      [] OTHER -> "answering",
    job     <- IF main_state = "MAIN_IDLE" \/ soft_reset THEN <<>> ELSE taken,
    outcome <- IF main_state = "MAIN_IDLE" \/ soft_reset THEN NoResult ELSE result,
    reply   <- IF bstate = "BGAP" THEN emitted ELSE <<>>

-----------------------------------------------------------------------------
(* The byte source: in each state, a byte that state tells apart, or none.  *)

Offered ==
    CASE pstate = "IDLE"    -> IdleBytes
      [] pstate = "CMD"     -> CmdBytes
      [] pstate = "DATA_RX" -> DataBytes
      [] pstate = "CRC_RX"  -> {crc_reg, (crc_reg + 1) % 256}
      [] pstate \in {AddrState[i] : i \in 1..4} ->
             AddrBytes[CHOOSE i \in 1..4 : pstate = AddrState[i]]
      [] OTHER              -> {}      \* the FIFO is not read

Line == {rx \in Offered \cup {NoByte} :
           /\ LateBytes \/ ~timeout_occurred \/ rx = NoByte
           /\ \/ CutResets \/ rx # NoByte
              \/ ~(pstate = "CRC_RX" /\ current_cmd = CMD_RESET
                   /\ timeout_counter >= TimeoutLimit)}

Histories(rx, full) ==
    /\ taken' = IF pstate = "IDLE" THEN <<>>
                ELSE IF Pops(rx) THEN Append(taken, rx) ELSE taken
    /\ result' = IF axi_done
                 THEN [status |-> axi_status, data |-> IF axi_status = STATUS_OK THEN axi_read_data ELSE <<>>]
                 ELSE IF main_state # "MAIN_IDLE" THEN result
                 ELSE IF frame_error /\ ~frame_valid
                 THEN [status |-> Service!Refusal(taken'), data |-> <<>>]
                 ELSE NoResult
    /\ emitted' = IF bstate = "BIDLE" THEN <<>>
                  ELSE IF Sends(full) THEN Append(emitted, ByteToSend) ELSE emitted

Clock(rx, full) ==
    /\ ParserClock(rx, frame_consumed)
    /\ ControlClock(axi_done, axi_status, axi_read_data)
    /\ BuilderClock(full, build_response, BuildRequest(axi_status, axi_read_data), soft_reset)
    /\ Histories(rx, full)

Busy(rx, full) ==
    /\ Clock(rx, full)
    /\ AxiStart(axi_start_transaction, captured_cmd) \/ AxiIdle(axi_start_transaction)
Answered(rx, full) == Clock(rx, full) /\ AxiFinish

Init == /\ ParserInit /\ BuilderInit /\ ControlInit /\ AxiInit
        /\ taken = <<>> /\ emitted = <<>> /\ result = NoResult

Next == \/ \E rx \in Line, full \in BOOLEAN : Busy(rx, full)
        \/ \E rx \in Line, full \in BOOLEAN : Answered(rx, full)

Spec == Init /\ [][Next]_vars

(* The clock runs, the AXI master gives up by itself if its slave is mute,  *)
(* and the UART transmitter keeps draining the TX FIFO.                     *)
Fairness == /\ WF_vars(\E rx \in Line : Busy(rx, FALSE) \/ Answered(rx, FALSE))
            /\ WF_vars(\E rx \in Line, full \in BOOLEAN : Answered(rx, full))
FairSpec == Spec /\ Fairness

-----------------------------------------------------------------------------
(* Every register and port keeps its width; the builder never indexes past  *)
(* the last response byte it was given.                                     *)
BridgeTypeOK ==
    /\ ParserTypeOK /\ BuilderTypeOK /\ ControlTypeOK
    /\ axi_busy \in BOOLEAN /\ axi_done \in BOOLEAN /\ axi_status \in Status /\ axi_cmd \in Byte

(* While the AXI master works, the command, address and write data on its   *)
(* ports are those of one whole frame that arrived with a matching CRC, and *)
(* they do not change under it: parser registers feed them combinationally. *)
AxiSeesTheFrame ==
    main_state = "MAIN_AXI_TRANSACTION" =>
        /\ Service!LegalFrame(taken)
        /\ captured_cmd = taken[1]
        /\ captured_addr = SubSeq(taken, 2, 5)
        /\ ~IsRead(captured_cmd) => data_reg = SubSeq(taken, 6, Len(taken) - 1)

(* The parser takes no byte of the next frame before the present one is     *)
(* answered: it waits in VALIDATE or ERROR for frame_consumed, unless a     *)
(* RESET frame has just been recognised.                                    *)
ParserHeldWhileServing ==
    main_state # "MAIN_IDLE" => pstate \in {"VALIDATE", "ERROR"} \/ soft_reset

(* The control state machine asks the builder once per frame and does not   *)
(* look whether the request was taken: it must never find it busy, or its   *)
(* one build_response pulse and the count of bytes read would be lost.      *)
BuilderFreeWhenAsked ==
    main_state = "MAIN_BUILD_RESPONSE" => ~builder_busy /\ ~builder_start_issued

(* A soft reset resets parser, control and builder but not the AXI master:  *)
(* it may only come when no transaction runs and no response is being built.*)
ResetCutsNothing ==
    soft_reset => /\ ~axi_busy /\ ~axi_done /\ ~builder_busy
                  /\ main_state \in {"MAIN_IDLE", "MAIN_BUILD_RESPONSE"}

(* The parser never offers a frame as valid and as erroneous in one cycle,  *)
(* and a valid one is offered until the control state machine is done.      *)
OneVerdict ==
    /\ ~(frame_valid /\ frame_error)
    /\ main_state = "MAIN_AXI_TRANSACTION" => frame_valid

(* The bridge implements the clock-free service: every frame is executed or *)
(* refused, and answered exactly once, with its true outcome.               *)
FrameServiceImplemented == Service!ServiceSpec

(* Uart_Axi4_Bridge asserts that the parser leaves the busy state: whatever *)
(* the line sends or stops sending, a frame begun is a frame finished.      *)
ParserEventuallyIdle == parser_busy ~> ~parser_busy

(* README: a frame given up on a timeout is aborted and the parser hunts    *)
(* for the next marker.                                                     *)
TimeoutRecovers == (pstate = "ERROR") ~> (pstate = "IDLE")
=============================================================================
