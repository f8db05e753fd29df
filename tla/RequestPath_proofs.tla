------------------------- MODULE RequestPath_proofs -------------------------
(***************************************************************************)
(* For every timeout, every CRC function and every set of bytes the line   *)
(* and the AXI master may offer, the handshakes between parser, control    *)
(* and builder hold, provided no byte lands in the one cycle in which      *)
(* timeout_occurred is up (LateBytes = FALSE); every register keeps its    *)
(* width; and the bridge implements FrameService.                          *)
(***************************************************************************)
EXTENDS RequestPath, FrameBuilder_proofs, TLAPS

Quiet == WaitingState \cup {"IDLE"}       \* parser states with nothing to answer

(* Where the parser's own registers may stand. *)
ParserPlace ==
    /\ pstate \in ParserState
    /\ soft_reset <=> pstate = "POSTVTC"
    /\ soft_reset_reg => soft_reset
    /\ timeout_occurred => pstate \in WaitingState \cup {"ERROR"}
    /\ frame_consumed_reg => pstate = "IDLE"
    /\ frame_valid_hold => /\ pstate = "VALIDATE" /\ error_status = STATUS_OK
                           /\ current_cmd # CMD_RESET /\ CmdValid(current_cmd)
                           /\ received_crc = crc_reg

(* Where the control state machine may stand, given the parser. *)
ControlPlace ==
    /\ main_state \in MainState
    /\ pstate \in Quiet => main_state = "MAIN_IDLE"
    /\ pstate = "ERROR" => main_state \in {"MAIN_BUILD_RESPONSE", "MAIN_WAIT_RESPONSE"}
    /\ pstate = "VALIDATE" /\ current_cmd = CMD_RESET => main_state = "MAIN_IDLE"
    /\ pstate = "POSTVTC" => main_state \in {"MAIN_IDLE", "MAIN_BUILD_RESPONSE"}
    /\ main_state = "MAIN_AXI_TRANSACTION" => frame_valid_hold
    /\ builder_start_issued => main_state = "MAIN_WAIT_RESPONSE" \/ pstate = "IDLE"

(* A response is under way only while the control state machine waits for   *)
(* it; its last state overlaps the first cycle of the next hunt.            *)
BuilderPlace ==
    bstate # "BIDLE" => main_state = "MAIN_WAIT_RESPONSE" \/ (bstate = "BGAP" /\ pstate = "IDLE")

(* The AXI master works, or reports, only while it is waited for. *)
AxiPlace ==
    /\ axi_busy => main_state = "MAIN_AXI_TRANSACTION" /\ axi_start_issued /\ ~axi_done
    /\ axi_done => main_state = "MAIN_AXI_TRANSACTION" /\ axi_start_issued

Handshake == ParserPlace /\ ControlPlace /\ BuilderPlace /\ AxiPlace

-----------------------------------------------------------------------------
(* Reset establishes the handshake invariant. *)
LEMMA HandshakeInit == Init => Handshake
  BY DEF Init, ParserInit, BuilderInit, ControlInit, AxiInit, Handshake, ParserPlace, ControlPlace,
     BuilderPlace, AxiPlace, ParserState, WaitingState, MainState, Quiet

(* What the prover must know of one step: each block moves, and the byte    *)
(* offered respects the environment's promise.                              *)
AxiMoves == \/ AxiStart(axi_start_transaction, captured_cmd)
            \/ AxiIdle(axi_start_transaction)
            \/ AxiFinish

Step(rx, full) ==
    /\ ParserClock(rx, frame_consumed)
    /\ ControlClock(axi_done, axi_status, axi_read_data)
    /\ BuilderClock(full, build_response, BuildRequest(axi_status, axi_read_data), soft_reset)
    /\ AxiMoves
    /\ timeout_occurred => rx = NoByte

LEMMA NextIsStep ==
    ASSUME ~LateBytes, Next
    PROVE  \E rx, full : Step(rx, full)
  BY DEF Next, Busy, Answered, Clock, Step, Line, AxiMoves

(* Where each parser state leads. *)
LEMMA ParserMoves ==
    ASSUME Handshake, NEW rx, NEW full, Step(rx, full)
    PROVE  /\ pstate \in WaitingState =>
                 /\ pstate' \in WaitingState \cup {"VALIDATE", "ERROR"}
                 /\ pstate' = "ERROR" <=> timeout_occurred
                 /\ rx = NoByte => pstate' # "VALIDATE"
           /\ pstate = "IDLE" => pstate' \in {"IDLE", "CMD"}
           /\ pstate = "VALIDATE" =>
                 /\ pstate' = IF current_cmd = CMD_RESET THEN "POSTVTC"
                              ELSE IF frame_consumed THEN "IDLE" ELSE "VALIDATE"
                 /\ current_cmd' = current_cmd /\ received_crc' = received_crc
                 /\ crc_reg' = crc_reg
           /\ pstate = "ERROR" => pstate' = IF frame_consumed THEN "IDLE" ELSE "ERROR"
           /\ pstate = "POSTVTC" => pstate' = "IDLE"
  <1>1. ParserFsm(rx, frame_consumed) /\ (timeout_occurred => rx = NoByte)
    BY DEF Step, ParserClock
  <1>2. soft_reset <=> pstate = "POSTVTC"
    BY DEF Handshake, ParserPlace
  <1>3. CASE pstate \in WaitingState
    <2>1. CASE rx # NoByte
      BY <1>1, <1>2, <1>3, <2>1
      DEF ParserFsm, HuntSof, TakeCmd, TakeAddr, TakeData, TakeCrc, AwaitByte, Validate, LeaveError,
         PostReset, WaitingState, AddrState
    <2>2. CASE rx = NoByte
      <3>1. pstate' = IF timeout_occurred THEN "ERROR" ELSE pstate
        BY <1>1, <1>2, <1>3, <2>2
        DEF ParserFsm, HuntSof, TakeCmd, TakeAddr, TakeData, TakeCrc, AwaitByte, Validate,
           LeaveError, PostReset, WaitingState, AddrState
      <3> QED BY <1>3, <2>2, <3>1 DEF WaitingState, AddrState
    <2> QED BY <2>1, <2>2
  <1>4. CASE pstate \in {"IDLE", "VALIDATE", "ERROR"}
    BY <1>1, <1>2, <1>4
    DEF ParserFsm, HuntSof, TakeCmd, TakeAddr, TakeData, TakeCrc, AwaitByte, Validate, LeaveError,
       PostReset, WaitingState, AddrState
  <1>5. CASE pstate = "POSTVTC"
    BY <1>1, <1>2, <1>5 DEF ParserFsm, SoftResetFsm, WaitingState, AddrState
  <1> QED BY <1>3, <1>4, <1>5 DEF Handshake, ParserPlace, ParserState

(* The parser's part of the step. *)
LEMMA ParserStep ==
    ASSUME Handshake, NEW rx, NEW full, Step(rx, full)
    PROVE  ParserPlace'
  <1>1. ParserPlace /\ ControlPlace
    BY DEF Handshake
  <1>2. /\ ParserFsm(rx, frame_consumed) /\ ErrorStatus(rx) /\ TimeoutMonitor(rx)
        /\ FrameValidHold(frame_consumed) /\ ConsumedLatch(frame_consumed) /\ SoftResetPulse
        /\ timeout_occurred => rx = NoByte
    BY DEF Step, ParserClock
  <1>3. CASE pstate \in WaitingState
    <2>1. ~soft_reset /\ ~frame_valid_hold /\ ~frame_consumed_reg /\ ~soft_reset_reg
      BY <1>1, <1>3 DEF ParserPlace, WaitingState, AddrState
    <2>2. ~frame_consumed
      BY <1>1, <1>3 DEF ControlPlace, Quiet, frame_consumed
    <2>3. pstate' \in WaitingState \cup {"VALIDATE", "ERROR"}
      BY <1>3, ParserMoves
    <2>4. timeout_occurred' => pstate' # "VALIDATE"
      <3>1. rx # NoByte => ~timeout_occurred'
        BY <1>2 DEF TimeoutMonitor
      <3>2. rx = NoByte => pstate' # "VALIDATE"
        BY <1>3, ParserMoves
      <3> QED BY <3>1, <3>2
    <2>5. ~frame_valid_hold' /\ ~frame_consumed_reg' /\ ~soft_reset' /\ ~soft_reset_reg'
      <3>1. pstate # "VALIDATE"
        BY <1>3 DEF WaitingState, AddrState
      <3>2. ~frame_valid_hold'
        BY <1>2, <2>1, <3>1 DEF FrameValidHold
      <3>3. ~frame_consumed_reg'
        BY <1>2, <2>1, <2>2 DEF ConsumedLatch
      <3>4. ~soft_reset' /\ ~soft_reset_reg'
        BY <1>2, <3>1 DEF SoftResetPulse
      <3> QED BY <3>2, <3>3, <3>4
    <2> QED BY <2>3, <2>4, <2>5 DEF ParserPlace, ParserState, WaitingState, AddrState
  <1>4. CASE pstate = "IDLE"
    <2>1. ~soft_reset /\ ~timeout_occurred /\ ~soft_reset_reg /\ ~frame_consumed
      BY <1>1, <1>4 DEF ParserPlace, ControlPlace, WaitingState, AddrState, Quiet, frame_consumed
    <2>2. pstate' \in {"IDLE", "CMD"}
      BY <1>4, ParserMoves
    <2>3. ~timeout_occurred' /\ ~frame_valid_hold'
      BY <1>2, <1>4 DEF TimeoutMonitor, FrameValidHold, WaitingState, AddrState
    <2>4. ~soft_reset' /\ ~soft_reset_reg'
      BY <1>2, <1>4 DEF SoftResetPulse
    <2>5. ~frame_consumed_reg'
      BY <1>2, <1>4, <2>1 DEF ConsumedLatch
    <2> QED BY <2>2, <2>3, <2>4, <2>5 DEF ParserPlace, ParserState, WaitingState, AddrState
  <1>5. CASE pstate = "VALIDATE"
    <2>1. ~soft_reset /\ ~soft_reset_reg /\ ~timeout_occurred /\ ~frame_consumed_reg
      BY <1>1, <1>5 DEF ParserPlace, WaitingState, AddrState
    <2>2. ~timeout_occurred'
      BY <1>2, <1>5 DEF TimeoutMonitor, WaitingState, AddrState
    <2>3. frame_consumed => current_cmd # CMD_RESET
      BY <1>1, <1>5 DEF ControlPlace, frame_consumed
    <2>4. /\ current_cmd' = current_cmd /\ received_crc' = received_crc /\ crc_reg' = crc_reg
          /\ pstate' = IF current_cmd = CMD_RESET THEN "POSTVTC"
                       ELSE IF frame_consumed THEN "IDLE" ELSE "VALIDATE"
      BY <1>5, ParserMoves
    <2>5. frame_valid_hold' => /\ ~frame_consumed /\ current_cmd # CMD_RESET
                               /\ CmdValid(current_cmd) /\ received_crc = crc_reg
      BY <1>2, <1>5 DEF FrameValidHold
    <2>6. frame_valid_hold' => error_status' = STATUS_OK
      BY <1>2, <1>5, <2>1, <2>5 DEF ErrorStatus
    <2>7. soft_reset' <=> current_cmd = CMD_RESET
      BY <1>2, <1>5, <2>1 DEF SoftResetPulse
    <2>8. soft_reset_reg' <=> current_cmd = CMD_RESET
      BY <1>2, <1>5, <2>1 DEF SoftResetPulse
    <2>9. frame_consumed_reg' => frame_consumed
      BY <1>2, <2>1 DEF ConsumedLatch
    <2>10. pstate' \in {"POSTVTC", "IDLE", "VALIDATE"}
      BY <2>4
    <2>11. CmdValid(current_cmd)' = CmdValid(current_cmd)
      BY <2>4 DEF CmdValid, SizeField
    <2> QED BY <2>2, <2>3, <2>4, <2>5, <2>6, <2>7, <2>8, <2>9, <2>10, <2>11
            DEF ParserPlace, ParserState
  <1>6. CASE pstate = "ERROR"
    <2>1. ~soft_reset /\ ~soft_reset_reg /\ ~frame_consumed_reg /\ ~frame_valid_hold
      BY <1>1, <1>6 DEF ParserPlace
    <2>2. pstate' = IF frame_consumed THEN "IDLE" ELSE "ERROR"
      BY <1>6, ParserMoves
    <2>3. ~timeout_occurred'
      BY <1>2, <1>6 DEF TimeoutMonitor, WaitingState, AddrState
    <2>4. ~frame_valid_hold' /\ ~soft_reset' /\ ~soft_reset_reg'
          /\ (frame_consumed_reg' => frame_consumed)
      BY <1>2, <1>6, <2>1 DEF FrameValidHold, ConsumedLatch, SoftResetPulse
    <2> QED BY <2>2, <2>3, <2>4 DEF ParserPlace, ParserState
  <1>7. CASE pstate = "POSTVTC"
    <2>1. soft_reset /\ ~frame_valid_hold /\ ~frame_consumed_reg /\ ~timeout_occurred
      BY <1>1, <1>7 DEF ParserPlace, WaitingState, AddrState
    <2>2. pstate' = "IDLE"
      BY <1>7, ParserMoves
    <2>3. ~timeout_occurred' /\ ~frame_valid_hold'
      BY <1>2, <1>7 DEF TimeoutMonitor, FrameValidHold, WaitingState, AddrState
    <2>4. ~soft_reset' /\ ~soft_reset_reg'
      BY <1>2, <1>7 DEF SoftResetPulse
    <2> QED BY <2>2, <2>3, <2>4 DEF ParserPlace, ParserState
  <1> QED BY <1>1, <1>3, <1>4, <1>5, <1>6, <1>7 DEF ParserPlace, ParserState

(* The control state machine's part of the step. *)
LEMMA ControlStep ==
    ASSUME Handshake, NEW rx, NEW full, Step(rx, full)
    PROVE  ControlPlace'
  <1>1. ParserPlace /\ ControlPlace /\ BuilderPlace
    BY DEF Handshake
  <1>2. builder_start_issued' <=> main_state = "MAIN_BUILD_RESPONSE"
    BY DEF Step, ControlClock, StartPulses
  <1>3. ~soft_reset => MainIdle \/ MainAxiTransaction(axi_done) \/ MainBuildResponse
                       \/ MainWaitResponse
    BY DEF Step, ControlClock
  <1>4. CASE pstate \in Quiet
    <2>1. /\ main_state = "MAIN_IDLE" /\ ~soft_reset /\ ~frame_valid
          /\ frame_error <=> timeout_occurred
      BY <1>1, <1>4 DEF ParserPlace, ControlPlace, Quiet, WaitingState, AddrState, frame_valid,
         frame_error
    <2>2. main_state' = IF timeout_occurred THEN "MAIN_BUILD_RESPONSE" ELSE "MAIN_IDLE"
      BY <1>3, <2>1 DEF MainIdle, MainAxiTransaction, MainBuildResponse, MainWaitResponse
    <2>3. IF timeout_occurred THEN pstate' = "ERROR" ELSE pstate' \in Quiet \cup {"VALIDATE"}
      BY <1>1, <1>4, ParserMoves DEF ParserPlace, Quiet, WaitingState, AddrState
    <2>4. ~builder_start_issued'
      BY <1>2, <2>1
    <2> QED BY <2>2, <2>3, <2>4 DEF ControlPlace, MainState, Quiet, WaitingState, AddrState
  <1>5. CASE pstate = "VALIDATE" /\ current_cmd = CMD_RESET
    <2>1. main_state = "MAIN_IDLE" /\ ~soft_reset /\ ~frame_valid /\ ~builder_start_issued'
      BY <1>1, <1>2, <1>5 DEF ParserPlace, ControlPlace, frame_valid
    <2>2. main_state' \in {"MAIN_IDLE", "MAIN_BUILD_RESPONSE"}
      BY <1>3, <2>1 DEF MainIdle, MainAxiTransaction, MainBuildResponse, MainWaitResponse
    <2>3. pstate' = "POSTVTC"
      BY <1>5, ParserMoves
    <2> QED BY <2>1, <2>2, <2>3 DEF ControlPlace, MainState, Quiet, WaitingState, AddrState
  <1>6. CASE pstate = "VALIDATE" /\ current_cmd # CMD_RESET
    <2>1. ~soft_reset /\ (builder_busy => main_state = "MAIN_WAIT_RESPONSE")
      BY <1>1, <1>6 DEF ParserPlace, BuilderPlace, builder_busy
    <2>2. pstate' = IF frame_consumed THEN "IDLE" ELSE "VALIDATE"
      BY <1>6, ParserMoves
    <2>3. current_cmd' # CMD_RESET
      BY <1>6, ParserMoves
    <2>4. frame_consumed => main_state' = "MAIN_IDLE"
      BY <1>3, <2>1 DEF frame_consumed, MainIdle, MainAxiTransaction, MainBuildResponse,
         MainWaitResponse
    <2>5. main_state' = "MAIN_AXI_TRANSACTION" => frame_valid_hold /\ ~frame_consumed
      BY <1>1, <1>3, <2>1 DEF ControlPlace, frame_valid, frame_consumed, MainIdle,
         MainAxiTransaction, MainBuildResponse, MainWaitResponse
    <2>6. frame_valid_hold /\ ~frame_consumed => frame_valid_hold'
      <3>1. FrameValidHold(frame_consumed)
        BY DEF Step, ParserClock
      <3> QED BY <1>1, <1>6, <3>1 DEF FrameValidHold, ParserPlace
    <2>7. builder_start_issued' => main_state' = "MAIN_WAIT_RESPONSE"
      BY <1>2, <1>3, <2>1 DEF MainIdle, MainAxiTransaction, MainBuildResponse, MainWaitResponse
    <2>8. main_state' \in MainState
      BY <1>3, <2>1 DEF MainIdle, MainAxiTransaction, MainBuildResponse, MainWaitResponse,
         MainState
    <2> QED BY <2>2, <2>3, <2>4, <2>5, <2>6, <2>7, <2>8
            DEF ControlPlace, Quiet, WaitingState, AddrState
  <1>7. CASE pstate = "ERROR"
    <2>1. /\ ~soft_reset /\ main_state \in {"MAIN_BUILD_RESPONSE", "MAIN_WAIT_RESPONSE"}
          /\ main_state = "MAIN_BUILD_RESPONSE" => ~builder_busy
      BY <1>1, <1>7 DEF ParserPlace, ControlPlace, BuilderPlace, builder_busy
    <2>2. main_state' = IF frame_consumed THEN "MAIN_IDLE" ELSE "MAIN_WAIT_RESPONSE"
      BY <1>3, <2>1 DEF frame_consumed, MainIdle, MainAxiTransaction, MainBuildResponse,
         MainWaitResponse
    <2>3. pstate' = IF frame_consumed THEN "IDLE" ELSE "ERROR"
      BY <1>7, ParserMoves
    <2> QED BY <2>2, <2>3 DEF ControlPlace, MainState, Quiet, WaitingState, AddrState
  <1>8. CASE pstate = "POSTVTC"
    <2>1. main_state' = "MAIN_IDLE"
      BY <1>1, <1>8 DEF Step, ControlClock, ControlSoftReset, ParserPlace
    <2>2. pstate' = "IDLE"
      BY <1>8, ParserMoves
    <2> QED BY <2>1, <2>2 DEF ControlPlace, MainState
  <1> QED BY <1>1, <1>4, <1>5, <1>6, <1>7, <1>8 DEF ParserPlace, ParserState, Quiet

(* The builder's part of the step. *)
LEMMA BuilderStep ==
    ASSUME Handshake, NEW rx, NEW full, Step(rx, full)
    PROVE  BuilderPlace'
  <1>1. ParserPlace /\ ControlPlace /\ BuilderPlace
    BY DEF Handshake
  <1>2. /\ soft_reset => BuilderSoftReset
        /\ ~soft_reset => \/ StartResponse(build_response, BuildRequest(axi_status, axi_read_data))
                          \/ SendByte(full, build_response)
                          \/ Rest(full, build_response)
    BY DEF Step, BuilderClock, BuilderFsm
  <1>3. ~soft_reset => MainIdle \/ MainAxiTransaction(axi_done) \/ MainBuildResponse
                       \/ MainWaitResponse
    BY DEF Step, ControlClock
  <1>4. CASE soft_reset
    BY <1>2, <1>4 DEF BuilderSoftReset, BuilderPlace
  <1>5. CASE ~soft_reset /\ bstate = "BIDLE"
    <2>1. bstate' # "BIDLE" => build_response
      BY <1>2, <1>5 DEF StartResponse, SendByte, Rest, Sends, SendState, BAddrState, BuildEdge
    <2>2. build_response => main_state' = "MAIN_WAIT_RESPONSE"
      BY <1>3, <1>5 DEF build_response, MainIdle, MainAxiTransaction, MainBuildResponse,
         MainWaitResponse
    <2> QED BY <2>1, <2>2 DEF BuilderPlace
  <1>6. CASE ~soft_reset /\ bstate = "BDONE"
    <2>1. frame_consumed /\ main_state = "MAIN_WAIT_RESPONSE"
      BY <1>1, <1>6 DEF BuilderPlace, frame_consumed, response_complete
    <2>2. pstate \in {"VALIDATE", "ERROR"} /\ (pstate = "VALIDATE" => current_cmd # CMD_RESET)
      BY <1>1, <2>1 DEF ParserPlace, ControlPlace, ParserState, Quiet
    <2>3. pstate' = "IDLE"
      BY <2>1, <2>2, ParserMoves
    <2>4. bstate' = "BGAP"
      BY <1>2, <1>6 DEF StartResponse, SendByte, Rest, Sends, SendState, BAddrState
    <2> QED BY <2>3, <2>4 DEF BuilderPlace
  <1>7. CASE ~soft_reset /\ bstate = "BGAP"
    <2>1. bstate' = "BIDLE"
      BY <1>2, <1>7 DEF StartResponse, SendByte, Rest, Sends, SendState, BAddrState
    <2> QED BY <2>1 DEF BuilderPlace
  <1>8. CASE ~soft_reset /\ bstate \notin {"BIDLE", "BDONE", "BGAP"}
    <2>1. main_state = "MAIN_WAIT_RESPONSE" /\ ~response_complete
      BY <1>1, <1>8 DEF BuilderPlace, response_complete
    <2>2. main_state' = "MAIN_WAIT_RESPONSE"
      BY <1>3, <1>8, <2>1 DEF MainIdle, MainAxiTransaction, MainBuildResponse, MainWaitResponse
    <2> QED BY <2>2 DEF BuilderPlace
  <1> QED BY <1>4, <1>5, <1>6, <1>7, <1>8

(* The AXI port's part of the step. *)
LEMMA AxiStep ==
    ASSUME Handshake, NEW rx, NEW full, Step(rx, full)
    PROVE  AxiPlace'
  <1>1. ParserPlace /\ ControlPlace /\ AxiPlace
    BY DEF Handshake
  <1>2. AxiMoves
    BY DEF Step
  <1>3. axi_start_issued' <=> main_state = "MAIN_AXI_TRANSACTION"
    BY DEF Step, ControlClock, StartPulses
  <1>4. main_state = "MAIN_AXI_TRANSACTION" /\ ~axi_done => main_state' = "MAIN_AXI_TRANSACTION"
    <2>1. main_state = "MAIN_AXI_TRANSACTION" => ~soft_reset
      BY <1>1 DEF ParserPlace, ControlPlace
    <2> QED BY <2>1 DEF Step, ControlClock, MainIdle, MainAxiTransaction, MainBuildResponse,
               MainWaitResponse
  <1>5. CASE AxiStart(axi_start_transaction, captured_cmd)
    BY <1>1, <1>3, <1>4, <1>5 DEF AxiStart, AxiPlace, axi_start_transaction
  <1>6. CASE AxiFinish
    BY <1>1, <1>3, <1>4, <1>6 DEF AxiFinish, AxiPlace
  <1>7. CASE AxiIdle(axi_start_transaction)
    BY <1>1, <1>3, <1>4, <1>7 DEF AxiIdle, AxiPlace
  <1> QED BY <1>2, <1>5, <1>6, <1>7 DEF AxiMoves

(* The handshake invariant is inductive. *)
LEMMA HandshakeStep == ~LateBytes /\ Handshake /\ [Next]_vars => Handshake'
  <1> SUFFICES ASSUME ~LateBytes, Handshake, [Next]_vars PROVE Handshake'
    OBVIOUS
  <1>1. CASE Next
    <2>1. PICK rx, full : Step(rx, full)
      BY <1>1, NextIsStep
    <2>2. ParserPlace' /\ ControlPlace'
      BY <2>1, ParserStep, ControlStep
    <2>3. BuilderPlace' /\ AxiPlace'
      BY <2>1, BuilderStep, AxiStep
    <2> QED BY <2>2, <2>3 DEF Handshake
  <1>2. CASE UNCHANGED vars
    BY <1>2 DEF vars, parserVars, fsmVars, builderVars, requestRegs, controlVars, axiVars,
       Handshake, ParserPlace, ControlPlace, BuilderPlace, AxiPlace, CmdValid, SizeField
  <1> QED BY <1>1, <1>2

(* The handshake invariant holds in every reachable state. *)
THEOREM HandshakeHolds == ASSUME ~LateBytes PROVE Spec => []Handshake
  <1>1. Init => Handshake
    BY HandshakeInit
  <1>2. Handshake /\ [Next]_vars => Handshake'
    BY HandshakeStep
  <1> QED BY <1>1, <1>2, PTL DEF Spec

(* Uart_Axi4_Bridge: while a frame is served the parser takes no byte of    *)
(* the next one.                                                            *)
THEOREM ParserIsHeld == ASSUME ~LateBytes PROVE Spec => []ParserHeldWhileServing
  <1>1. Handshake => ParserHeldWhileServing
    BY DEF Handshake, ParserPlace, ControlPlace, ParserHeldWhileServing, ParserState, Quiet
  <1> QED BY <1>1, HandshakeHolds, PTL

(* Uart_Axi4_Bridge: the one build_response pulse of a frame finds the      *)
(* builder idle, so it is never lost.                                       *)
THEOREM BuildPulseIsNeverLost == ASSUME ~LateBytes PROVE Spec => []BuilderFreeWhenAsked
  <1>1. Handshake => BuilderFreeWhenAsked
    BY DEF Handshake, ControlPlace, BuilderPlace, BuilderFreeWhenAsked, builder_busy, Quiet
  <1> QED BY <1>1, HandshakeHolds, PTL

(* Uart_Axi4_Bridge: a soft reset never meets a running AXI transaction or  *)
(* a response under construction.                                           *)
THEOREM SoftResetIsClean == ASSUME ~LateBytes PROVE Spec => []ResetCutsNothing
  <1>1. Handshake => ResetCutsNothing
    BY DEF Handshake, ParserPlace, ControlPlace, BuilderPlace, AxiPlace, ResetCutsNothing,
       builder_busy, MainState
  <1> QED BY <1>1, HandshakeHolds, PTL

(* Frame_Parser: a frame is never offered as valid and erroneous at once.   *)
THEOREM VerdictIsSingle == ASSUME ~LateBytes PROVE Spec => []OneVerdict
  <1>1. Handshake => OneVerdict
    BY DEF Handshake, ParserPlace, ControlPlace, OneVerdict, frame_valid, frame_error,
       WaitingState, AddrState
  <1> QED BY <1>1, HandshakeHolds, PTL
------------------------------------------------------------------------------
(* Type correctness: every register and port of the bridge keeps its width,  *)
(* and the builder never indexes past the bytes it was given.  The last part *)
(* is not local to the builder: the count of bytes read is kept by the       *)
(* control state machine for one cycle only, and must still agree with the   *)
(* AXI master's buffer in the cycle it is used.                              *)
(* A count of bytes read is only kept for the cycle that builds the reply.  *)
ReadCount ==
    captured_read_data_count # 0 =>
        /\ main_state = "MAIN_BUILD_RESPONSE" /\ frame_valid_hold
        /\ captured_read_data_count = Len(axi_read_data)

AxiTypeOK == /\ axi_busy \in BOOLEAN /\ axi_done \in BOOLEAN /\ axi_status \in Status
             /\ axi_cmd \in Byte
             /\ axi_read_data \in Seq(Byte) /\ Len(axi_read_data) <= 64

Types == ParserTypeOK /\ BuilderTypeOK /\ IndexAtStart /\ ControlTypeOK /\ AxiTypeOK /\ ReadCount

-----------------------------------------------------------------------------
(* A command announces, and reads, at most sixteen beats of four bytes.     *)
LEMMA PayloadFits ==
    ASSUME NEW cmd \in Byte
    PROVE  /\ PayloadBytes(cmd) \in 0..64
           /\ BytesAsked(cmd) \in 0..64
  <1>1. LenField(cmd) \in 0..15
    BY DEF LenField, Byte
  <1>2. BeatSize(cmd) \in {0, 1, 2, 4}
    BY DEF BeatSize
  <1>3. (LenField(cmd) + 1) * BeatSize(cmd) \in 0..64
    <2>1. CASE BeatSize(cmd) = 0
      BY <1>1, <2>1
    <2>2. CASE BeatSize(cmd) = 1
      BY <1>1, <2>2
    <2>3. CASE BeatSize(cmd) = 2
      BY <1>1, <2>3
    <2>4. CASE BeatSize(cmd) = 4
      BY <1>1, <2>4
    <2> QED BY <1>2, <2>1, <2>2, <2>3, <2>4
  <1> QED BY <1>3 DEF PayloadBytes, BytesAsked

(* What the line offers is a byte, or nothing. *)
LEMMA LineOffersBytes ==
    ASSUME ParserTypeOK, NEW rx \in Line
    PROVE  rx \in Byte \cup {NoByte}
  <1>1. CASE pstate \in {AddrState[i] : i \in 1..4}
    <2> DEFINE here == CHOOSE i \in 1..4 : pstate = AddrState[i]
    <2>1. here \in 1..4
      BY <1>1
    <2>2. Offered = AddrBytes[here]
      BY <1>1 DEF Offered, AddrState
    <2> HIDE DEF here
    <2>3. AddrBytes[here] \subseteq Byte
      BY <2>1, OfferedAreBytes
    <2> QED BY <2>2, <2>3 DEF Line
  <1>2. CASE pstate \notin {AddrState[i] : i \in 1..4}
    <2>1. crc_reg \in Byte /\ (crc_reg + 1) % 256 \in Byte
      BY DEF ParserTypeOK, Byte
    <2>2. Offered \subseteq Byte
      BY <1>2, <2>1, OfferedAreBytes DEF Offered
    <2> QED BY <2>2 DEF Line
  <1> QED BY <1>1, <1>2

(* The parser's registers keep their widths. *)
LEMMA ParserWidths ==
    ASSUME ParserTypeOK, NEW rx \in Byte \cup {NoByte}, NEW fc \in BOOLEAN, ParserClock(rx, fc)
    PROVE  ParserTypeOK'
  <1>1. /\ ParserFsm(rx, fc) /\ ErrorStatus(rx) /\ TimeoutMonitor(rx) /\ FrameValidHold(fc)
        /\ ConsumedLatch(fc) /\ SoftResetPulse
    BY DEF ParserClock
  <1>2. error_status' \in Status
    BY <1>1 DEF ErrorStatus, ParserTypeOK, Status, STATUS_OK, STATUS_TIMEOUT, STATUS_CRC_ERR,
       STATUS_CMD_INV
  <1>3. timeout_counter' \in 0..TimeoutLimit /\ timeout_occurred' \in BOOLEAN
    <2>1. timeout_counter \in 0..TimeoutLimit /\ timeout_occurred \in BOOLEAN
      BY DEF ParserTypeOK
    <2>2. timeout_counter' \in 0..TimeoutLimit
      BY <1>1, <2>1, TimeoutLimitIsNat DEF TimeoutMonitor
    <2>3. timeout_occurred' \in BOOLEAN
      BY <1>1, <2>1, Zenon DEF TimeoutMonitor
    <2> QED BY <2>2, <2>3
  <1>4. frame_valid_hold' \in BOOLEAN /\ frame_consumed_reg' \in BOOLEAN
    <2>1. frame_valid_hold \in BOOLEAN
      BY DEF ParserTypeOK
    <2>2. frame_valid_hold' \in BOOLEAN
      BY <1>1, <2>1, Zenon DEF FrameValidHold
    <2> QED BY <1>1, <2>2, Zenon DEF ConsumedLatch
  <1>5. soft_reset' \in BOOLEAN /\ soft_reset_reg' \in BOOLEAN
    BY <1>1, Zenon DEF SoftResetPulse
  <1>6. /\ pstate' \in ParserState /\ cmd_reg' \in Byte /\ current_cmd' \in Byte
        /\ addr_reg' \in [1..4 -> Byte]
        /\ data_reg' \in Seq(Byte) /\ Len(data_reg') <= 64
        /\ expected_data_bytes' \in 0..64
        /\ received_crc' \in Byte /\ crc_reg' \in Byte
    <2>1. /\ pstate \in ParserState /\ cmd_reg \in Byte /\ current_cmd \in Byte
          /\ addr_reg \in [1..4 -> Byte]
          /\ data_reg \in Seq(Byte) /\ Len(data_reg) <= 64
          /\ expected_data_bytes \in 0..64
          /\ received_crc \in Byte /\ crc_reg \in Byte
      BY DEF ParserTypeOK
    <2>2. 0 \in Byte /\ <<>> \in Seq(Byte) /\ Len(<<>>) = 0
      BY EmptySeq DEF Byte
    <2>3. rx # NoByte => rx \in Byte /\ CrcNext(crc_reg, rx) \in Byte
      BY <2>1, CrcNextIsByte
    <2>4. /\ {"IDLE", "CMD", "DATA_RX", "CRC_RX", "VALIDATE", "POSTVTC", "ERROR"} \subseteq ParserState
          /\ \A i \in 1..4 : AddrState[i] \in ParserState
      BY DEF ParserState, WaitingState
    <2>5. CASE soft_reset /\ SoftResetFsm
      <3>1. addr_reg' \in [1..4 -> Byte]
        <4>1. [i \in 1..4 |-> 0] \in [1..4 -> Byte]
          BY <2>2
        <4> QED BY <2>5, <4>1, Zenon DEF SoftResetFsm
      <3>2. /\ pstate' = "IDLE" /\ cmd_reg' = 0 /\ current_cmd' = 0 /\ data_reg' = <<>>
            /\ expected_data_bytes' = 0 /\ received_crc' = 0 /\ crc_reg' = crc_reg
        BY <2>5 DEF SoftResetFsm
      <3> QED BY <2>1, <2>2, <2>4, <3>1, <3>2
    <2>6. CASE HuntSof(rx)
      <3>1. /\ pstate' \in {"IDLE", "CMD"} /\ cmd_reg' = cmd_reg /\ current_cmd' = 0
            /\ addr_reg' = addr_reg /\ data_reg' = <<>> /\ expected_data_bytes' = 0
            /\ received_crc' = received_crc /\ crc_reg' \in {0, crc_reg}
        BY <2>6 DEF HuntSof
      <3> QED BY <2>1, <2>2, <2>4, <3>1
    <2>7. CASE TakeCmd(rx)
      <3>1. /\ pstate' \in {"CRC_RX", AddrState[1]} /\ cmd_reg' = rx /\ current_cmd' = rx
            /\ addr_reg' = addr_reg /\ data_reg' = data_reg
            /\ expected_data_bytes' = PayloadBytes(rx) /\ rx # NoByte
            /\ received_crc' = received_crc /\ crc_reg' = CrcNext(crc_reg, rx)
        BY <2>7 DEF TakeCmd
      <3>2. PayloadBytes(rx) \in 0..64
        BY <2>3, <3>1, PayloadFits
      <3> QED BY <2>1, <2>3, <2>4, <3>1, <3>2
    <2>8. CASE TakeAddr(rx)
      <3>1. PICK i \in 1..4 :
               /\ pstate' = IF i < 4 THEN AddrState[i + 1]
                            ELSE IF expected_data_bytes = 0 THEN "CRC_RX" ELSE "DATA_RX"
               /\ addr_reg' = [addr_reg EXCEPT ![i] = rx]
        BY <2>8 DEF TakeAddr
      <3>2. i < 4 => i + 1 \in 1..4
        OBVIOUS
      <3>3. pstate' \in ParserState
        BY <2>4, <3>1, <3>2
      <3>4. /\ cmd_reg' = cmd_reg /\ current_cmd' = current_cmd /\ data_reg' = data_reg
            /\ expected_data_bytes' = expected_data_bytes /\ rx # NoByte
            /\ received_crc' = received_crc /\ crc_reg' = CrcNext(crc_reg, rx)
        BY <2>8 DEF TakeAddr
      <3>5. addr_reg' \in [1..4 -> Byte]
        BY <2>1, <2>3, <3>1, <3>4
      <3> QED BY <2>1, <2>3, <3>3, <3>4, <3>5
    <2>9. CASE TakeData(rx)
      <3>1. /\ pstate' \in {"CRC_RX", "DATA_RX"} /\ cmd_reg' = cmd_reg
            /\ current_cmd' = current_cmd /\ addr_reg' = addr_reg /\ rx # NoByte
            /\ data_reg' = IF Len(data_reg) < 64 THEN Append(data_reg, rx) ELSE data_reg
            /\ expected_data_bytes' = expected_data_bytes
            /\ received_crc' = received_crc /\ crc_reg' = CrcNext(crc_reg, rx)
        BY <2>9 DEF TakeData
      <3>2. Append(data_reg, rx) \in Seq(Byte) /\ Len(Append(data_reg, rx)) = Len(data_reg) + 1
        BY <2>1, <2>3, <3>1, AppendProperties
      <3>3. Len(data_reg) \in Nat
        BY <2>1, LenProperties
      <3>4. data_reg' \in Seq(Byte) /\ Len(data_reg') <= 64
        BY <2>1, <3>1, <3>2, <3>3
      <3> QED BY <2>1, <2>3, <2>4, <3>1, <3>4
    <2>10. CASE TakeCrc(rx)
      <3>1. /\ pstate' = "VALIDATE" /\ received_crc' = rx /\ rx # NoByte
            /\ UNCHANGED <<cmd_reg, current_cmd, addr_reg, data_reg, expected_data_bytes, crc_reg>>
        BY <2>10 DEF TakeCrc
      <3> QED BY <2>1, <2>3, <2>4, <3>1
    <2>11. CASE AwaitByte(rx) \/ Validate(fc) \/ LeaveError(fc) \/ PostReset
      <3>1. /\ pstate' \in {pstate, "ERROR", "POSTVTC", "IDLE", "VALIDATE"}
            /\ UNCHANGED <<cmd_reg, current_cmd, addr_reg, data_reg, expected_data_bytes,
                           received_crc, crc_reg>>
        BY <2>11 DEF AwaitByte, Validate, LeaveError, PostReset
      <3> QED BY <2>1, <2>4, <3>1
    <2> QED BY <1>1, <2>5, <2>6, <2>7, <2>8, <2>9, <2>10, <2>11 DEF ParserFsm
  <1> QED BY <1>2, <1>3, <1>4, <1>5, <1>6 DEF ParserTypeOK

-----------------------------------------------------------------------------
(* The AXI master's port keeps its widths: a read returns at most 64 bytes. *)
LEMMA PortWidths ==
    ASSUME Types, AxiMoves
    PROVE  AxiTypeOK'
  <1>1. AxiTypeOK /\ captured_cmd \in Byte
    BY DEF Types, ControlTypeOK
  <1>2. <<>> \in Seq(Byte) /\ Len(<<>>) = 0
    BY EmptySeq
  <1>3. CASE AxiStart(axi_start_transaction, captured_cmd)
    <2>1. /\ axi_busy' = TRUE /\ axi_done' = FALSE /\ axi_status' = STATUS_OK
          /\ axi_cmd' = captured_cmd /\ axi_read_data' = <<>>
      BY <1>3 DEF AxiStart
    <2>2. STATUS_OK \in Status
      BY DEF STATUS_OK, Status
    <2>3. axi_busy' \in BOOLEAN /\ axi_done' \in BOOLEAN
      BY <2>1, Zenon
    <2>4. axi_read_data' \in Seq(Byte) /\ Len(axi_read_data') = 0 /\ axi_status' \in Status
      BY <1>2, <2>1, <2>2, Zenon
    <2>5. Len(axi_read_data') <= 64
      BY <2>4
    <2>6. axi_cmd' \in Byte
      BY <1>1, <2>1, Zenon
    <2> QED BY <2>3, <2>4, <2>5, <2>6 DEF AxiTypeOK
  <1>4. CASE AxiIdle(axi_start_transaction)
    BY <1>1, <1>4 DEF AxiIdle, AxiTypeOK
  <1>5. CASE AxiFinish
    <2> DEFINE n == BytesAsked(axi_cmd)
    <2>1. n \in 0..64
      BY <1>1, PayloadFits DEF AxiTypeOK
    <2>2. /\ axi_busy' = FALSE /\ axi_done' = TRUE /\ axi_status' \in AxiStatuses
          /\ axi_cmd' = axi_cmd
          /\ axi_read_data' \in AxiPayloads(n) \/ axi_read_data' = <<>>
      BY <1>5 DEF AxiFinish
    <2> HIDE DEF n
    <2>3. axi_status' \in Status
      BY <2>2, AxiStatusesAreStatuses
    <2>4. ASSUME axi_read_data' \in AxiPayloads(n)
          PROVE  axi_read_data' \in Seq(Byte) /\ Len(axi_read_data') = n
      <3>1. axi_read_data' \in [1..n -> Byte]
        BY <2>1, <2>4, AxiPayloadsAreBytes
      <3>2. n \in Nat
        BY <2>1
      <3>3. axi_read_data' \in Seq(Byte)
        BY <3>1, <3>2
      <3> QED BY <3>1, <3>2, <3>3, LenProperties
    <2>5. axi_busy' \in BOOLEAN /\ axi_done' \in BOOLEAN
      BY <2>2, Zenon
    <2>6. axi_read_data' \in Seq(Byte) /\ Len(axi_read_data') \in {0, n}
      BY <1>2, <2>2, <2>4, Zenon
    <2>7. Len(axi_read_data') <= 64
      BY <2>1, <2>6
    <2>8. axi_cmd' \in Byte
      BY <1>1, <2>2, Zenon DEF AxiTypeOK
    <2> QED BY <2>3, <2>5, <2>6, <2>7, <2>8 DEF AxiTypeOK
  <1> QED BY <1>3, <1>4, <1>5 DEF AxiMoves

(* The one case in which a count of bytes read is left for the next cycle.  *)
LEMMA CountIsFresh ==
    ASSUME Handshake, Types, NEW rx, NEW full, Step(rx, full), captured_read_data_count' # 0
    PROVE  axi_done /\ ~soft_reset /\ captured_read_data_count' = Len(axi_read_data)
  <1>1. ~soft_reset /\ Capture(axi_done, axi_status, axi_read_data)
    BY DEF Step, ControlClock, ControlSoftReset
  <1>2. captured_read_data_count # 0 => frame_valid
    BY DEF Types, ReadCount, Handshake, ParserPlace, frame_valid
  <1>3. captured_read_data_count' =
            IF axi_done /\ ~axi_transaction_done_prev
            THEN IF IsRead(captured_cmd) /\ axi_status = STATUS_OK THEN Len(axi_read_data) ELSE 0
            ELSE IF frame_valid \/ frame_error THEN 0 ELSE captured_read_data_count
    BY <1>1 DEF Capture
  <1> QED BY <1>1, <1>2, <1>3

(* The count still agrees with the AXI master's buffer when it is used.     *)
LEMMA CountIsTrue ==
    ASSUME Handshake, Types, NEW rx, NEW full, Step(rx, full)
    PROVE  ReadCount'
  <1> SUFFICES ASSUME captured_read_data_count' # 0
               PROVE  /\ main_state' = "MAIN_BUILD_RESPONSE" /\ frame_valid_hold'
                      /\ captured_read_data_count' = Len(axi_read_data')
    BY DEF ReadCount
  <1>1. axi_done /\ ~soft_reset /\ captured_read_data_count' = Len(axi_read_data)
    BY CountIsFresh
  <1>2. main_state = "MAIN_AXI_TRANSACTION" /\ axi_start_issued /\ ~axi_busy
    BY <1>1 DEF Handshake, AxiPlace
  <1>3. /\ frame_valid_hold /\ pstate = "VALIDATE" /\ ~frame_consumed_reg
        /\ current_cmd # CMD_RESET /\ CmdValid(current_cmd) /\ received_crc = crc_reg
    BY <1>2 DEF Handshake, ControlPlace, ParserPlace
  <1>4. main_state' = "MAIN_BUILD_RESPONSE"
    BY <1>1, <1>2
    DEF Step, ControlClock, MainIdle, MainAxiTransaction, MainBuildResponse, MainWaitResponse
  <1>5. frame_valid_hold'
    <2>1. FrameValidHold(frame_consumed) /\ ~frame_consumed
      BY <1>2 DEF Step, ParserClock, frame_consumed
    <2> QED BY <1>1, <1>3, <2>1 DEF FrameValidHold
  <1>6. axi_read_data' = axi_read_data
    BY <1>2 DEF Step, AxiMoves, AxiStart, AxiIdle, AxiFinish, axi_start_transaction
  <1> QED BY <1>1, <1>4, <1>5, <1>6

(* The control state machine's registers keep their widths.                 *)
LEMMA ControlWidths ==
    ASSUME Handshake, Types, NEW rx, NEW full, Step(rx, full)
    PROVE  ControlTypeOK'
  <1>1. /\ ControlTypeOK /\ AxiTypeOK /\ cmd_reg \in Byte /\ addr_reg \in [1..4 -> Byte]
    BY DEF Types, ParserTypeOK
  <1>2. main_state' \in MainState
    BY ControlStep DEF ControlPlace
  <1>3. captured_read_data_count' \in 0..64
    <2>1. axi_read_data \in Seq(Byte) /\ Len(axi_read_data) <= 64
      BY <1>1 DEF AxiTypeOK
    <2>2. Len(axi_read_data) \in Nat
      BY <2>1, LenProperties
    <2>3. captured_read_data_count' \in {0, Len(axi_read_data)}
      BY CountIsFresh
    <2> QED BY <2>1, <2>2, <2>3
  <1>4. axi_start_issued' \in BOOLEAN /\ builder_start_issued' \in BOOLEAN
    BY DEF Step, ControlClock, StartPulses
  <1>5. CASE soft_reset /\ ControlSoftReset
    <2>1. /\ captured_cmd' = CMD_RESET /\ captured_addr' = [i \in 1..4 |-> 0]
          /\ axi_transaction_done_prev' = FALSE
      BY <1>5 DEF ControlSoftReset
    <2>2. CMD_RESET \in Byte /\ 0 \in Byte
      BY DEF CMD_RESET, Byte
    <2>3. [i \in 1..4 |-> 0] \in [1..4 -> Byte]
      BY <2>2
    <2>4. captured_addr' \in [1..4 -> Byte]
      BY <2>1, <2>3, Zenon
    <2>5. captured_cmd' \in Byte
      BY <2>1, <2>2, Zenon
    <2>6. axi_transaction_done_prev' \in BOOLEAN
      BY <2>1, Zenon
    <2> QED BY <1>2, <1>3, <1>4, <2>4, <2>5, <2>6 DEF ControlTypeOK
  <1>6. CASE Capture(axi_done, axi_status, axi_read_data)
    <2>1. /\ captured_cmd' \in {cmd_reg, captured_cmd}
          /\ captured_addr' \in {addr_reg, captured_addr}
          /\ axi_transaction_done_prev' = axi_done
      BY <1>6 DEF Capture
    <2> QED BY <1>1, <1>2, <1>3, <1>4, <2>1 DEF ControlTypeOK, AxiTypeOK
  <1> QED BY <1>5, <1>6 DEF Step, ControlClock

(* What the builder is asked to send is a request it has room for. *)
LEMMA AskedIsRequest ==
    ASSUME Types
    PROVE  IsRequest(BuildRequest(axi_status, axi_read_data))
  <1> DEFINE data == IF ~frame_error /\ IsRead(captured_cmd) /\ axi_status = STATUS_OK
                     THEN SubSeq(axi_read_data, 1, captured_read_data_count) ELSE <<>>
             status == IF frame_error THEN error_status ELSE axi_status
  <1>1. /\ captured_cmd \in Byte /\ captured_addr \in [1..4 -> Byte]
        /\ captured_read_data_count \in 0..64
        /\ error_status \in Status /\ axi_status \in Status
        /\ axi_read_data \in Seq(Byte) /\ Len(axi_read_data) <= 64
    BY DEF Types, ControlTypeOK, ParserTypeOK, AxiTypeOK
  <1>2. captured_read_data_count # 0 => captured_read_data_count = Len(axi_read_data)
    BY DEF Types, ReadCount
  <1>3. data \in Seq(Byte) /\ Len(data) <= 64
    <2>1. <<>> \in Seq(Byte) /\ Len(<<>>) = 0
      BY EmptySeq
    <2>2. captured_read_data_count <= Len(axi_read_data)
      BY <1>1, <1>2, LenProperties
    <2>3. \A i \in 1..captured_read_data_count : i \in 1..Len(axi_read_data)
      BY <1>1, <2>2, LenProperties
    <2>4. \A i \in 1..captured_read_data_count : axi_read_data[i] \in Byte
      BY <1>1, <2>3, ElementOfSeq
    <2> DEFINE part == SubSeq(axi_read_data, 1, captured_read_data_count)
    <2>5. part \in Seq(Byte) /\ Len(part) = captured_read_data_count
      BY <1>1, <2>2, <2>4, SubSeqProperties
    <2> QED BY <1>1, <2>1, <2>5
  <1>4. status \in Byte
    BY <1>1 DEF Status, Byte
  <1>5. BuildRequest(axi_status, axi_read_data) =
            [status |-> status, cmd |-> captured_cmd, addr |-> captured_addr, data |-> data]
    BY DEF BuildRequest
  <1> HIDE DEF data, status
  <1> QED BY <1>1, <1>3, <1>4, <1>5 DEF IsRequest

-----------------------------------------------------------------------------
(* Reset leaves every register within its width. *)
LEMMA TypesInit == Init => Types
  <1> SUFFICES ASSUME Init PROVE Types
    OBVIOUS
  <1>1. 0 \in Byte /\ [i \in 1..4 |-> 0] \in [1..4 -> Byte] /\ STATUS_OK \in Status
    BY DEF Byte, STATUS_OK, Status
  <1>2. <<>> \in Seq(Byte) /\ Len(<<>>) = 0
    BY EmptySeq
  <1>3. ParserTypeOK
    <2>1. ParserInit /\ TimeoutLimit \in Nat
      BY TimeoutLimitIsNat DEF Init
    <2>2. addr_reg \in [1..4 -> Byte]
      BY <1>1, <2>1, Zenon DEF ParserInit
    <2>3. data_reg \in Seq(Byte) /\ Len(data_reg) = 0
      BY <1>2, <2>1, Zenon DEF ParserInit
    <2>4. /\ pstate = "IDLE" /\ cmd_reg = 0 /\ current_cmd = 0 /\ expected_data_bytes = 0
          /\ received_crc = 0 /\ crc_reg \in Byte /\ error_status = STATUS_OK
          /\ timeout_counter = 0 /\ timeout_occurred = FALSE /\ frame_valid_hold = FALSE
          /\ frame_consumed_reg = FALSE /\ soft_reset = FALSE /\ soft_reset_reg = FALSE
      BY <2>1 DEF ParserInit
    <2>5. /\ timeout_occurred \in BOOLEAN /\ frame_valid_hold \in BOOLEAN
          /\ frame_consumed_reg \in BOOLEAN /\ soft_reset \in BOOLEAN
          /\ soft_reset_reg \in BOOLEAN
      BY <2>4, Zenon
    <2>6. /\ pstate \in ParserState /\ cmd_reg \in Byte /\ current_cmd \in Byte
          /\ received_crc \in Byte /\ crc_reg \in Byte /\ error_status \in Status
      BY <1>1, <2>4 DEF ParserState
    <2>7. expected_data_bytes \in 0..64 /\ timeout_counter \in 0..TimeoutLimit /\ Len(data_reg) <= 64
      BY <2>1, <2>3, <2>4
    <2> QED BY <2>2, <2>3, <2>5, <2>6, <2>7 DEF ParserTypeOK
  <1>4. BuilderTypeOK /\ IndexAtStart
    <2>1. BuilderInit
      BY DEF Init
    <2>2. addr_echo_reg \in [1..4 -> Byte]
      BY <1>1, <2>1, Zenon DEF BuilderInit
    <2>3. resp_data \in Seq(Byte) /\ Len(resp_data) = 0
      BY <1>2, <2>1, Zenon DEF BuilderInit
    <2>4. /\ bstate = "BIDLE" /\ status_reg = 0 /\ cmd_echo_reg = 0 /\ data_index = 0
          /\ build_response_prev = FALSE /\ bcrc_reg = 0 /\ tx_fifo_wr_en = FALSE
          /\ tx_fifo_data = 0
      BY <2>1 DEF BuilderInit
    <2>5. build_response_prev \in BOOLEAN /\ tx_fifo_wr_en \in BOOLEAN
      BY <2>4, Zenon
    <2>6. /\ bstate \in BuilderState /\ bstate # "BDATA" /\ status_reg \in Byte
          /\ cmd_echo_reg \in Byte /\ bcrc_reg \in Byte /\ tx_fifo_data \in Byte
      BY <1>1, <2>4 DEF BuilderState
    <2>7. data_index \in 0..64 /\ Len(resp_data) <= 64 /\ data_index = 0
      BY <2>3, <2>4
    <2> QED BY <2>2, <2>3, <2>5, <2>6, <2>7 DEF BuilderTypeOK, IndexAtStart
  <1>5. ControlTypeOK /\ ReadCount
    <2>1. ControlInit
      BY DEF Init
    <2>2. captured_addr \in [1..4 -> Byte]
      BY <1>1, <2>1, Zenon DEF ControlInit
    <2>3. /\ main_state = "MAIN_IDLE" /\ captured_cmd = 0 /\ captured_read_data_count = 0
          /\ axi_transaction_done_prev = FALSE /\ axi_start_issued = FALSE
          /\ builder_start_issued = FALSE
      BY <2>1 DEF ControlInit
    <2>4. /\ axi_transaction_done_prev \in BOOLEAN /\ axi_start_issued \in BOOLEAN
          /\ builder_start_issued \in BOOLEAN
      BY <2>3, Zenon
    <2>5. main_state \in MainState /\ captured_cmd \in Byte /\ captured_read_data_count \in 0..64
      BY <1>1, <2>3 DEF MainState
    <2> QED BY <2>2, <2>3, <2>4, <2>5 DEF ControlTypeOK, ReadCount
  <1>6. AxiTypeOK
    <2>1. /\ axi_busy = FALSE /\ axi_done = FALSE /\ axi_status = STATUS_OK
          /\ axi_cmd = 0 /\ axi_read_data = <<>>
      BY DEF Init, AxiInit
    <2>2. axi_busy \in BOOLEAN /\ axi_done \in BOOLEAN
      BY <2>1, Zenon
    <2>3. axi_status \in Status /\ axi_read_data \in Seq(Byte) /\ Len(axi_read_data) = 0
      BY <1>1, <1>2, <2>1, Zenon
    <2>4. axi_cmd \in Byte
      BY <1>1, <2>1, Zenon
    <2> QED BY <2>2, <2>3, <2>4 DEF AxiTypeOK
  <1> QED BY <1>3, <1>4, <1>5, <1>6 DEF Types

(* Together with the handshake, the widths are inductive.                   *)
LEMMA TypesStep == ~LateBytes /\ Handshake /\ Types /\ [Next]_vars => Types'
  <1> SUFFICES ASSUME ~LateBytes, Handshake, Types, [Next]_vars PROVE Types'
    OBVIOUS
  <1>1. CASE Next
    <2>1. PICK rx \in Line, full \in BOOLEAN : Clock(rx, full) /\ AxiMoves
      BY <1>1 DEF Next, Busy, Answered, AxiMoves
    <2>2. Step(rx, full)
      BY <2>1 DEF Clock, Step, Line
    <2>3. ParserTypeOK'
      <3>1. rx \in Byte \cup {NoByte} /\ ParserTypeOK
        BY <2>1, LineOffersBytes DEF Types
      <3> QED BY <2>1, <3>1, ParserWidths DEF Clock, frame_consumed
    <2>4. BuilderTypeOK' /\ IndexAtStart'
      <3>1. BuilderClock(full, build_response, BuildRequest(axi_status, axi_read_data), soft_reset)
        BY <2>1 DEF Clock
      <3>2. IsRequest(BuildRequest(axi_status, axi_read_data)) /\ BuilderTypeOK /\ IndexAtStart
        BY AskedIsRequest DEF Types
      <3>3. build_response \in BOOLEAN
        BY DEF build_response
      <3> QED BY <3>1, <3>2, <3>3, BuilderWidths
    <2>5. ControlTypeOK' /\ ReadCount'
      BY <2>2, ControlWidths, CountIsTrue
    <2>6. AxiTypeOK'
      BY <2>1, PortWidths
    <2> QED BY <2>3, <2>4, <2>5, <2>6 DEF Types
  <1>2. CASE UNCHANGED vars
    <2>1. UNCHANGED <<parserVars, builderVars, controlVars, axiVars>>
      BY <1>2 DEF vars
    <2>2. ParserTypeOK'
      BY <2>1 DEF Types, parserVars, fsmVars, ParserTypeOK
    <2>3. BuilderTypeOK' /\ IndexAtStart'
      BY <2>1 DEF Types, builderVars, requestRegs, BuilderTypeOK, IndexAtStart
    <2>4. ControlTypeOK' /\ AxiTypeOK' /\ ReadCount'
      BY <2>1 DEF Types, controlVars, axiVars, parserVars, ControlTypeOK, AxiTypeOK, ReadCount
    <2> QED BY <2>2, <2>3, <2>4 DEF Types
  <1> QED BY <1>1, <1>2

(* Uart_Axi4_Bridge, Frame_Parser, Frame_Builder: every register keeps its  *)
(* width, and the builder never indexes past the data it was given.         *)
THEOREM BridgeIsTypeCorrect == ASSUME ~LateBytes PROVE Spec => []BridgeTypeOK
  <1>1. Init => Types
    BY TypesInit
  <1>2. Handshake /\ Types /\ [Next]_vars => Types'
    BY TypesStep
  <1>3. Types => BridgeTypeOK
    BY DEF Types, AxiTypeOK, BridgeTypeOK
  <1> QED BY <1>1, <1>2, <1>3, HandshakeHolds, PTL DEF Spec
------------------------------------------------------------------------------
(***************************************************************************)
(* The bridge keeps the promises of FrameService.  Received says what the  *)
(* parser's registers hold of the frame, Promised that what the builder is *)
(* asked to send tells the frame's true outcome, Emission that it has sent *)
(* the beginning of just that.  Together with the handshake and the widths *)
(* they are inductive, and every clock edge that keeps them is a step of   *)
(* the service or none.                                                    *)
(***************************************************************************)
Got == Len(taken)

(* The vocabulary of the abstract service is that of the bridge.            *)
LEMMA ServiceWords ==
    /\ \A cmd : /\ Service!IsRead(cmd) <=> IsRead(cmd)
                /\ Service!CmdValid(cmd) <=> CmdValid(cmd)
                /\ Service!PayloadBytes(cmd) = PayloadBytes(cmd)
                /\ Service!BytesRead(cmd) = BytesAsked(cmd)
                /\ Service!FrameLen(cmd) = IF cmd = CMD_RESET THEN 2 ELSE 6 + PayloadBytes(cmd)
    /\ \A f : Service!CrcOf(f) = CrcRun(f)[Len(f)]
    /\ Service!STATUS_OK = STATUS_OK /\ Service!STATUS_CRC_ERR = STATUS_CRC_ERR
    /\ Service!STATUS_CMD_INV = STATUS_CMD_INV /\ Service!STATUS_TIMEOUT = STATUS_TIMEOUT
    /\ Service!CMD_RESET = CMD_RESET /\ Service!Status = Status
  <1>1. \A cmd : /\ Service!IsRead(cmd) <=> IsRead(cmd)
                 /\ Service!CmdValid(cmd) <=> CmdValid(cmd)
                 /\ Service!PayloadBytes(cmd) = PayloadBytes(cmd)
                 /\ Service!BytesRead(cmd) = BytesAsked(cmd)
                 /\ Service!FrameLen(cmd) = IF cmd = CMD_RESET THEN 2 ELSE 6 + PayloadBytes(cmd)
    BY Zenon DEF Service!IsRead, IsRead, Service!CmdValid, CmdValid, Service!PayloadBytes,
       PayloadBytes, Service!BytesRead, BytesAsked, Service!FrameLen, Service!CMD_RESET, CMD_RESET,
       Service!SizeField, SizeField, Service!LenField, LenField, Service!BeatSize, BeatSize
  <1>2. \A f : Service!CrcOf(f) = CrcRun(f)[Len(f)]
    BY Zenon DEF Service!CrcOf, Service!CrcRun, CrcRun
  <1>3. /\ Service!STATUS_OK = STATUS_OK /\ Service!STATUS_CRC_ERR = STATUS_CRC_ERR
        /\ Service!STATUS_CMD_INV = STATUS_CMD_INV /\ Service!STATUS_TIMEOUT = STATUS_TIMEOUT
        /\ Service!CMD_RESET = CMD_RESET /\ Service!Status = Status
    BY Zenon DEF Service!STATUS_OK, STATUS_OK, Service!STATUS_CRC_ERR, STATUS_CRC_ERR,
       Service!STATUS_CMD_INV, STATUS_CMD_INV, Service!STATUS_TIMEOUT, STATUS_TIMEOUT,
       Service!CMD_RESET, CMD_RESET, Service!Status, Status
  <1> QED BY <1>1, <1>2, <1>3, Zenon

-----------------------------------------------------------------------------
(* Bytes of the frame stand in the registers of their fields.               *)
Fields ==
    /\ taken \in Seq(Byte)
    /\ pstate \in WaitingState \cup {"VALIDATE", "ERROR"} =>
         /\ Got >= 1 => /\ cmd_reg = taken[1] /\ current_cmd = taken[1]
                        /\ expected_data_bytes = PayloadBytes(taken[1])
         /\ \A j \in 1..4 : Got >= j + 1 /\ taken[1] # CMD_RESET => addr_reg[j] = taken[j + 1]
         /\ \A k \in 1..Len(data_reg) : data_reg[k] = taken[k + 5]

(* The state says how much of the frame has arrived.                        *)
Arrived ==
    /\ pstate = "CMD" => Got = 0 /\ Len(data_reg) = 0
    /\ \A i \in 1..4 : pstate = AddrState[i] => /\ Got = i /\ taken[1] # CMD_RESET
                                                /\ Len(data_reg) = 0
    /\ pstate = "DATA_RX" => /\ taken[1] # CMD_RESET /\ Got = 5 + Len(data_reg)
                             /\ Len(data_reg) < expected_data_bytes
    /\ pstate = "CRC_RX" => /\ Got >= 1 /\ Got + 1 = Service!FrameLen(taken[1])
                            /\ Len(data_reg) = expected_data_bytes
    /\ pstate = "VALIDATE" => /\ Got >= 2 /\ Got = Service!FrameLen(taken[1])
                              /\ Len(data_reg) = expected_data_bytes
                              /\ received_crc = taken[Got]
    /\ pstate = "ERROR" => Got = 0 \/ Got < Service!FrameLen(taken[1])

(* The CRC register has run over every byte but the CRC itself.             *)
Summed ==
    /\ pstate \in WaitingState => crc_reg = CrcRun(taken)[Got]
    /\ pstate = "VALIDATE" => crc_reg = CrcRun(taken)[Got - 1]

(* What was captured for the AXI master is what the registers hold.         *)
Captured ==
    main_state = "MAIN_AXI_TRANSACTION" => captured_cmd = cmd_reg /\ captured_addr = addr_reg

Received == Fields /\ Arrived /\ Summed /\ Captured

Edge(rx, full) == Step(rx, full) /\ Histories(rx, full) /\ rx \in Byte \cup {NoByte}

-----------------------------------------------------------------------------
(* A frame with one more byte.                                              *)
Longer(f, b, g) ==
    /\ g \in Seq(Byte) /\ Len(g) \in Nat /\ Len(g) = Len(f) + 1
    /\ \A i \in 1..Len(f) : g[i] = f[i]
    /\ g[Len(f) + 1] = b
    /\ CrcRun(g)[Len(f)] = CrcRun(f)[Len(f)]
    /\ CrcRun(g)[Len(f) + 1] = CrcNext(CrcRun(f)[Len(f)], b)

(* Appending a byte makes a frame longer by it, and its CRC too.            *)
LEMMA OneMoreByte ==
    ASSUME NEW f \in Seq(Byte), NEW b \in Byte
    PROVE  Longer(f, b, Append(f, b))
  <1> DEFINE g == Append(f, b)
  <1>1. /\ g \in Seq(Byte) /\ Len(g) = Len(f) + 1 /\ Len(f) \in Nat
        /\ \A i \in 1..Len(f) : g[i] = f[i]
        /\ g[Len(f) + 1] = b
    BY AppendProperties, LenProperties
  <1> HIDE DEF g
  <1>2. Len(g) \in Nat /\ Len(f) <= Len(g) /\ Len(f) + 1 \in 1..Len(g)
    BY <1>1
  <1>3. CrcRun(g)[Len(f)] = CrcRun(f)[Len(f)]
    BY <1>1, <1>2, CrcPrefix
  <1>4. CrcRun(g)[Len(f) + 1] = CrcNext(CrcRun(g)[(Len(f) + 1) - 1], g[Len(f) + 1])
    BY <1>2, CrcStep
  <1>5. (Len(f) + 1) - 1 = Len(f)
    BY <1>1
  <1>6. CrcRun(g)[Len(f) + 1] = CrcNext(CrcRun(f)[Len(f)], b)
    BY <1>1, <1>3, <1>4, <1>5, Zenon
  <1>7. Longer(f, b, g)
    BY <1>1, <1>2, <1>3, <1>6 DEF Longer
  <1> QED BY <1>7 DEF g

(* Which branch of the parser's case statement runs in which state.         *)
LEMMA ParserBranch ==
    ASSUME Handshake, NEW rx, NEW full, Step(rx, full)
    PROVE  /\ pstate = "IDLE" => HuntSof(rx)
           /\ pstate \in WaitingState /\ rx = NoByte => AwaitByte(rx)
           /\ pstate = "CMD" /\ rx # NoByte => TakeCmd(rx)
           /\ pstate \in {AddrState[i] : i \in 1..4} /\ rx # NoByte => TakeAddr(rx)
           /\ pstate = "DATA_RX" /\ rx # NoByte => TakeData(rx)
           /\ pstate = "CRC_RX" /\ rx # NoByte => TakeCrc(rx)
           /\ pstate = "VALIDATE" => Validate(frame_consumed)
           /\ pstate = "ERROR" => LeaveError(frame_consumed)
           /\ pstate = "POSTVTC" => SoftResetFsm
  <1>1. ParserFsm(rx, frame_consumed)
    BY DEF Step, ParserClock
  <1>2. soft_reset <=> pstate = "POSTVTC"
    BY DEF Handshake, ParserPlace
  <1>3. \A i \in 1..4 : AddrState[i] \notin {"IDLE", "CMD", "DATA_RX", "CRC_RX", "VALIDATE",
                                             "ERROR", "POSTVTC"}
    BY DEF AddrState
  <1> QED BY <1>1, <1>2, <1>3
          DEF ParserFsm, HuntSof, TakeCmd, TakeAddr, TakeData, TakeCrc, AwaitByte, Validate,
              LeaveError, PostReset, WaitingState

(* How long a frame with this command is.                                   *)
LEMMA FrameLength ==
    ASSUME NEW cmd \in Byte
    PROVE  /\ Service!FrameLen(cmd) = IF cmd = CMD_RESET THEN 2 ELSE 6 + PayloadBytes(cmd)
           /\ PayloadBytes(cmd) \in Nat /\ Service!FrameLen(cmd) \in Nat
           /\ cmd = CMD_RESET => PayloadBytes(cmd) = 0
  <1>1. Service!FrameLen(cmd) = IF cmd = CMD_RESET THEN 2 ELSE 6 + PayloadBytes(cmd)
    BY ServiceWords
  <1>2. PayloadBytes(cmd) \in Nat
    BY PayloadFits
  <1>3. cmd = CMD_RESET => PayloadBytes(cmd) = 0
    BY DEF CMD_RESET, PayloadBytes, IsRead
  <1> QED BY <1>1, <1>2, <1>3

(* The four address states, one by one.                                     *)
LEMMA AddrStates ==
    /\ AddrState[1] = "ADDR_BYTE0" /\ AddrState[2] = "ADDR_BYTE1"
    /\ AddrState[3] = "ADDR_BYTE2" /\ AddrState[4] = "ADDR_BYTE3"
    /\ \A i \in 1..4 : \A j \in 1..4 : AddrState[i] = AddrState[j] => i = j
    /\ WaitingState = {"ADDR_BYTE0", "ADDR_BYTE1", "ADDR_BYTE2", "ADDR_BYTE3", "CMD", "DATA_RX",
                       "CRC_RX"}
    /\ \A i \in 1..4 : AddrState[i] \in WaitingState \ {"CMD", "DATA_RX", "CRC_RX"}
  <1>1. 1..4 = {1, 2, 3, 4}
    OBVIOUS
  <1> QED BY <1>1 DEF AddrState, WaitingState

(* The parser's registers and the frame so far, after a byte of each field. *)
LEMMA CmdTaken ==
    ASSUME Types, Received, NEW rx \in Byte, TakeCmd(rx), Longer(taken, rx, taken')
    PROVE  Fields' /\ Arrived' /\ Summed'
  <1>1. Got = 0 /\ Len(data_reg) = 0 /\ crc_reg = CrcRun(taken)[0]
    BY AddrStates DEF TakeCmd, Received, Arrived, Summed
  <1>2. /\ pstate' = IF rx = CMD_RESET THEN "CRC_RX" ELSE "ADDR_BYTE0"
        /\ cmd_reg' = rx /\ current_cmd' = rx /\ expected_data_bytes' = PayloadBytes(rx)
        /\ crc_reg' = CrcNext(crc_reg, rx) /\ data_reg' = data_reg
    BY AddrStates DEF TakeCmd
  <1>3. /\ taken' \in Seq(Byte) /\ Len(taken') = 1 /\ taken'[1] = rx
        /\ CrcRun(taken')[1] = CrcNext(crc_reg, rx)
    BY <1>1 DEF Longer, Got
  <1>4. Fields'
    BY <1>1, <1>2, <1>3 DEF Fields, Got
  <1>5. Arrived'
    BY <1>1, <1>2, <1>3, FrameLength, AddrStates DEF Arrived, Got
  <1>6. Summed'
    BY <1>2, <1>3 DEF Summed, Got
  <1> QED BY <1>4, <1>5, <1>6

(* ... after an address byte ...                                            *)
LEMMA AddrTaken ==
    ASSUME Types, Received, NEW rx \in Byte, TakeAddr(rx), Longer(taken, rx, taken')
    PROVE  Fields' /\ Arrived' /\ Summed'
  <1>1. PICK i \in 1..4 :
           /\ pstate = AddrState[i]
           /\ pstate' = IF i < 4 THEN AddrState[i + 1]
                        ELSE IF expected_data_bytes = 0 THEN "CRC_RX" ELSE "DATA_RX"
           /\ addr_reg' = [addr_reg EXCEPT ![i] = rx]
    BY DEF TakeAddr
  <1>2. /\ Got = i /\ taken[1] # CMD_RESET /\ Len(data_reg) = 0 /\ pstate \in WaitingState
        /\ crc_reg = CrcRun(taken)[i]
    BY <1>1, AddrStates DEF Received, Arrived, Summed
  <1>3. /\ cmd_reg = taken[1] /\ current_cmd = taken[1] /\ taken[1] \in Byte
        /\ expected_data_bytes = PayloadBytes(taken[1])
        /\ \A j \in 1..4 : i >= j + 1 => addr_reg[j] = taken[j + 1]
    <2>1. taken \in Seq(Byte) /\ 1 \in 1..Got
      BY <1>2 DEF Received, Fields
    <2>2. taken[1] \in Byte
      BY <2>1, ElementOfSeq DEF Got
    <2> QED BY <1>2, <2>2 DEF Received, Fields
  <1>4. /\ cmd_reg' = cmd_reg /\ current_cmd' = current_cmd /\ data_reg' = data_reg
        /\ expected_data_bytes' = expected_data_bytes /\ crc_reg' = CrcNext(crc_reg, rx)
    BY DEF TakeAddr
  <1>5. /\ taken' \in Seq(Byte) /\ Len(taken') = i + 1 /\ taken'[1] = taken[1]
        /\ \A j \in 1..i : taken'[j] = taken[j]
        /\ taken'[i + 1] = rx /\ CrcRun(taken')[i + 1] = CrcNext(crc_reg, rx)
    BY <1>2 DEF Longer, Got
  <1>6. \A j \in 1..4 : i + 1 >= j + 1 => addr_reg'[j] = taken'[j + 1]
    <2> SUFFICES ASSUME NEW j \in 1..4, j <= i PROVE addr_reg'[j] = taken'[j + 1]
      OBVIOUS
    <2>1. addr_reg \in [1..4 -> Byte]
      BY DEF Types, ParserTypeOK
    <2>2. CASE j = i
      BY <1>1, <1>5, <2>1, <2>2
    <2>3. CASE j < i
      BY <1>1, <1>3, <1>5, <2>1, <2>3
    <2> QED BY <2>2, <2>3
  <1>7. Fields'
    BY <1>2, <1>3, <1>4, <1>5, <1>6 DEF Fields, Got
  <1>8. Arrived'
    <2>1. CASE i < 4
      <3>1. i + 1 \in 1..4 /\ pstate' = AddrState[i + 1]
        BY <1>1, <2>1
      <3> QED BY <1>2, <1>3, <1>4, <1>5, <3>1, AddrStates DEF Arrived, Got
    <2>2. CASE i = 4
      <3>1. pstate' = IF PayloadBytes(taken[1]) = 0 THEN "CRC_RX" ELSE "DATA_RX"
        BY <1>1, <1>3, <2>2
      <3>2. \A k \in 1..4 : pstate' # AddrState[k]
        BY <3>1, AddrStates
      <3> QED BY <1>2, <1>3, <1>4, <1>5, <2>2, <3>1, <3>2, FrameLength DEF Arrived, Got
    <2> QED BY <2>1, <2>2
  <1>9. Summed'
    <2>1. pstate' # "VALIDATE"
      BY <1>1, AddrStates
    <2> QED BY <1>4, <1>5, <2>1 DEF Summed, Got
  <1> QED BY <1>7, <1>8, <1>9

(* ... after a byte of write data ...                                       *)
LEMMA DataTaken ==
    ASSUME Types, Received, NEW rx \in Byte, TakeData(rx), Longer(taken, rx, taken')
    PROVE  Fields' /\ Arrived' /\ Summed'
  <1> DEFINE n == Len(data_reg)
  <1>1. /\ pstate = "DATA_RX" /\ taken[1] # CMD_RESET /\ Got = 5 + n /\ n < expected_data_bytes
        /\ crc_reg = CrcRun(taken)[Got] /\ n \in Nat
    <2>1. pstate = "DATA_RX" /\ pstate \in WaitingState
      BY AddrStates DEF TakeData
    <2>2. data_reg \in Seq(Byte)
      BY DEF Types, ParserTypeOK
    <2> QED BY <2>1, <2>2, LenProperties DEF Received, Arrived, Summed
  <1>2. /\ cmd_reg = taken[1] /\ current_cmd = taken[1] /\ taken[1] \in Byte
        /\ expected_data_bytes = PayloadBytes(taken[1])
        /\ \A j \in 1..4 : addr_reg[j] = taken[j + 1]
        /\ \A k \in 1..n : data_reg[k] = taken[k + 5]
    <2>1. taken \in Seq(Byte) /\ 1 \in 1..Got
      BY <1>1 DEF Received, Fields
    <2>2. taken[1] \in Byte
      BY <2>1, ElementOfSeq DEF Got
    <2>3. pstate \in WaitingState /\ \A j \in 1..4 : Got >= j + 1
      BY <1>1, AddrStates
    <2> QED BY <1>1, <2>2, <2>3 DEF Received, Fields
  <1>3. n < 64 /\ PayloadBytes(taken[1]) \in 0..64
    <2>1. PayloadBytes(taken[1]) \in 0..64
      BY <1>2, PayloadFits
    <2>2. n \in Nat /\ n < PayloadBytes(taken[1])
      BY <1>1, <1>2, Zenon
    <2> HIDE DEF n
    <2> QED BY <2>1, <2>2
  <1>4. /\ cmd_reg' = cmd_reg /\ current_cmd' = current_cmd /\ addr_reg' = addr_reg
        /\ expected_data_bytes' = expected_data_bytes /\ crc_reg' = CrcNext(crc_reg, rx)
        /\ data_reg' = Append(data_reg, rx)
        /\ pstate' = IF n + 1 >= expected_data_bytes THEN "CRC_RX" ELSE "DATA_RX"
    BY <1>3 DEF TakeData
  <1>5. /\ Len(data_reg') = n + 1 /\ data_reg'[n + 1] = rx
        /\ \A k \in 1..n : data_reg'[k] = data_reg[k]
    <2>1. data_reg \in Seq(Byte)
      BY DEF Types, ParserTypeOK
    <2> QED BY <1>4, <2>1, AppendProperties
  <1> HIDE DEF n
  <1>6. /\ taken' \in Seq(Byte) /\ Len(taken') = n + 6 /\ taken'[1] = taken[1]
        /\ \A j \in 1..(n + 5) : taken'[j] = taken[j]
        /\ taken'[n + 6] = rx /\ CrcRun(taken')[n + 6] = CrcNext(crc_reg, rx)
    BY <1>1 DEF Longer, Got
  <1>7. \A j \in 1..4 : addr_reg'[j] = taken'[j + 1]
    BY <1>1, <1>2, <1>4, <1>6
  <1>8. \A k \in 1..(n + 1) : data_reg'[k] = taken'[k + 5]
    <2> SUFFICES ASSUME NEW k \in 1..(n + 1) PROVE data_reg'[k] = taken'[k + 5]
      OBVIOUS
    <2>1. CASE k = n + 1
      BY <1>1, <1>5, <1>6, <2>1
    <2>2. CASE k \in 1..n
      BY <1>1, <1>2, <1>5, <1>6, <2>2
    <2> QED BY <1>1, <2>1, <2>2
  <1>9. Fields'
    BY <1>2, <1>4, <1>5, <1>6, <1>7, <1>8 DEF Fields, Got
  <1>10. Arrived'
    <2>1. pstate' = IF n + 1 >= PayloadBytes(taken[1]) THEN "CRC_RX" ELSE "DATA_RX"
      BY <1>2, <1>4
    <2>2. \A k \in 1..4 : pstate' # AddrState[k]
      BY <2>1, AddrStates
    <2>3. Service!FrameLen(taken[1]) = 6 + PayloadBytes(taken[1])
      BY <1>1, <1>2, FrameLength
    <2>4. taken'[1] = taken[1] /\ Got' = n + 6
      BY <1>6 DEF Got
    <2>5. CASE n + 1 >= PayloadBytes(taken[1])
      <3>1. pstate' = "CRC_RX" /\ n + 1 = PayloadBytes(taken[1])
        BY <1>1, <1>2, <1>3, <2>1, <2>5
      <3>2. expected_data_bytes' = n + 1 /\ Len(data_reg') = n + 1
        BY <1>2, <1>4, <1>5, <3>1
      <3>3. (n + 6) + 1 = Service!FrameLen(taken[1]) /\ n + 6 >= 1
        BY <1>1, <2>3, <3>1
      <3> QED BY <2>2, <2>4, <3>1, <3>2, <3>3 DEF Arrived
    <2>6. CASE ~(n + 1 >= PayloadBytes(taken[1]))
      <3>1. pstate' = "DATA_RX" /\ n + 1 < PayloadBytes(taken[1]) /\ 5 + (n + 1) = n + 6
        BY <1>1, <1>3, <2>1, <2>6
      <3>2. expected_data_bytes' = PayloadBytes(taken[1]) /\ Len(data_reg') = n + 1
        BY <1>2, <1>4, <1>5
      <3> QED BY <1>1, <2>2, <2>4, <3>1, <3>2 DEF Arrived
    <2> QED BY <2>5, <2>6
  <1>11. Summed'
    <2>1. pstate' # "VALIDATE"
      BY <1>4
    <2> QED BY <1>4, <1>6, <2>1 DEF Summed, Got
  <1> QED BY <1>9, <1>10, <1>11

(* ... and after the CRC byte.                                              *)
LEMMA CrcTaken ==
    ASSUME Types, Received, NEW rx \in Byte, TakeCrc(rx), Longer(taken, rx, taken')
    PROVE  Fields' /\ Arrived' /\ Summed'
  <1>1. /\ pstate = "CRC_RX" /\ Got >= 1 /\ Got + 1 = Service!FrameLen(taken[1])
        /\ Len(data_reg) = expected_data_bytes /\ crc_reg = CrcRun(taken)[Got] /\ Got \in Nat
    <2>1. pstate = "CRC_RX" /\ pstate \in WaitingState
      BY AddrStates DEF TakeCrc
    <2>2. Got \in Nat
      BY LenProperties DEF Received, Fields, Got
    <2> QED BY <2>1, <2>2 DEF Received, Arrived, Summed
  <1>2. /\ pstate' = "VALIDATE" /\ received_crc' = rx
        /\ UNCHANGED <<cmd_reg, current_cmd, addr_reg, data_reg, expected_data_bytes, crc_reg>>
    BY DEF TakeCrc
  <1>3. \A k \in 1..Len(data_reg) : k + 5 \in 1..Got
    <2>1. taken[1] \in Byte /\ expected_data_bytes = PayloadBytes(taken[1])
      <3>1. 1 \in 1..Got /\ taken \in Seq(Byte)
        BY <1>1 DEF Received, Fields
      <3>2. taken[1] \in Byte
        BY <3>1, ElementOfSeq DEF Got
      <3> QED BY <1>1, <3>2, AddrStates DEF Received, Fields
    <2>2. /\ Service!FrameLen(taken[1]) =
                IF taken[1] = CMD_RESET THEN 2 ELSE 6 + PayloadBytes(taken[1])
          /\ PayloadBytes(taken[1]) \in Nat
          /\ taken[1] = CMD_RESET => PayloadBytes(taken[1]) = 0
      BY <2>1, FrameLength
    <2> DEFINE p == PayloadBytes(taken[1])
    <2>3. Len(data_reg) = p /\ p \in Nat /\ (p # 0 => Got + 1 = 6 + p)
      BY <1>1, <2>1, <2>2
    <2> HIDE DEF p
    <2> QED BY <1>1, <2>3
  <1>4. /\ taken' \in Seq(Byte) /\ Len(taken') = Got + 1 /\ taken'[1] = taken[1]
        /\ \A j \in 1..Got : taken'[j] = taken[j]
        /\ taken'[Got + 1] = rx /\ CrcRun(taken')[Got] = crc_reg
    BY <1>1 DEF Longer, Got
  <1>5. \A j \in 1..4 : Got + 1 >= j + 1 /\ taken[1] # CMD_RESET => addr_reg[j] = taken'[j + 1]
    <2> SUFFICES ASSUME NEW j \in 1..4, taken[1] # CMD_RESET PROVE addr_reg[j] = taken'[j + 1]
      OBVIOUS
    <2>1. Got >= 5
      <3>1. 1 \in 1..Got /\ taken \in Seq(Byte)
        BY <1>1 DEF Received, Fields
      <3>2. taken[1] \in Byte
        BY <3>1, ElementOfSeq DEF Got
      <3>3. /\ Service!FrameLen(taken[1]) = 6 + PayloadBytes(taken[1])
            /\ PayloadBytes(taken[1]) \in Nat
        BY <3>2, FrameLength
      <3> QED BY <1>1, <3>3
    <2>2. addr_reg[j] = taken[j + 1]
      BY <1>1, <2>1, AddrStates DEF Received, Fields
    <2> QED BY <1>1, <1>4, <2>1, <2>2
  <1>6. \A k \in 1..Len(data_reg) : data_reg[k] = taken'[k + 5]
    BY <1>1, <1>3, <1>4, AddrStates DEF Received, Fields
  <1>7. Fields'
    <2>1. /\ cmd_reg = taken[1] /\ current_cmd = taken[1]
          /\ expected_data_bytes = PayloadBytes(taken[1])
      BY <1>1, AddrStates DEF Received, Fields
    <2> QED BY <1>2, <1>4, <1>5, <1>6, <2>1 DEF Fields, Got
  <1>8. Arrived'
    <2>1. \A k \in 1..4 : pstate' # AddrState[k]
      BY <1>2, AddrStates
    <2>2. Got' = Got + 1 /\ taken'[1] = taken[1] /\ taken'[Got + 1] = rx
      BY <1>4 DEF Got
    <2>3. Got + 1 >= 2 /\ Got + 1 = Service!FrameLen(taken[1])
      BY <1>1
    <2> QED BY <1>1, <1>2, <2>1, <2>2, <2>3 DEF Arrived
  <1>9. Summed'
    <2>1. pstate' \notin WaitingState
      BY <1>2, AddrStates
    <2>2. Len(taken') - 1 = Got
      BY <1>1, <1>4
    <2>3. CrcRun(taken')[Len(taken') - 1] = crc_reg'
      BY <1>2, <1>4, <2>2, Zenon
    <2> QED BY <1>2, <2>1, <2>3 DEF Summed, Got
  <1> QED BY <1>7, <1>8, <1>9

(* Before the CRC byte, what has arrived is no whole frame.                 *)
LEMMA NotYetWhole ==
    ASSUME Types, Received, pstate \in WaitingState \cup {"ERROR"}, Got # 0
    PROVE  Got < Service!FrameLen(taken[1])
  <1>1. CASE pstate = "ERROR"
    BY <1>1 DEF Received, Arrived
  <1>2. CASE pstate \in WaitingState
    <2>1. taken \in Seq(Byte) /\ Got \in Nat
      BY LenProperties DEF Received, Fields, Got
    <2>2. taken[1] \in Byte
      <3>1. 1 \in 1..Got
        BY <2>1
      <3> QED BY <2>1, <3>1, ElementOfSeq DEF Got
    <2>3. /\ Service!FrameLen(taken[1]) =
                 IF taken[1] = CMD_RESET THEN 2 ELSE 6 + PayloadBytes(taken[1])
          /\ PayloadBytes(taken[1]) \in Nat
      BY <2>2, FrameLength
    <2>4. expected_data_bytes = PayloadBytes(taken[1])
      BY <1>2, <2>1 DEF Received, Fields
    <2> DEFINE p == PayloadBytes(taken[1])
               L == Service!FrameLen(taken[1])
               n == Len(data_reg)
    <2>5. p \in Nat /\ L = (IF taken[1] = CMD_RESET THEN 2 ELSE 6 + p) /\ n \in Nat
      <3>1. data_reg \in Seq(Byte)
        BY DEF Types, ParserTypeOK
      <3> QED BY <2>3, <3>1, LenProperties
    <2>6. \/ \E i \in 1..4 : Got = i /\ taken[1] # CMD_RESET
          \/ taken[1] # CMD_RESET /\ Got = 5 + n /\ n < p
          \/ Got + 1 = L
      BY <1>2, <2>4 DEF Received, Arrived, WaitingState
    <2> HIDE DEF p, L, n
    <2>7. Got < L
      BY <2>1, <2>5, <2>6
    <2> QED BY <2>7 DEF L
  <1> QED BY <1>1, <1>2

(* A clock in which no byte is taken: the frame waits, is given up, or      *)
(* stays at hand while it is served.                                        *)
LEMMA NoneTaken ==
    ASSUME Types, Received, taken' = taken, pstate \in WaitingState \cup {"VALIDATE", "ERROR"},
           UNCHANGED <<cmd_reg, current_cmd, addr_reg, data_reg, expected_data_bytes,
                       received_crc, crc_reg>>,
           \/ pstate' = pstate
           \/ pstate \in WaitingState /\ pstate' = "ERROR"
           \/ pstate' \in {"IDLE", "POSTVTC"}
    PROVE  Fields' /\ Arrived' /\ Summed'
  <1>1. Fields'
    BY DEF Received, Fields, Got
  <1>2. Summed'
    BY AddrStates DEF Received, Summed, Got
  <1>3. CASE pstate' = pstate
    BY <1>1, <1>2, <1>3 DEF Received, Arrived, Got
  <1>4. CASE pstate' \in {"IDLE", "POSTVTC"}
    <2>1. \A k \in 1..4 : pstate' # AddrState[k]
      BY <1>4, AddrStates
    <2> QED BY <1>1, <1>2, <1>4, <2>1 DEF Arrived
  <1>5. CASE pstate \in WaitingState /\ pstate' = "ERROR"
    <2>1. \A k \in 1..4 : pstate' # AddrState[k]
      BY <1>5, AddrStates
    <2>2. taken \in Seq(Byte) /\ Got \in Nat
      BY LenProperties DEF Received, Fields, Got
    <2>4. Got = 0 \/ Got < Service!FrameLen(taken[1])
      BY <1>5, NotYetWhole
    <2> QED BY <1>1, <1>2, <1>5, <2>1, <2>4 DEF Arrived, Got
  <1> QED BY <1>3, <1>4, <1>5

(* What is captured for the AXI master stays what the registers hold.       *)
LEMMA CapturedStep ==
    ASSUME Handshake, Captured, NEW rx, NEW full, Step(rx, full)
    PROVE  Captured'
  <1> SUFFICES ASSUME main_state' = "MAIN_AXI_TRANSACTION"
               PROVE  captured_cmd' = cmd_reg' /\ captured_addr' = addr_reg'
    BY DEF Captured
  <1>1. /\ ~soft_reset /\ Capture(axi_done, axi_status, axi_read_data)
        /\ MainIdle \/ MainAxiTransaction(axi_done) \/ MainBuildResponse \/ MainWaitResponse
    BY DEF Step, ControlClock, ControlSoftReset
  <1>2. frame_valid
    BY <1>1 DEF Handshake, ParserPlace, ControlPlace, frame_valid, MainIdle, MainAxiTransaction,
       MainBuildResponse, MainWaitResponse
  <1>3. captured_cmd' = cmd_reg /\ captured_addr' = addr_reg
    BY <1>1, <1>2 DEF Capture
  <1>4. cmd_reg' = cmd_reg /\ addr_reg' = addr_reg
    BY <1>2, ParserBranch DEF frame_valid, Validate
  <1> QED BY <1>3, <1>4

(* Every clock edge keeps what the registers hold of the frame.             *)
LEMMA ReceivedStep ==
    ASSUME Handshake, Types, Received, NEW rx, NEW full, Edge(rx, full)
    PROVE  Received'
  <1>1. Step(rx, full) /\ Histories(rx, full) /\ rx \in Byte \cup {NoByte}
    BY DEF Edge
  <1>2. Captured'
    BY <1>1, CapturedStep DEF Received
  <1>3. taken' = IF pstate = "IDLE" THEN <<>>
                 ELSE IF rx # NoByte /\ pstate \in WaitingState THEN Append(taken, rx) ELSE taken
    BY <1>1 DEF Histories, Pops
  <1>4. /\ ~soft_reset \/ pstate = "POSTVTC"
        /\ pstate \in WaitingState \cup {"IDLE", "VALIDATE", "ERROR", "POSTVTC"}
    BY DEF Handshake, ParserPlace, ParserState
  <1>5. CASE pstate = "IDLE"
    <2>1. /\ taken' = <<>> /\ pstate' \in {"IDLE", "CMD"} /\ data_reg' = <<>>
          /\ pstate' = "CMD" => crc_reg' = 0
      BY <1>1, <1>3, <1>5, ParserBranch DEF HuntSof
    <2>2. taken' \in Seq(Byte) /\ Len(taken') = 0 /\ Len(data_reg') = 0
      BY <2>1, EmptySeq
    <2>3. CrcRun(taken')[0] = 0
      BY <2>2, CrcStep
    <2>4. Fields'
      BY <2>2 DEF Fields, Got
    <2>5. \A k \in 1..4 : pstate' # AddrState[k]
      BY <2>1, AddrStates
    <2>6. Arrived'
      BY <2>1, <2>2, <2>5 DEF Arrived, Got
    <2>7. Summed'
      BY <2>1, <2>2, <2>3, AddrStates DEF Summed, Got
    <2> QED BY <1>2, <2>4, <2>6, <2>7 DEF Received
  <1>6. CASE pstate \in WaitingState /\ rx # NoByte
    <2>1. rx \in Byte /\ taken \in Seq(Byte)
      BY <1>1, <1>6 DEF Received, Fields
    <2>2. pstate # "IDLE"
      BY <1>6, AddrStates
    <2>3. Longer(taken, rx, taken')
      <3>1. taken' = Append(taken, rx)
        BY <1>3, <1>6, <2>2
      <3>2. Longer(taken, rx, Append(taken, rx))
        BY <2>1, OneMoreByte
      <3> QED BY <3>1, <3>2, Zenon
    <2>4. TakeCmd(rx) \/ TakeAddr(rx) \/ TakeData(rx) \/ TakeCrc(rx)
      BY <1>1, <1>6, ParserBranch DEF WaitingState
    <2>5. Fields' /\ Arrived' /\ Summed'
      BY <2>1, <2>3, <2>4, CmdTaken, AddrTaken, DataTaken, CrcTaken
    <2> QED BY <1>2, <2>5 DEF Received
  <1>7. CASE /\ pstate \in WaitingState \cup {"VALIDATE", "ERROR"}
             /\ ~(pstate \in WaitingState /\ rx # NoByte)
    <2>1. taken' = taken
      BY <1>3, <1>7, AddrStates
    <2>2. CASE pstate \in WaitingState
      <3>1. AwaitByte(rx)
        BY <1>1, <1>7, <2>2, ParserBranch
      <3> QED BY <1>2, <1>7, <2>1, <2>2, <3>1, NoneTaken DEF AwaitByte, Received
    <2>3. CASE pstate = "VALIDATE"
      <3>1. Validate(frame_consumed)
        BY <1>1, <2>3, ParserBranch
      <3> QED BY <1>2, <1>7, <2>1, <2>3, <3>1, NoneTaken DEF Validate, Received
    <2>4. CASE pstate = "ERROR"
      <3>1. LeaveError(frame_consumed)
        BY <1>1, <2>4, ParserBranch
      <3> QED BY <1>2, <1>7, <2>1, <2>4, <3>1, NoneTaken DEF LeaveError, Received
    <2> QED BY <1>7, <2>2, <2>3, <2>4
  <1>8. CASE pstate = "POSTVTC"
    <2>1. pstate' = "IDLE"
      BY <1>1, <1>8, ParserBranch DEF SoftResetFsm
    <2>2. taken' = taken
      BY <1>3, <1>8, AddrStates
    <2>3. Fields' /\ Summed'
      BY <2>1, <2>2, AddrStates DEF Received, Fields, Summed
    <2>4. \A k \in 1..4 : pstate' # AddrState[k]
      BY <2>1, AddrStates
    <2>5. Arrived'
      BY <2>1, <2>4 DEF Arrived
    <2> QED BY <1>2, <2>3, <2>5 DEF Received
  <1> QED BY <1>4, <1>5, <1>6, <1>7, <1>8

(* Nothing has been received at reset.                                      *)
LEMMA ReceivedInit == Init => Received
  <1> SUFFICES ASSUME Init PROVE Received
    OBVIOUS
  <1>1. pstate = "IDLE" /\ main_state = "MAIN_IDLE" /\ taken = <<>>
    BY DEF Init, ParserInit, ControlInit
  <1>2. taken \in Seq(Byte)
    BY <1>1, EmptySeq
  <1> QED BY <1>1, <1>2, AddrStates DEF Received, Fields, Arrived, Summed, Captured

(* A step of the bridge is a clock edge with a byte offered, or none.       *)
LEMMA NextIsEdge ==
    ASSUME ~LateBytes, Types, Next
    PROVE  \E rx, full : Edge(rx, full)
  <1>1. PICK rx \in Line, full \in BOOLEAN : Clock(rx, full) /\ AxiMoves
    BY DEF Next, Busy, Answered, AxiMoves
  <1>2. rx \in Byte \cup {NoByte}
    BY <1>1, LineOffersBytes DEF Types
  <1>3. Step(rx, full) /\ Histories(rx, full)
    BY <1>1 DEF Clock, Step, Line
  <1> QED BY <1>2, <1>3 DEF Edge

(* The parser's verdict on a frame is the service's.                        *)
LEMMA WholeAtLast ==
    ASSUME Types, Received, pstate = "VALIDATE"
    PROVE  /\ Service!WholeFrame(taken) /\ taken[1] = current_cmd /\ taken[1] = cmd_reg
           /\ Service!CrcAgrees(taken) <=> received_crc = crc_reg
           /\ Got >= 2 /\ Got \in Nat /\ taken[1] \in Byte
  <1>1. /\ taken \in Seq(Byte) /\ Got \in Nat /\ Got >= 2 /\ Got = Service!FrameLen(taken[1])
        /\ received_crc = taken[Got] /\ crc_reg = CrcRun(taken)[Got - 1]
        /\ taken[1] = current_cmd /\ taken[1] = cmd_reg
    <2>1. taken \in Seq(Byte) /\ Got \in Nat
      BY LenProperties DEF Received, Fields, Got
    <2> QED BY <2>1 DEF Received, Fields, Arrived, Summed
  <1>2. Service!WholeFrame(taken)
    <2>1. taken # <<>>
      BY <1>1, EmptySeq DEF Got
    <2> QED BY <1>1, <2>1 DEF Service!WholeFrame, Got
  <1>3. Service!CrcAgrees(taken) <=> received_crc = crc_reg
    <2> DEFINE front == SubSeq(taken, 1, Got - 1)
    <2>1. Service!Last(taken) = taken[Got] /\ Service!Front(taken) = front
      BY DEF Service!Last, Service!Front, Got
    <2>2. /\ front \in Seq(Byte) /\ Len(front) = Got - 1
          /\ \A i \in 1..(Got - 1) : front[i] = taken[i]
      <3>1. Got - 1 \in Nat /\ Got - 1 <= Len(taken) /\ \A i \in 1..(Got - 1) : taken[i] \in Byte
        <4>1. \A i \in 1..(Got - 1) : i \in 1..Len(taken)
          BY <1>1 DEF Got
        <4> QED BY <1>1, <4>1, ElementOfSeq DEF Got
      <3>2. front = [i \in 1..(Got - 1) |-> taken[i]]
        BY <1>1, <3>1
      <3> QED BY <1>1, <3>1, <3>2
    <2> HIDE DEF front
    <2>3. CrcRun(front)[Got - 1] = CrcRun(taken)[Got - 1]
      BY <1>1, <2>2, CrcPrefix DEF Got
    <2>4. Service!CrcOf(front) = CrcRun(front)[Got - 1]
      BY <2>2, ServiceWords
    <2> QED BY <1>1, <2>1, <2>3, <2>4 DEF Service!CrcAgrees
  <1>4. taken[1] \in Byte
    <2>1. 1 \in 1..Got
      BY <1>1
    <2> QED BY <1>1, <2>1, ElementOfSeq DEF Got
  <1> QED BY <1>1, <1>2, <1>3, <1>4

(* The three comparisons of VALIDATE decide whether a frame is legal.       *)
LEMMA LegalWhen ==
    ASSUME Types, Received, pstate = "VALIDATE"
    PROVE  Service!LegalFrame(taken) <=>
               current_cmd # CMD_RESET /\ CmdValid(current_cmd) /\ received_crc = crc_reg
  <1>1. /\ Service!WholeFrame(taken) /\ taken[1] = current_cmd
        /\ Service!CrcAgrees(taken) <=> received_crc = crc_reg
    BY WholeAtLast
  <1>2. Service!CmdValid(taken[1]) <=> CmdValid(current_cmd)
    BY <1>1, ServiceWords
  <1>3. Service!CMD_RESET = CMD_RESET
    BY ServiceWords
  <1> QED BY <1>1, <1>2, <1>3 DEF Service!LegalFrame

(* While the AXI master works, its ports carry one whole legal frame.       *)
LEMMA PortsCarryTheFrame == Handshake /\ Types /\ Received => AxiSeesTheFrame
  <1> SUFFICES ASSUME Handshake, Types, Received, main_state = "MAIN_AXI_TRANSACTION"
               PROVE  /\ Service!LegalFrame(taken)
                      /\ captured_cmd = taken[1]
                      /\ captured_addr = SubSeq(taken, 2, 5)
                      /\ ~IsRead(captured_cmd) => data_reg = SubSeq(taken, 6, Len(taken) - 1)
    BY DEF AxiSeesTheFrame
  <1>1. /\ pstate = "VALIDATE" /\ current_cmd # CMD_RESET /\ CmdValid(current_cmd)
        /\ received_crc = crc_reg
    BY DEF Handshake, ControlPlace, ParserPlace
  <1>2. /\ taken[1] = cmd_reg /\ taken[1] = current_cmd /\ Got \in Nat /\ taken[1] \in Byte
        /\ captured_cmd = cmd_reg /\ captured_addr = addr_reg
        /\ Got = Service!FrameLen(taken[1]) /\ Len(data_reg) = PayloadBytes(taken[1])
        /\ \A j \in 1..4 : Got >= j + 1 => addr_reg[j] = taken[j + 1]
        /\ \A k \in 1..Len(data_reg) : data_reg[k] = taken[k + 5]
        /\ taken \in Seq(Byte)
    BY <1>1, WholeAtLast DEF Received, Captured, Fields, Arrived
  <1>3. Got = 6 + Len(data_reg) /\ Len(data_reg) \in Nat
    BY <1>1, <1>2, FrameLength
  <1>4. captured_addr = SubSeq(taken, 2, 5)
    <2>1. addr_reg \in Seq(Byte) /\ Len(addr_reg) = 4
      BY AddressIsSeq DEF Types, ParserTypeOK
    <2>2. \A i \in 1..Len(addr_reg) : addr_reg[i] = taken[1 + i]
      BY <1>2, <1>3, <2>1
    <2>3. SubSeq(taken, 1 + 1, 1 + Len(addr_reg)) = addr_reg
      <3>1. 1 + Len(addr_reg) <= Len(taken)
        BY <1>3, <2>1 DEF Got
      <3> QED BY <1>2, <2>1, <2>2, <3>1, PartIs
    <2>4. 1 + 1 = 2 /\ 1 + Len(addr_reg) = 5
      BY <2>1
    <2> QED BY <1>2, <2>3, <2>4
  <1>5. data_reg = SubSeq(taken, 6, Len(taken) - 1)
    <2>1. data_reg \in Seq(Byte)
      BY DEF Types, ParserTypeOK
    <2>2. \A i \in 1..Len(data_reg) : data_reg[i] = taken[5 + i]
      BY <1>2, <1>3
    <2>3. 5 + Len(data_reg) <= Len(taken) /\ 1 + 5 = 6 /\ 5 + Len(data_reg) = Len(taken) - 1
      BY <1>3 DEF Got
    <2>4. SubSeq(taken, 1 + 5, 5 + Len(data_reg)) = data_reg
      BY <1>2, <2>1, <2>2, <2>3, PartIs
    <2> QED BY <2>3, <2>4
  <1>6. Service!LegalFrame(taken)
    BY <1>1, LegalWhen
  <1> QED BY <1>2, <1>4, <1>5, <1>6

(* The registers of the parser hold the frame in every reachable state.     *)
LEMMA ReceivedHolds == ASSUME ~LateBytes PROVE Spec => [](Handshake /\ Types /\ Received)
  <1>1. Init => Handshake /\ Types /\ Received
    BY HandshakeInit, TypesInit, ReceivedInit
  <1>2. Handshake /\ Types /\ Received /\ [Next]_vars => (Handshake /\ Types /\ Received)'
    <2> SUFFICES ASSUME Handshake, Types, Received, [Next]_vars
                 PROVE  Handshake' /\ Types' /\ Received'
      OBVIOUS
    <2>1. Handshake' /\ Types'
      BY HandshakeStep, TypesStep
    <2>2. CASE Next
      BY <2>1, <2>2, NextIsEdge, ReceivedStep
    <2>3. CASE UNCHANGED vars
      BY <2>1, <2>3 DEF vars, parserVars, fsmVars, controlVars, Received, Fields, Arrived, Summed,
         Captured, Got
    <2> QED BY <2>2, <2>3
  <1> QED BY <1>1, <1>2, PTL DEF Spec

(* Uart_Axi4_Bridge: the command, address and write data the AXI master     *)
(* works on are those of one whole frame that passed its CRC.               *)
THEOREM AxiWorksOnTheFrame == ASSUME ~LateBytes PROVE Spec => []AxiSeesTheFrame
  <1>1. Handshake /\ Types /\ Received => AxiSeesTheFrame
    BY PortsCarryTheFrame
  <1> QED BY <1>1, ReceivedHolds, PTL

-----------------------------------------------------------------------------
(* The control state machine's moves, one per state.                        *)
LEMMA MainMoves ==
    ASSUME Handshake, NEW rx, NEW full, Step(rx, full)
    PROVE  /\ soft_reset => ControlSoftReset
           /\ ~soft_reset => Capture(axi_done, axi_status, axi_read_data)
           /\ ~soft_reset /\ main_state = "MAIN_IDLE" =>
                 main_state' = IF frame_valid THEN "MAIN_AXI_TRANSACTION"
                               ELSE IF frame_error THEN "MAIN_BUILD_RESPONSE" ELSE "MAIN_IDLE"
           /\ main_state = "MAIN_AXI_TRANSACTION" =>
                 main_state' = IF axi_done THEN "MAIN_BUILD_RESPONSE" ELSE "MAIN_AXI_TRANSACTION"
           /\ ~soft_reset /\ main_state = "MAIN_BUILD_RESPONSE" =>
                 main_state' = "MAIN_WAIT_RESPONSE"
           /\ main_state = "MAIN_WAIT_RESPONSE" =>
                 main_state' = IF response_complete THEN "MAIN_IDLE" ELSE "MAIN_WAIT_RESPONSE"
           /\ soft_reset => main_state' = "MAIN_IDLE"
  <1>1. \/ soft_reset /\ ControlSoftReset
        \/ /\ ~soft_reset /\ Capture(axi_done, axi_status, axi_read_data)
           /\ MainIdle \/ MainAxiTransaction(axi_done) \/ MainBuildResponse \/ MainWaitResponse
    BY DEF Step, ControlClock
  <1>2. /\ main_state \in {"MAIN_AXI_TRANSACTION", "MAIN_WAIT_RESPONSE"} => ~soft_reset
        /\ main_state = "MAIN_BUILD_RESPONSE" => ~builder_busy
    BY DEF Handshake, ParserPlace, ControlPlace, BuilderPlace, builder_busy, Quiet, WaitingState
  <1> QED BY <1>1, <1>2 DEF ControlSoftReset, MainIdle, MainAxiTransaction, MainBuildResponse,
             MainWaitResponse

(* What the bridge will say of the frame, if it says no.                    *)
Verdict == IF ~CmdValid(current_cmd) THEN STATUS_CMD_INV
           ELSE IF received_crc # crc_reg THEN STATUS_CRC_ERR ELSE STATUS_OK

(* In VALIDATE the error register first shows the CRC comparison alone; in  *)
(* the next cycle, the first in which a response may be built, the verdict. *)
Judged ==
    /\ pstate = "ERROR" => error_status = STATUS_TIMEOUT
    /\ pstate = "VALIDATE" =>
         \/ error_status = Verdict
         \/ /\ main_state = "MAIN_IDLE"
            /\ error_status = IF received_crc = crc_reg THEN STATUS_OK ELSE STATUS_CRC_ERR

(* The verdict is reached in one cycle, and stands.                         *)
LEMMA JudgedStep ==
    ASSUME Handshake, Judged, NEW rx, NEW full, Step(rx, full)
    PROVE  /\ Judged'
           /\ pstate = "VALIDATE" => error_status' = Verdict /\ Verdict' = Verdict
  <1>1. ErrorStatus(rx) /\ (timeout_occurred => rx = NoByte)
    BY DEF Step, ParserClock
  <1>2. /\ soft_reset <=> pstate = "POSTVTC"
        /\ pstate \in WaitingState \cup {"IDLE", "VALIDATE", "ERROR", "POSTVTC"}
        /\ timeout_occurred => pstate \in WaitingState \cup {"ERROR"}
    BY DEF Handshake, ParserPlace, ParserState
  <1>3. CASE pstate = "VALIDATE"
    <2>1. error_status' = Verdict
      BY <1>1, <1>2, <1>3, AddrStates DEF ErrorStatus, Verdict
    <2>2. Validate(frame_consumed)
      BY <1>3, ParserBranch
    <2>3. Verdict' = Verdict
      BY <2>2 DEF Validate, Verdict, CmdValid, SizeField
    <2>4. pstate' # "ERROR"
      BY <2>2 DEF Validate
    <2> QED BY <2>1, <2>3, <2>4, <1>3 DEF Judged
  <1>4. CASE pstate = "ERROR"
    <2>1. error_status' = STATUS_TIMEOUT
      BY <1>1, <1>2, <1>4 DEF ErrorStatus, Judged
    <2>2. pstate' \in {"IDLE", "ERROR"}
      BY <1>4, ParserMoves
    <2> QED BY <1>4, <2>1, <2>2 DEF Judged
  <1>5. CASE pstate \in {"IDLE", "POSTVTC"}
    <2>1. pstate' \in {"IDLE", "CMD"}
      BY <1>5, ParserMoves
    <2> QED BY <1>5, <2>1 DEF Judged
  <1>6. CASE pstate \in WaitingState
    <2>1. /\ pstate # "VALIDATE" /\ pstate # "ERROR" /\ pstate # "IDLE" /\ ~soft_reset
      BY <1>2, <1>6, AddrStates
    <2>2. pstate' = "ERROR" => error_status' = STATUS_TIMEOUT
      BY <1>1, <1>6, <2>1, ParserMoves DEF ErrorStatus
    <2>3. ASSUME pstate' = "VALIDATE"
          PROVE  /\ main_state' = "MAIN_IDLE"
                 /\ error_status' = IF received_crc' = crc_reg' THEN STATUS_OK ELSE STATUS_CRC_ERR
      <3>1. rx # NoByte /\ ~timeout_occurred
        BY <1>1, <1>6, <2>3, ParserMoves
      <3>2. TakeCrc(rx)
        BY <1>6, <2>3, <3>1, ParserBranch, AddrStates DEF TakeCmd, TakeAddr, TakeData
      <3>3. main_state = "MAIN_IDLE" /\ ~frame_valid /\ ~frame_error
        BY <1>6, <2>1, <3>1 DEF Handshake, ControlPlace, Quiet, frame_valid, frame_error
      <3>4. main_state' = "MAIN_IDLE"
        BY <2>1, <3>3, MainMoves
      <3>5. /\ received_crc' = rx /\ crc_reg' = crc_reg
            /\ error_status' = IF rx = crc_reg THEN STATUS_OK ELSE STATUS_CRC_ERR
        BY <1>1, <2>1, <3>1, <3>2 DEF TakeCrc, ErrorStatus
      <3> QED BY <3>4, <3>5
    <2> QED BY <2>1, <2>2, <2>3 DEF Judged
  <1> QED BY <1>2, <1>3, <1>4, <1>5, <1>6

(* The environment's promise on RESET frames: once begun, they come whole.  *)
ResetComesWhole(rx) ==
    rx = NoByte => ~(/\ pstate = "CRC_RX" /\ current_cmd = CMD_RESET
                     /\ timeout_counter >= TimeoutLimit)

(* A RESET command is only ever seen on its way to the soft reset.          *)
ResetPlace ==
    /\ pstate = "CRC_RX" /\ current_cmd = CMD_RESET => ~timeout_occurred
    /\ cmd_reg = CMD_RESET => pstate \in {"CRC_RX", "VALIDATE", "POSTVTC"}

(* A RESET command never meets a timeout if its frame comes whole.          *)
LEMMA ResetStep ==
    ASSUME Handshake, Received, ResetPlace, NEW rx, NEW full, Step(rx, full), ResetComesWhole(rx)
    PROVE  ResetPlace'
  <1>1. /\ TimeoutMonitor(rx)
        /\ timeout_occurred => pstate \in WaitingState \cup {"ERROR"}
        /\ pstate \in WaitingState \cup {"IDLE", "VALIDATE", "ERROR", "POSTVTC"}
    BY DEF Step, ParserClock, Handshake, ParserPlace, ParserState
  <1>2. /\ pstate \in {"CRC_RX", "VALIDATE"} => cmd_reg = current_cmd
        /\ pstate = "CRC_RX" => cmd_reg # CMD_RESET \/ ~timeout_occurred
    <2>1. pstate \in {"CRC_RX", "VALIDATE"} => Got >= 1
      BY LenProperties DEF Received, Fields, Arrived, Got
    <2> QED BY <2>1, AddrStates DEF Received, Fields, ResetPlace
  <1>3. CASE pstate \in WaitingState /\ rx # NoByte
    <2>1. ~timeout_occurred'
      BY <1>1, <1>3 DEF TimeoutMonitor
    <2>2. TakeCmd(rx) \/ TakeAddr(rx) \/ TakeData(rx) \/ TakeCrc(rx)
      BY <1>3, ParserBranch DEF WaitingState
    <2>3. CASE TakeCmd(rx)
      BY <2>1, <2>3 DEF TakeCmd, ResetPlace
    <2>4. CASE TakeAddr(rx) \/ TakeData(rx)
      <3>1. cmd_reg' = cmd_reg /\ pstate \notin {"CRC_RX", "VALIDATE", "POSTVTC"}
        BY <2>4, AddrStates DEF TakeAddr, TakeData
      <3> QED BY <2>1, <3>1 DEF ResetPlace
    <2>5. CASE TakeCrc(rx)
      BY <2>1, <2>5 DEF TakeCrc, ResetPlace
    <2> QED BY <2>2, <2>3, <2>4, <2>5
  <1>4. CASE pstate \in WaitingState /\ rx = NoByte
    <2>1. AwaitByte(rx)
      BY <1>4, ParserBranch
    <2>2. /\ cmd_reg' = cmd_reg /\ current_cmd' = current_cmd
          /\ pstate' = IF timeout_occurred THEN "ERROR" ELSE pstate
      BY <2>1 DEF AwaitByte
    <2>3. pstate' = "CRC_RX" /\ current_cmd' = CMD_RESET => ~timeout_occurred'
      <3> SUFFICES ASSUME pstate' = "CRC_RX", current_cmd' = CMD_RESET PROVE ~timeout_occurred'
        OBVIOUS
      <3>1. pstate = "CRC_RX" /\ current_cmd = CMD_RESET /\ ~timeout_occurred
        BY <2>2 DEF ResetPlace
      <3>2. ~(timeout_counter >= TimeoutLimit)
        BY <1>4, <3>1 DEF ResetComesWhole
      <3> QED BY <1>1, <3>1, <3>2 DEF TimeoutMonitor
    <2>4. cmd_reg' = CMD_RESET => pstate' = "CRC_RX"
      <3> SUFFICES ASSUME cmd_reg = CMD_RESET PROVE pstate' = "CRC_RX"
        BY <2>2
      <3>1. pstate = "CRC_RX"
        BY <1>4, AddrStates DEF ResetPlace
      <3> QED BY <1>2, <2>2, <3>1
    <2> QED BY <2>3, <2>4 DEF ResetPlace
  <1>5. CASE pstate \in {"IDLE", "ERROR"}
    <2>1. cmd_reg' = cmd_reg /\ cmd_reg # CMD_RESET /\ pstate' # "CRC_RX"
      BY <1>5, ParserBranch DEF HuntSof, LeaveError, ResetPlace
    <2> QED BY <2>1 DEF ResetPlace
  <1>6. CASE pstate = "VALIDATE"
    <2>1. /\ cmd_reg' = cmd_reg /\ pstate' # "CRC_RX"
          /\ current_cmd = CMD_RESET => pstate' = "POSTVTC"
      BY <1>6, ParserBranch DEF Validate
    <2> QED BY <1>2, <1>6, <2>1 DEF ResetPlace
  <1>7. CASE pstate = "POSTVTC"
    <2>1. cmd_reg' = 0 /\ pstate' = "IDLE"
      BY <1>7, ParserBranch DEF SoftResetFsm
    <2> QED BY <2>1 DEF ResetPlace, CMD_RESET
  <1> QED BY <1>1, <1>3, <1>4, <1>5, <1>6, <1>7

(* What the AXI master reports is the outcome of the command captured.      *)
AxiOutcome ==
    /\ axi_transaction_done_prev => main_state = "MAIN_BUILD_RESPONSE"
    /\ axi_busy \/ axi_done => axi_cmd = captured_cmd
    /\ axi_done => /\ axi_status \notin {STATUS_CRC_ERR, STATUS_CMD_INV}
                   /\ IsRead(axi_cmd) /\ axi_status = STATUS_OK =>
                         Len(axi_read_data) = BytesAsked(axi_cmd)
                   /\ ~IsRead(axi_cmd) => axi_read_data = <<>>

(* The AXI master's outcome stays that of the command captured.             *)
LEMMA AxiOutcomeStep ==
    ASSUME Handshake, Types, Received, AxiOutcome, NEW rx, NEW full, Step(rx, full)
    PROVE  AxiOutcome'
  <1>1. AxiPlace /\ AxiMoves /\ AxiTypeOK
    BY DEF Handshake, Step, Types
  <1>2. axi_transaction_done_prev' => main_state' = "MAIN_BUILD_RESPONSE"
    <2> SUFFICES ASSUME axi_transaction_done_prev' PROVE main_state' = "MAIN_BUILD_RESPONSE"
      OBVIOUS
    <2>1. axi_done
      BY MainMoves DEF ControlSoftReset, Capture
    <2> QED BY <1>1, <2>1, MainMoves DEF AxiPlace
  <1>3. main_state = "MAIN_AXI_TRANSACTION" => captured_cmd' = captured_cmd
    <2>1. main_state = "MAIN_AXI_TRANSACTION" => frame_valid /\ ~soft_reset
      BY DEF Handshake, ControlPlace, ParserPlace, frame_valid
    <2> QED BY <2>1, MainMoves DEF Capture, Received, Captured
  <1>4. CASE AxiStart(axi_start_transaction, captured_cmd)
    <2>1. main_state = "MAIN_AXI_TRANSACTION" /\ axi_cmd' = captured_cmd /\ ~axi_done'
      BY <1>4 DEF AxiStart, axi_start_transaction
    <2> QED BY <1>2, <1>3, <2>1 DEF AxiOutcome
  <1>5. CASE AxiIdle(axi_start_transaction)
    <2>1. axi_busy' = axi_busy /\ axi_cmd' = axi_cmd /\ ~axi_done'
      BY <1>5 DEF AxiIdle
    <2> QED BY <1>1, <1>2, <1>3, <2>1 DEF AxiOutcome, AxiPlace
  <1>6. CASE AxiFinish
    <2>1. /\ axi_busy /\ axi_status' \in AxiStatuses /\ axi_cmd' = axi_cmd
          /\ IsRead(axi_cmd) /\ axi_status' = STATUS_OK =>
                axi_read_data' \in AxiPayloads(BytesAsked(axi_cmd))
          /\ ~IsRead(axi_cmd) => axi_read_data' = <<>>
      BY <1>6 DEF AxiFinish
    <2>2. axi_cmd = captured_cmd /\ captured_cmd' = captured_cmd
      BY <1>1, <1>3, <2>1 DEF AxiOutcome, AxiPlace
    <2>3. axi_status' \notin {STATUS_CRC_ERR, STATUS_CMD_INV}
      BY <2>1, AxiStatusesAreStatuses
    <2>4. ASSUME axi_read_data' \in AxiPayloads(BytesAsked(axi_cmd))
          PROVE  Len(axi_read_data') = BytesAsked(axi_cmd)
      <3>1. BytesAsked(axi_cmd) \in 0..64 /\ axi_read_data' \in Seq(Byte)
        BY <1>1, PayloadFits, PortWidths DEF AxiTypeOK, Step
      <3>2. axi_read_data' \in [1..BytesAsked(axi_cmd) -> Byte]
        BY <2>4, <3>1, AxiPayloadsAreBytes
      <3>3. \A m \in 0..64 : m \in Nat
        OBVIOUS
      <3>4. BytesAsked(axi_cmd) \in Nat
        BY <3>1, <3>3, Zenon
      <3> QED BY <3>1, <3>2, <3>4, LenProperties
    <2>5. IsRead(axi_cmd') <=> IsRead(axi_cmd)
      BY <2>1, Zenon
    <2>6. BytesAsked(axi_cmd') = BytesAsked(axi_cmd)
      BY <2>1, Zenon
    <2> QED BY <1>2, <2>1, <2>2, <2>3, <2>4, <2>5, <2>6 DEF AxiOutcome
  <1> QED BY <1>1, <1>4, <1>5, <1>6 DEF AxiMoves

-----------------------------------------------------------------------------
(* A response that tells the true outcome o of frame f.  Of a frame cut     *)
(* right after its marker no command is known.                              *)
Truthful(status, cmd, addr, data, f, o) ==
    /\ status = o.status /\ status \in Status
    /\ cmd # CMD_RESET
    /\ IF Len(f) = 0 THEN status = STATUS_TIMEOUT ELSE cmd = f[1]
    /\ IsRead(cmd) /\ status = STATUS_OK =>
           Len(f) >= 5 /\ data = o.data /\ \A j \in 1..4 : addr[j] = f[j + 1]

(* The frame a job is refused for, and why.                                 *)
LEMMA Refused ==
    ASSUME Handshake, Types, Received, Judged, ResetPlace, NEW rx, NEW full, Edge(rx, full),
           main_state = "MAIN_IDLE", ~soft_reset, frame_error, ~frame_valid
    PROVE  /\ ~Service!LegalFrame(taken) /\ taken' = taken
           /\ result' = [status |-> Service!Refusal(taken), data |-> <<>>]
           /\ ~soft_reset' =>
                 /\ frame_error' /\ error_status' = Service!Refusal(taken)
                 /\ error_status' # STATUS_OK
                 /\ captured_cmd' = cmd_reg /\ cmd_reg # CMD_RESET
                 /\ IF Got = 0 THEN error_status' = STATUS_TIMEOUT ELSE cmd_reg = taken[1]
  <1>1. Step(rx, full) /\ Histories(rx, full) /\ Capture(axi_done, axi_status, axi_read_data)
    BY MainMoves DEF Edge
  <1>2. captured_cmd' = cmd_reg
    BY <1>1 DEF Capture
  <1>3. /\ \/ pstate \in WaitingState /\ timeout_occurred
           \/ pstate = "VALIDATE" /\ error_status # STATUS_OK
        /\ ~axi_done
    <2>1. pstate # "ERROR" /\ ~axi_done
      BY DEF Handshake, ControlPlace, AxiPlace
    <2>2. timeout_occurred => pstate \in WaitingState
      BY <2>1, Zenon DEF Handshake, ParserPlace
    <2>3. timeout_occurred \/ (pstate = "VALIDATE" /\ error_status # STATUS_OK)
      BY <2>1 DEF frame_error
    <2> QED BY <2>1, <2>2, <2>3
  <1>4. /\ pstate # "IDLE" /\ taken \in Seq(Byte) /\ Got \in Nat
        /\ taken = <<>> => Got = 0
    BY <1>3, AddrStates, LenProperties, EmptySeq DEF Received, Fields, Got
  <1>5. taken' = taken
    <2>1. ~Pops(rx)
      <3>1. pstate \in WaitingState => rx = NoByte
        BY <1>1, <1>3, AddrStates DEF Step
      <3> QED BY <1>3, <3>1, AddrStates DEF Pops
    <2> QED BY <1>1, <1>4, <2>1 DEF Histories
  <1>6. result' = [status |-> Service!Refusal(taken), data |-> <<>>]
    <2>1. result' = [status |-> Service!Refusal(taken'), data |-> <<>>]
      BY <1>1, <1>3 DEF Histories
    <2> QED BY <1>5, <2>1, Zenon
  <1>7. CASE pstate \in WaitingState /\ timeout_occurred
    <2>1. ~Service!WholeFrame(taken)
      <3>1. Got # 0 => Got < Service!FrameLen(taken[1]) /\ Service!FrameLen(taken[1]) \in Nat
        <4> SUFFICES ASSUME Got # 0
                     PROVE  Got < Service!FrameLen(taken[1]) /\ Service!FrameLen(taken[1]) \in Nat
          OBVIOUS
        <4>1. 1 \in 1..Got
          BY <1>4
        <4>2. taken[1] \in Byte
          BY <1>4, <4>1, ElementOfSeq DEF Got
        <4> QED BY <1>7, <4>2, NotYetWhole, FrameLength
      <3>2. taken # <<>> => Got # 0
        BY <1>4, EmptySeq DEF Got
      <3> DEFINE L == Service!FrameLen(taken[1])
      <3>3. Got # 0 => Got < L /\ L \in Nat
        BY <3>1
      <3> HIDE DEF L
      <3>4. Got # 0 => Got # L
        BY <1>4, <3>3
      <3> QED BY <3>2, <3>4 DEF Service!WholeFrame, L, Got
    <2>2. ~Service!LegalFrame(taken)
      BY <2>1 DEF Service!LegalFrame
    <2>3. Service!Refusal(taken) = STATUS_TIMEOUT
      BY <2>1, ServiceWords DEF Service!Refusal
    <2>4. error_status' = STATUS_TIMEOUT /\ pstate' = "ERROR"
      <3>1. ErrorStatus(rx) /\ pstate # "ERROR"
        BY <1>1, <1>7, AddrStates DEF Step, ParserClock
      <3> QED BY <1>1, <1>4, <1>7, <3>1, ParserMoves DEF ErrorStatus
    <2>5. frame_error'
      BY <2>4 DEF frame_error
    <2>6. cmd_reg # CMD_RESET /\ (Got # 0 => cmd_reg = taken[1])
      <3>1. Got # 0 => cmd_reg = taken[1] /\ cmd_reg = current_cmd
        BY <1>4, <1>7 DEF Received, Fields
      <3>2. pstate = "CRC_RX" => Got # 0
        BY <1>4 DEF Received, Arrived
      <3>3. pstate = "CRC_RX" => cmd_reg # CMD_RESET
        BY <1>7, <3>1, <3>2 DEF ResetPlace
      <3> QED BY <1>7, <3>1, <3>3, AddrStates DEF ResetPlace
    <2>7. STATUS_TIMEOUT # STATUS_OK
      BY DEF STATUS_TIMEOUT, STATUS_OK
    <2> QED BY <1>2, <1>5, <1>6, <2>2, <2>3, <2>4, <2>5, <2>6, <2>7
  <1>8. CASE pstate = "VALIDATE" /\ error_status # STATUS_OK
    <2>1. /\ ~CmdValid(current_cmd) \/ received_crc # crc_reg
          /\ Verdict # STATUS_OK
      BY <1>8 DEF Judged, Verdict, STATUS_OK, STATUS_CMD_INV, STATUS_CRC_ERR
    <2>2. ~Service!LegalFrame(taken)
      BY <1>8, <2>1, LegalWhen
    <2>3. Service!Refusal(taken) = Verdict
      <3>1. Service!WholeFrame(taken) /\ taken[1] = current_cmd
        BY <1>8, WholeAtLast
      <3>2. Service!CmdValid(taken[1]) <=> CmdValid(current_cmd)
        BY <3>1, ServiceWords
      <3> QED BY <2>1, <3>1, <3>2, ServiceWords DEF Service!Refusal, Verdict
    <2>4. error_status' = Verdict
      BY <1>1, <1>8, JudgedStep
    <2>5. ASSUME ~soft_reset'
          PROVE  frame_error' /\ cmd_reg # CMD_RESET
      <3>1. current_cmd # CMD_RESET
        <4>1. SoftResetPulse /\ ~soft_reset_reg
          BY <1>1, <1>8 DEF Step, ParserClock, Handshake, ParserPlace
        <4> QED BY <1>8, <2>5, <4>1 DEF SoftResetPulse
      <3>2. pstate' = "VALIDATE"
        BY <1>1, <1>8, <3>1, ParserMoves DEF frame_consumed
      <3>3. frame_error'
        BY <2>1, <2>4, <3>2 DEF frame_error
      <3> QED BY <1>8, <3>1, <3>3, WholeAtLast
    <2>6. Got # 0 /\ cmd_reg = taken[1]
      BY <1>4, <1>8, WholeAtLast
    <2> QED BY <1>2, <1>5, <1>6, <2>1, <2>2, <2>3, <2>4, <2>5, <2>6
  <1> QED BY <1>3, <1>7, <1>8

(* The frame a job is accepted for.                                         *)
LEMMA Accepted ==
    ASSUME Handshake, Types, Received, NEW rx, NEW full, Edge(rx, full),
           main_state = "MAIN_IDLE", ~soft_reset, frame_valid
    PROVE  Service!LegalFrame(taken) /\ taken' = taken /\ result' = NoResult /\ ~soft_reset'
  <1>1. /\ pstate = "VALIDATE" /\ current_cmd # CMD_RESET /\ CmdValid(current_cmd)
        /\ received_crc = crc_reg /\ ~axi_done
    BY DEF Handshake, ParserPlace, AxiPlace, frame_valid
  <1>2. Service!LegalFrame(taken)
    BY <1>1, LegalWhen
  <1>3. Histories(rx, full) /\ SoftResetPulse
    BY DEF Edge, Step, ParserClock
  <1>4. taken' = taken /\ result' = NoResult
    BY <1>1, <1>3, AddrStates DEF Histories, Pops
  <1>5. ~soft_reset'
    BY <1>1, <1>3 DEF SoftResetPulse
  <1> QED BY <1>2, <1>4, <1>5

(* While a frame is served, nothing of it changes.                          *)
LEMMA Served ==
    ASSUME Handshake, NEW rx, NEW full, Edge(rx, full), main_state # "MAIN_IDLE", ~soft_reset
    PROVE  /\ taken' = taken /\ ~soft_reset'
           /\ main_state # "MAIN_AXI_TRANSACTION" => result' = result /\ ~axi_done
           /\ ~axi_done => result' = result
  <1>1. /\ pstate \in {"VALIDATE", "ERROR"} /\ (pstate = "VALIDATE" => current_cmd # CMD_RESET)
        /\ main_state # "MAIN_AXI_TRANSACTION" => ~axi_done
    BY DEF Handshake, ParserPlace, ControlPlace, AxiPlace, ParserState, Quiet
  <1>2. Histories(rx, full) /\ SoftResetPulse
    BY DEF Edge, Step, ParserClock
  <1>3. taken' = taken
    BY <1>1, <1>2, AddrStates DEF Histories, Pops
  <1>4. ~soft_reset'
    BY <1>1, <1>2 DEF SoftResetPulse
  <1>5. ~axi_done => result' = result
    BY <1>2 DEF Histories
  <1> QED BY <1>1, <1>3, <1>4, <1>5
-----------------------------------------------------------------------------
(* What the builder would be asked to send in this cycle.                   *)
Asked == BuildRequest(axi_status, axi_read_data)

AskedTruly == Truthful(Asked.status, Asked.cmd, Asked.addr, Asked.data, taken, result)
SentTruly  == Truthful(status_reg, cmd_echo_reg, addr_echo_reg, resp_data, taken, result)

(* What is asked of the builder, and what it then sends, is the truth about *)
(* the frame at hand; the reply ends as control goes back to idle.          *)
Promised ==
    /\ main_state = "MAIN_BUILD_RESPONSE" /\ ~soft_reset => AskedTruly
    /\ bstate \notin {"BIDLE", "BGAP"} => main_state = "MAIN_WAIT_RESPONSE" /\ SentTruly
    /\ bstate = "BGAP" => main_state = "MAIN_IDLE"

(* The refusal of a frame is what is asked for in the next cycle.           *)
LEMMA RefusalIsAsked ==
    ASSUME Handshake, Types, Received, Judged, ResetPlace, NEW rx, NEW full, Edge(rx, full),
           main_state = "MAIN_IDLE", ~soft_reset, frame_error, ~frame_valid, ~soft_reset'
    PROVE  AskedTruly'
  <1>1. /\ taken' = taken
        /\ result' = [status |-> Service!Refusal(taken), data |-> <<>>]
        /\ frame_error' /\ error_status' = Service!Refusal(taken) /\ error_status' # STATUS_OK
        /\ captured_cmd' = cmd_reg /\ cmd_reg # CMD_RESET
        /\ IF Got = 0 THEN error_status' = STATUS_TIMEOUT ELSE cmd_reg = taken[1]
    BY Refused
  <1>2. Asked' = [status |-> error_status', cmd |-> captured_cmd', addr |-> captured_addr',
                  data |-> <<>>]
    BY <1>1 DEF Asked, BuildRequest
  <1>3. Service!Refusal(taken) \in Status
    BY ServiceWords DEF Service!Refusal, Status, STATUS_TIMEOUT, STATUS_CMD_INV, STATUS_CRC_ERR
  <1>4. Asked'.status = error_status' /\ Asked'.cmd = cmd_reg
    BY <1>1, <1>2
  <1>5. result'.status = error_status'
    BY <1>1
  <1>6. Truthful(error_status', cmd_reg, Asked'.addr, Asked'.data, taken, result')
    BY <1>1, <1>3, <1>5 DEF Truthful, Got
  <1>7. Truthful(Asked'.status, Asked'.cmd, Asked'.addr, Asked'.data, taken', result')
    BY <1>1, <1>4, <1>6, Zenon
  <1> QED BY <1>7 DEF AskedTruly

(* The outcome of a transaction is what is asked for in the next cycle.     *)
LEMMA OutcomeIsAsked ==
    ASSUME Handshake, Types, Received, AxiOutcome, NEW rx, NEW full, Edge(rx, full), axi_done
    PROVE  /\ AskedTruly'
           /\ result' = [status |-> axi_status,
                         data |-> IF axi_status = STATUS_OK THEN axi_read_data ELSE <<>>]
  <1>1. /\ main_state = "MAIN_AXI_TRANSACTION" /\ ~axi_busy /\ axi_start_issued
        /\ pstate = "VALIDATE" /\ frame_valid /\ ~soft_reset /\ frame_valid_hold
        /\ current_cmd # CMD_RESET /\ CmdValid(current_cmd) /\ received_crc = crc_reg
        /\ ~axi_transaction_done_prev
    BY DEF Handshake, ControlPlace, ParserPlace, AxiPlace, AxiOutcome, frame_valid
  <1>2. /\ Step(rx, full) /\ Histories(rx, full) /\ taken' = taken
        /\ Capture(axi_done, axi_status, axi_read_data)
    BY <1>1, Served, MainMoves DEF Edge
  <1>3. ~frame_error'
    <2>1. pstate' = "VALIDATE"
      BY <1>1, <1>2, ParserMoves DEF frame_consumed
    <2>2. error_status' = STATUS_OK
      <3>1. ErrorStatus(rx) /\ ~timeout_occurred
        BY <1>1, <1>2, AddrStates DEF Step, ParserClock, Handshake, ParserPlace
      <3> QED BY <1>1, <3>1 DEF ErrorStatus
    <2>3. ~timeout_occurred'
      BY <1>2, <2>1, ParserStep, AddrStates DEF ParserPlace
    <2> QED BY <2>1, <2>2, <2>3 DEF frame_error
  <1>4. axi_status' = axi_status /\ axi_read_data' = axi_read_data
    BY <1>1, <1>2 DEF Step, AxiMoves, AxiStart, AxiIdle, AxiFinish, axi_start_transaction
  <1>5. captured_cmd' = cmd_reg /\ captured_addr' = addr_reg /\ captured_cmd = cmd_reg
    BY <1>1, <1>2 DEF Capture, Received, Captured
  <1> DEFINE reads == IsRead(cmd_reg) /\ axi_status = STATUS_OK
  <1>6. captured_read_data_count' = IF reads THEN Len(axi_read_data) ELSE 0
    BY <1>1, <1>2, <1>5 DEF Capture
  <1>7. IsRead(captured_cmd') <=> IsRead(cmd_reg)
    BY <1>5, Zenon
  <1>8. Asked' = [status |-> axi_status, cmd |-> cmd_reg, addr |-> addr_reg,
                  data |-> IF reads
                           THEN SubSeq(axi_read_data, 1, captured_read_data_count') ELSE <<>>]
    BY <1>3, <1>4, <1>5, <1>7 DEF Asked, BuildRequest
  <1>9. result' = [status |-> axi_status,
                   data |-> IF axi_status = STATUS_OK THEN axi_read_data ELSE <<>>]
    BY <1>2 DEF Histories
  <1>10. reads => Asked'.data = axi_read_data /\ result'.data = axi_read_data
    <2>1. axi_read_data \in Seq(Byte)
      BY DEF Types, AxiTypeOK
    <2>2. SubSeq(axi_read_data, 1, Len(axi_read_data)) = axi_read_data
      BY <2>1
    <2> QED BY <1>6, <1>8, <1>9, <2>2
  <1>11. /\ taken[1] = cmd_reg /\ cmd_reg # CMD_RESET /\ Len(taken) \in Nat /\ Len(taken) >= 6
         /\ \A j \in 1..4 : addr_reg[j] = taken[j + 1]
    <2>1. taken[1] = cmd_reg /\ taken[1] = current_cmd /\ Got \in Nat /\ taken[1] \in Byte
      BY <1>1, WholeAtLast
    <2>2. Got = Service!FrameLen(taken[1])
      BY <1>1 DEF Received, Arrived
    <2>3. Got >= 6
      BY <1>1, <2>1, <2>2, FrameLength
    <2>4. \A j \in 1..4 : addr_reg[j] = taken[j + 1]
      BY <1>1, <2>1, <2>3 DEF Received, Fields
    <2> QED BY <1>1, <2>1, <2>3, <2>4 DEF Got
  <1>12. axi_status \in Status
    BY DEF Types, AxiTypeOK
  <1>13. /\ Asked'.status = axi_status /\ Asked'.cmd = cmd_reg /\ Asked'.addr = addr_reg
         /\ result'.status = axi_status
    BY <1>8, <1>9
  <1>14. Truthful(axi_status, cmd_reg, addr_reg, Asked'.data, taken, result')
    BY <1>10, <1>11, <1>12, <1>13 DEF Truthful
  <1>15. Truthful(Asked'.status, Asked'.cmd, Asked'.addr, Asked'.data, taken', result')
    BY <1>2, <1>13, <1>14, Zenon
  <1> QED BY <1>9, <1>15 DEF AskedTruly

(* What the builder does while control waits, and while it does not.        *)
LEMMA BuilderMoves ==
    ASSUME Handshake, Promised, NEW rx, NEW full, Step(rx, full)
    PROVE  /\ soft_reset => bstate' = "BIDLE"
           /\ ~soft_reset /\ main_state # "MAIN_BUILD_RESPONSE" =>
                 /\ SendByte(full, FALSE) \/ Rest(full, FALSE)
                 /\ UNCHANGED requestRegs
           /\ main_state \in {"MAIN_IDLE", "MAIN_AXI_TRANSACTION"} => bstate' = "BIDLE"
           /\ ~soft_reset /\ main_state = "MAIN_BUILD_RESPONSE" =>
                 /\ bstate = "BIDLE"
                 /\ \/ bstate' = "BIDLE"
                    \/ /\ bstate' = "BSOF" /\ data_index' = 0
                       /\ status_reg' = Asked.status /\ cmd_echo_reg' = Asked.cmd
                       /\ addr_echo_reg' = Asked.addr /\ resp_data' = Asked.data
  <1>1. /\ soft_reset => BuilderSoftReset
        /\ ~soft_reset => \/ StartResponse(build_response, Asked)
                          \/ SendByte(full, build_response) \/ Rest(full, build_response)
    BY DEF Step, BuilderClock, BuilderFsm, Asked
  <1>2. /\ main_state = "MAIN_BUILD_RESPONSE" => bstate = "BIDLE"
        /\ main_state \in {"MAIN_IDLE", "MAIN_AXI_TRANSACTION"} => bstate \in {"BIDLE", "BGAP"}
    BY DEF Handshake, BuilderPlace, Promised
  <1>3. CASE soft_reset
    <2>1. BuilderSoftReset
      BY <1>1, <1>3
    <2>2. main_state = "MAIN_IDLE" \/ main_state = "MAIN_BUILD_RESPONSE"
      BY <1>3 DEF Handshake, ParserPlace, ControlPlace
    <2> QED BY <1>2, <1>3, <2>1 DEF BuilderSoftReset
  <1>4. CASE ~soft_reset /\ main_state # "MAIN_BUILD_RESPONSE"
    <2>1. build_response = FALSE
      BY <1>4 DEF build_response
    <2>2. SendByte(full, build_response) \/ Rest(full, build_response)
      BY <1>1, <1>4, <2>1 DEF StartResponse, BuildEdge
    <2>3. SendByte(full, FALSE) \/ Rest(full, FALSE)
      BY <2>1, <2>2, Zenon
    <2>4. UNCHANGED requestRegs
      BY <2>3 DEF SendByte, Rest
    <2>5. bstate \in {"BIDLE", "BGAP"} => bstate' = "BIDLE"
      BY <2>3, AddressStates DEF SendByte, Rest, Sends, SendState
    <2> QED BY <1>2, <1>4, <2>3, <2>4, <2>5
  <1>5. CASE ~soft_reset /\ main_state = "MAIN_BUILD_RESPONSE"
    <2>1. \/ StartResponse(build_response, Asked)
          \/ SendByte(full, build_response) \/ Rest(full, build_response)
      BY <1>1, <1>5
    <2>2. ~Sends(full)
      BY <1>2, <1>5, AddressStates DEF Sends, SendState
    <2> QED BY <1>2, <1>5, <2>1, <2>2 DEF StartResponse, SendByte, Rest
  <1> QED BY <1>3, <1>4, <1>5

(* Every clock edge keeps the promise.                                      *)
LEMMA PromisedStep ==
    ASSUME Handshake, Types, Received, Judged, ResetPlace, AxiOutcome, Promised,
           NEW rx, NEW full, Edge(rx, full)
    PROVE  Promised'
  <1>1. Step(rx, full) /\ main_state \in MainState
    BY DEF Edge, Handshake, ControlPlace
  <1>2. CASE soft_reset
    BY <1>1, <1>2, MainMoves, BuilderMoves DEF Promised
  <1>3. CASE ~soft_reset /\ main_state = "MAIN_IDLE"
    <2>1. bstate' = "BIDLE"
      BY <1>1, <1>3, BuilderMoves
    <2>2. main_state' = "MAIN_BUILD_RESPONSE" => frame_error /\ ~frame_valid
      BY <1>1, <1>3, MainMoves
    <2>3. main_state' = "MAIN_BUILD_RESPONSE" /\ ~soft_reset' => AskedTruly'
      BY <1>3, <2>2, RefusalIsAsked
    <2> QED BY <2>1, <2>3 DEF Promised
  <1>4. CASE ~soft_reset /\ main_state = "MAIN_AXI_TRANSACTION"
    <2>1. bstate' = "BIDLE"
      BY <1>1, <1>4, BuilderMoves
    <2>2. main_state' = "MAIN_BUILD_RESPONSE" => axi_done
      BY <1>1, <1>4, MainMoves
    <2>3. main_state' = "MAIN_BUILD_RESPONSE" => AskedTruly'
      BY <2>2, OutcomeIsAsked
    <2> QED BY <2>1, <2>3 DEF Promised
  <1>5. CASE ~soft_reset /\ main_state = "MAIN_BUILD_RESPONSE"
    <2>1. main_state' = "MAIN_WAIT_RESPONSE"
      BY <1>1, <1>5, MainMoves
    <2>2. taken' = taken /\ result' = result /\ AskedTruly
      BY <1>5, Served DEF Promised
    <2>3. CASE bstate' = "BIDLE"
      BY <2>1, <2>3 DEF Promised
    <2>4. CASE bstate' # "BIDLE"
      <3>1. /\ bstate' = "BSOF" /\ status_reg' = Asked.status /\ cmd_echo_reg' = Asked.cmd
            /\ addr_echo_reg' = Asked.addr /\ resp_data' = Asked.data
        BY <1>1, <1>5, <2>4, BuilderMoves
      <3>2. Truthful(status_reg', cmd_echo_reg', addr_echo_reg', resp_data', taken', result')
        BY <2>2, <3>1, Zenon DEF AskedTruly
      <3> QED BY <2>1, <3>1, <3>2 DEF Promised, SentTruly
    <2> QED BY <2>3, <2>4
  <1>6. CASE ~soft_reset /\ main_state = "MAIN_WAIT_RESPONSE"
    <2>1. /\ SendByte(full, FALSE) \/ Rest(full, FALSE)
          /\ status_reg' = status_reg /\ cmd_echo_reg' = cmd_echo_reg
          /\ addr_echo_reg' = addr_echo_reg /\ resp_data' = resp_data
      BY <1>1, <1>6, BuilderMoves DEF requestRegs
    <2>2. taken' = taken /\ result' = result
      BY <1>6, Served
    <2>3. bstate # "BGAP"
      BY <1>6 DEF Promised
    <2>4. CASE bstate = "BDONE"
      <3>1. bstate' = "BGAP"
        BY <2>1, <2>4, AddressStates DEF SendByte, Rest, Sends, SendState
      <3>2. main_state' = "MAIN_IDLE"
        BY <1>1, <1>6, <2>4, MainMoves DEF response_complete
      <3> QED BY <3>1, <3>2 DEF Promised
    <2>5. CASE bstate = "BIDLE"
      <3>1. bstate' = "BIDLE"
        BY <2>1, <2>5, AddressStates DEF SendByte, Rest, Sends, SendState
      <3>2. main_state' = "MAIN_WAIT_RESPONSE"
        BY <1>1, <1>6, <2>5, MainMoves DEF response_complete
      <3> QED BY <3>1, <3>2 DEF Promised
    <2>6. CASE bstate \notin {"BIDLE", "BDONE"}
      <3>1. main_state' = "MAIN_WAIT_RESPONSE"
        BY <1>1, <1>6, <2>6, MainMoves DEF response_complete
      <3>2. bstate' # "BGAP"
        <4>1. CASE Rest(full, FALSE)
          BY <2>3, <2>6, <4>1 DEF Rest
        <4>2. CASE SendByte(full, FALSE)
          <5>1. bstate' = AfterSend /\ bstate \in SendState
            BY <4>2 DEF SendByte, Sends
          <5> QED BY <5>1, NextState, AddressStates DEF SendState
        <4> QED BY <2>1, <4>1, <4>2
      <3>3. Truthful(status_reg, cmd_echo_reg, addr_echo_reg, resp_data, taken, result)
        BY <2>3, <2>6 DEF Promised, SentTruly
      <3>4. Truthful(status_reg', cmd_echo_reg', addr_echo_reg', resp_data', taken', result')
        BY <2>1, <2>2, <3>3, Zenon
      <3> QED BY <3>1, <3>2, <3>4 DEF Promised, SentTruly
    <2> QED BY <2>4, <2>5, <2>6
  <1> QED BY <1>1, <1>2, <1>3, <1>4, <1>5, <1>6 DEF MainState

-----------------------------------------------------------------------------
Sent    == Len(emitted)
Carries == IsRead(cmd_echo_reg) /\ status_reg = STATUS_OK

(* The builder's state says how much of the reply has been sent.            *)
Prefix ==
    /\ bstate = "BSOF" => Sent = 0
    /\ bstate = "BSTATUS" => Sent = 1
    /\ bstate = "BCMD" => Sent = 2
    /\ \A i \in 1..4 : bstate = BAddrState[i] => Sent = 2 + i /\ Carries
    /\ bstate = "BDATA" => Sent = 7 + data_index /\ Carries
    /\ bstate = "BCRC" => Sent = IF Carries THEN 7 + Len(resp_data) ELSE 3
    /\ bstate = "BDONE" => Sent = IF Carries THEN 8 + Len(resp_data) ELSE 4

(* What has been sent stands in its place.                                  *)
Said(e) ==
    /\ Len(e) >= 1 => e[1] = SOF_DEVICE
    /\ Len(e) >= 2 => e[2] = status_reg
    /\ Len(e) >= 3 => e[3] = cmd_echo_reg
    /\ Carries => \A j \in 1..4 : Len(e) >= 3 + j => e[3 + j] = addr_echo_reg[j]
    /\ Carries => \A k \in 1..Len(resp_data) : Len(e) >= 7 + k => e[7 + k] = resp_data[k]

(* The bytes of e after the marker, but for the last n, run to crc.         *)
Sums(e, n, crc) ==
    \E body \in Seq(Byte) : /\ Len(e) = 1 + Len(body) + n
                            /\ \A i \in 1..Len(body) : body[i] = e[1 + i]
                            /\ crc = CrcRun(body)[Len(body)]

Emission ==
    /\ emitted \in Seq(Byte)
    /\ Prefix
    /\ bstate \in SendState \cup {"BDONE"} => Said(emitted)
    /\ bstate = "BSOF" => bcrc_reg = 0
    /\ bstate \in SendState \ {"BSOF"} => Sums(emitted, 0, bcrc_reg)
    /\ bstate = "BDONE" => Sums(emitted, 1, emitted[Sent])

(* The byte each state sends.                                               *)
LEMMA ByteOfState ==
    /\ bstate = "BSOF" => ByteToSend = SOF_DEVICE
    /\ bstate = "BSTATUS" => ByteToSend = status_reg
    /\ bstate = "BCMD" => ByteToSend = cmd_echo_reg
    /\ \A i \in 1..4 : bstate = BAddrState[i] => ByteToSend = addr_echo_reg[i]
    /\ bstate = "BDATA" => ByteToSend = resp_data[data_index + 1]
    /\ bstate = "BCRC" => ByteToSend = bcrc_reg
  <1>1. ASSUME NEW i \in 1..4, bstate = BAddrState[i]
        PROVE  ByteToSend = addr_echo_reg[i]
    <2> DEFINE here == CHOOSE j \in 1..4 : bstate = BAddrState[j]
    <2>1. \A j \in 1..4 : bstate = BAddrState[j] <=> j = i
      BY <1>1, AddressStates
    <2>2. here = i
      BY <2>1
    <2>3. ByteToSend = addr_echo_reg[here]
      BY <1>1, AddressStates DEF ByteToSend
    <2> QED BY <2>2, <2>3
  <1>2. /\ bstate = "BSOF" => ByteToSend = SOF_DEVICE
        /\ bstate = "BSTATUS" => ByteToSend = status_reg
        /\ bstate = "BCMD" => ByteToSend = cmd_echo_reg
        /\ bstate = "BDATA" => ByteToSend = resp_data[data_index + 1]
        /\ bstate = "BCRC" => ByteToSend = bcrc_reg
    BY DEF ByteToSend
  <1> QED BY <1>1, <1>2

(* One more byte, and what has been sent still stands in its place.         *)
LEMMA SaidMore ==
    ASSUME Types, Emission, NEW full, Sends(full), NEW e, Longer(emitted, ByteToSend, e)
    PROVE  Said(e)
  <1> DEFINE n == Len(emitted)
             d == Len(resp_data)
  <1>1. n \in Nat /\ d \in Nat /\ data_index \in Nat
    BY LenProperties DEF Emission, Types, BuilderTypeOK
  <1>2. /\ Len(e) = n + 1 /\ e[n + 1] = ByteToSend
        /\ \A i \in 1..n : e[i] = emitted[i]
    BY DEF Longer
  <1>3. /\ bstate = "BSOF" => n = 0
        /\ bstate = "BSTATUS" => n = 1
        /\ bstate = "BCMD" => n = 2
        /\ \A i \in 1..4 : bstate = BAddrState[i] => n = 2 + i
        /\ bstate = "BDATA" => n = 7 + data_index
        /\ bstate = "BCRC" => n = IF Carries THEN 7 + d ELSE 3
    BY DEF Emission, Prefix, Sent
  <1>4. /\ n >= 1 => emitted[1] = SOF_DEVICE
        /\ n >= 2 => emitted[2] = status_reg
        /\ n >= 3 => emitted[3] = cmd_echo_reg
        /\ Carries => \A j \in 1..4 : n >= 3 + j => emitted[3 + j] = addr_echo_reg[j]
        /\ Carries => \A k \in 1..d : n >= 7 + k => emitted[7 + k] = resp_data[k]
    BY DEF Emission, Said, Sends
  <1>5. bstate \in {"BSOF", "BSTATUS", "BCMD", "BDATA", "BCRC"} \cup {BAddrState[i] : i \in 1..4}
    BY DEF Sends, SendState
  <1> HIDE DEF n, d
  <1>6. /\ n = 0 => bstate = "BSOF"
        /\ n = 1 => bstate = "BSTATUS"
        /\ n = 2 => bstate = "BCMD"
        /\ Carries => \A i \in 1..4 : n = 2 + i => bstate = BAddrState[i]
        /\ Carries => \A k \in 1..d : n = 6 + k => bstate = "BDATA" /\ data_index + 1 = k
    BY <1>1, <1>3, <1>5
  <1>7. /\ Len(e) >= 1 => e[1] = SOF_DEVICE
        /\ Len(e) >= 2 => e[2] = status_reg
        /\ Len(e) >= 3 => e[3] = cmd_echo_reg
    BY <1>1, <1>2, <1>4, <1>6, ByteOfState
  <1>8. ASSUME Carries, NEW j \in 1..4, Len(e) >= 3 + j
        PROVE  e[3 + j] = addr_echo_reg[j]
    <2>1. CASE n >= 3 + j
      BY <1>1, <1>2, <1>4, <1>8, <2>1
    <2>2. CASE n = 2 + j
      BY <1>2, <1>6, <1>8, <2>2, ByteOfState
    <2> QED BY <1>1, <1>2, <1>8, <2>1, <2>2
  <1>9. ASSUME Carries, NEW k \in 1..d, Len(e) >= 7 + k
        PROVE  e[7 + k] = resp_data[k]
    <2>1. CASE n >= 7 + k
      BY <1>1, <1>2, <1>4, <1>9, <2>1
    <2>2. CASE n = 6 + k
      BY <1>2, <1>6, <1>9, <2>2, ByteOfState
    <2> QED BY <1>1, <1>2, <1>9, <2>1, <2>2
  <1> QED BY <1>7, <1>8, <1>9 DEF Said, d

(* One more byte, and the CRC register has run over it, or is it.           *)
LEMMA SumsMore ==
    ASSUME NEW e \in Seq(Byte), NEW b \in Byte, NEW crc, Sums(e, 0, crc), NEW g, Longer(e, b, g)
    PROVE  Sums(g, 0, CrcNext(crc, b)) /\ Sums(g, 1, crc)
  <1>1. PICK body \in Seq(Byte) : /\ Len(e) = 1 + Len(body) + 0
                                  /\ \A i \in 1..Len(body) : body[i] = e[1 + i]
                                  /\ crc = CrcRun(body)[Len(body)]
    BY DEF Sums
  <1> DEFINE more == Append(body, b)
  <1>2. Longer(body, b, more) /\ Len(body) \in Nat /\ Len(e) \in Nat
    BY OneMoreByte, LenProperties
  <1> HIDE DEF more
  <1>3. Len(g) = Len(e) + 1 /\ g[Len(e) + 1] = b /\ \A i \in 1..Len(e) : g[i] = e[i]
    BY DEF Longer
  <1>4. /\ more \in Seq(Byte) /\ Len(more) = Len(body) + 1 /\ more[Len(body) + 1] = b
        /\ \A i \in 1..Len(body) : more[i] = body[i]
        /\ CrcRun(more)[Len(body) + 1] = CrcNext(CrcRun(body)[Len(body)], b)
    BY <1>2 DEF Longer
  <1> DEFINE m == Len(body)
  <1>5. m \in Nat /\ Len(e) = 1 + m /\ Len(g) = 2 + m
    BY <1>1, <1>2, <1>3
  <1>6. Sums(g, 1, crc)
    <2>1. \A i \in 1..m : body[i] = g[1 + i]
      BY <1>1, <1>3, <1>5
    <2>2. Len(g) = 1 + m + 1
      BY <1>5
    <2> QED BY <1>1, <2>1, <2>2 DEF Sums
  <1>7. Sums(g, 0, CrcNext(crc, b))
    <2>1. \A i \in 1..(m + 1) : more[i] = g[1 + i]
      <3>1. more[m + 1] = g[1 + (m + 1)]
        BY <1>3, <1>4, <1>5
      <3>2. \A i \in 1..m : more[i] = g[1 + i]
        BY <1>1, <1>3, <1>4, <1>5
      <3> QED BY <1>5, <3>1, <3>2
    <2>2. Len(g) = 1 + Len(more) + 0 /\ Len(more) = m + 1
      BY <1>4, <1>5
    <2>3. CrcNext(crc, b) = CrcRun(more)[Len(more)]
      BY <1>1, <1>4, <2>2
    <2> HIDE DEF m
    <2>4. \A i \in 1..Len(more) : more[i] = g[1 + i]
      BY <2>1, <2>2
    <2> QED BY <1>4, <2>2, <2>3, <2>4 DEF Sums
  <1> QED BY <1>6, <1>7

(* The start marker alone: nothing has been summed yet.                     *)
LEMMA SumsNone ==
    ASSUME NEW b, NEW g, Longer(<<>>, b, g)
    PROVE  Sums(g, 0, 0)
  <1>1. <<>> \in Seq(Byte) /\ Len(<<>>) = 0 /\ CrcRun(<<>>)[0] = 0
    BY EmptySeq, CrcStep
  <1>2. Len(g) = 1 + Len(<<>>) + 0
    BY <1>1 DEF Longer
  <1>3. \A i \in 1..Len(<<>>) : <<>>[i] = g[1 + i]
    BY <1>1
  <1> QED BY <1>1, <1>2, <1>3 DEF Sums

(* Every clock edge sends the next byte of the reply, or none.              *)
LEMMA EmissionStep ==
    ASSUME Handshake, Types, Promised, Emission, NEW rx, NEW full, Edge(rx, full)
    PROVE  Emission'
  <1>1. /\ Step(rx, full) /\ BuilderCrc(full)
        /\ emitted' = IF bstate = "BIDLE" THEN <<>>
                      ELSE IF Sends(full) THEN Append(emitted, ByteToSend) ELSE emitted
    BY DEF Edge, Step, Histories, BuilderClock
  <1>2. /\ emitted \in Seq(Byte) /\ <<>> \in Seq(Byte) /\ Len(<<>>) = 0
        /\ Sends(full) => ByteToSend \in Byte
    BY EmptySeq, SentIsByte DEF Emission, Types
  <1>3. Sends(full) => Longer(emitted, ByteToSend, Append(emitted, ByteToSend))
    BY <1>2, OneMoreByte
  <1>4. emitted' \in Seq(Byte)
    BY <1>1, <1>2, <1>3 DEF Longer
  <1>5. "BIDLE" \notin SendState \cup {"BDONE"} /\ "BGAP" \notin SendState \cup {"BDONE"}
        /\ "BDONE" \notin SendState
    BY AddressStates DEF SendState
  <1>6. CASE bstate' \in {"BIDLE", "BGAP"}
    BY <1>4, <1>5, <1>6, AddressStates DEF Emission, Prefix
  <1>7. CASE bstate' \notin {"BIDLE", "BGAP"} /\ bstate = "BIDLE"
    <2>1. bstate' = "BSOF" /\ emitted' = <<>> /\ bcrc_reg' = 0
      <3>1. bstate' = "BSOF"
        <4>1. CASE soft_reset
          BY <1>1, <1>7, <4>1, BuilderMoves
        <4>2. CASE ~soft_reset /\ main_state = "MAIN_BUILD_RESPONSE"
          BY <1>1, <1>7, <4>2, BuilderMoves
        <4>3. CASE ~soft_reset /\ main_state # "MAIN_BUILD_RESPONSE"
          <5>1. SendByte(full, FALSE) \/ Rest(full, FALSE)
            BY <1>1, <4>3, BuilderMoves
          <5> QED BY <1>5, <1>7, <5>1 DEF SendByte, Rest, Sends
        <4> QED BY <4>1, <4>2, <4>3
      <3>2. emitted' = <<>>
        BY <1>1, <1>7, Zenon
      <3>3. bcrc_reg' = 0
        <4>1. ~Sends(full)
          BY <1>5, <1>7 DEF Sends
        <4> QED BY <1>1, <1>7, <4>1 DEF BuilderCrc
      <3> QED BY <3>1, <3>2, <3>3
    <2>2. Len(emitted') = 0
      BY <1>2, <2>1, Zenon
    <2>3. Said(emitted)'
      BY <2>2 DEF Said
    <2>4. Prefix'
      BY <2>1, <2>2, AddressStates DEF Prefix, Sent
    <2> QED BY <1>4, <2>1, <2>3, <2>4 DEF Emission
  <1>8. CASE bstate' \notin {"BIDLE", "BGAP"} /\ bstate # "BIDLE"
    <2>1. /\ ~soft_reset /\ main_state = "MAIN_WAIT_RESPONSE" /\ SentTruly
          /\ SendByte(full, FALSE) \/ Rest(full, FALSE)
          /\ status_reg' = status_reg /\ cmd_echo_reg' = cmd_echo_reg
          /\ addr_echo_reg' = addr_echo_reg /\ resp_data' = resp_data
          /\ bstate # "BGAP"
      <3>1. bstate # "BGAP"
        <4> SUFFICES ASSUME bstate = "BGAP" PROVE FALSE
          OBVIOUS
        <4>1. main_state = "MAIN_IDLE"
          BY DEF Promised
        <4> QED BY <1>1, <1>8, <4>1, BuilderMoves
      <3>2. main_state = "MAIN_WAIT_RESPONSE" /\ SentTruly
        BY <1>8, <3>1 DEF Promised
      <3>3. ~soft_reset
        BY <1>1, <1>8, BuilderMoves
      <3> QED BY <1>1, <3>1, <3>2, <3>3, BuilderMoves DEF requestRegs
    <2>2. cmd_echo_reg # CMD_RESET /\ status_reg \in Status
      BY <2>1 DEF SentTruly, Truthful
    <2>3. Carries' <=> Carries
      BY <2>1, Zenon DEF Carries
    <2>4. Len(resp_data') = Len(resp_data)
      BY <2>1, Zenon
    <2>5. ASSUME NEW e, Said(e) PROVE Said(e)'
      BY <2>1, <2>3, <2>5 DEF Said
    <2>6. CASE Rest(full, FALSE)
      <3>1. /\ ~Sends(full) /\ bstate' = bstate /\ data_index' = data_index
        BY <1>8, <2>1, <2>6 DEF Rest, BuildEdge
      <3>2. emitted' = emitted /\ bcrc_reg' = bcrc_reg
        BY <1>1, <1>8, <3>1 DEF BuilderCrc
      <3>3. Len(emitted') = Len(emitted) /\ emitted'[Len(emitted')] = emitted[Len(emitted)]
        BY <3>2, Zenon
      <3>4. Prefix'
        BY <2>3, <2>4, <3>1, <3>3 DEF Emission, Prefix, Sent
      <3>5. bstate \in SendState \cup {"BDONE"} => Said(emitted)'
        BY <2>1, <2>3, <2>4, <3>2 DEF Emission, Said
      <3>6. /\ bstate = "BSOF" => bcrc_reg' = 0
            /\ bstate \in SendState \ {"BSOF"} => Sums(emitted', 0, bcrc_reg')
            /\ bstate = "BDONE" => Sums(emitted', 1, emitted'[Len(emitted')])
        BY <3>2, <3>3, Zenon DEF Emission, Sent
      <3> QED BY <1>4, <3>1, <3>4, <3>5, <3>6 DEF Emission, Sent
    <2>7. CASE SendByte(full, FALSE)
      <3> DEFINE e == Append(emitted, ByteToSend)
                 n == Len(emitted)
                 d == Len(resp_data)
      <3>1. /\ Sends(full) /\ bstate' = AfterSend
            /\ data_index' = IF bstate = "BDATA" THEN data_index + 1 ELSE data_index
        BY <2>7 DEF SendByte, BuildEdge
      <3>2. Longer(emitted, ByteToSend, e) /\ emitted' = e
        BY <1>1, <1>3, <1>8, <3>1
      <3> HIDE DEF e
      <3>3. Said(e)
        BY <3>1, <3>2, SaidMore
      <3>4. Said(emitted)'
        BY <2>1, <2>3, <2>4, <3>2, <3>3 DEF Said
      <3>5. bstate \in {"BSOF", "BSTATUS", "BCMD", "BDATA", "BCRC"}
                       \cup {BAddrState[i] : i \in 1..4}
        BY <3>1 DEF Sends, SendState
      <3>6. /\ n \in Nat /\ d \in Nat /\ data_index \in Nat
            /\ Len(e) = n + 1 /\ e[n + 1] = ByteToSend
            /\ bstate \in {BAddrState[i] : i \in 1..4} => data_index = 0
        BY <3>2, LenProperties DEF Emission, Types, BuilderTypeOK, IndexAtStart, Longer
      <3>7. /\ bstate = "BSOF" => n = 0
            /\ bstate = "BSTATUS" => n = 1
            /\ bstate = "BCMD" => n = 2
            /\ \A i \in 1..4 : bstate = BAddrState[i] => n = 2 + i /\ Carries
            /\ bstate = "BDATA" => n = 7 + data_index /\ Carries
            /\ bstate = "BCRC" => n = IF Carries THEN 7 + d ELSE 3
        BY DEF Emission, Prefix, Sent
      <3>8. bstate = "BCMD" => AfterSend = IF Carries THEN BAddrState[1] ELSE "BCRC"
        <4>1. bstate = "BCMD" => AfterSend = AfterCmd
          BY AddressStates DEF AfterSend
        <4> QED BY <2>2, <4>1 DEF AfterCmd, Carries, Status, STATUS_OK
      <3> HIDE DEF n, d
      <3>9. Prefix'
        <4> DEFINE m == Len(emitted')
        <4>1. m = n + 1
          BY <3>2, <3>6, Zenon
        <4>2. /\ AfterSend = "BSOF" => FALSE
              /\ AfterSend = "BSTATUS" => n = 0
              /\ AfterSend = "BCMD" => n = 1
              /\ \A i \in 1..4 : AfterSend = BAddrState[i] => n = 1 + i /\ Carries
              /\ AfterSend = "BDATA" =>
                    /\ n = 6 + (IF bstate = "BDATA" THEN data_index + 1 ELSE data_index)
                    /\ Carries
              /\ AfterSend = "BCRC" => n = IF Carries THEN 6 + d ELSE 2
              /\ AfterSend = "BDONE" => n = IF Carries THEN 7 + d ELSE 3
          BY <3>5, <3>6, <3>7, <3>8, NextState, AddressStates DEF d
        <4> QED BY <2>3, <2>4, <3>1, <3>6, <4>1, <4>2 DEF Prefix, Sent, d
      <3>10. bcrc_reg' = IF bstate \in {"BSOF", "BCRC"} THEN bcrc_reg
                         ELSE CrcNext(bcrc_reg, ByteToSend)
        BY <1>1, <1>8, <3>1 DEF BuilderCrc
      <3>11. AfterSend # "BSOF" /\ (AfterSend = "BDONE" <=> bstate = "BCRC")
        BY <3>5, <3>8, NextState, AddressStates
      <3>12. AfterSend \in SendState => Sums(e, 0, bcrc_reg')
        <4>1. CASE bstate = "BSOF"
          <5>1. bcrc_reg' = 0
            BY <3>10, <4>1 DEF Emission
          <5>2. emitted = <<>>
            BY <1>2, <3>7, <4>1, EmptySeq DEF n
          <5>3. Longer(<<>>, ByteToSend, e)
            BY <3>2, <5>2, Zenon
          <5> QED BY <5>1, <5>3, SumsNone, Zenon
        <4>2. CASE bstate \notin {"BSOF", "BCRC"}
          <5>1. Sums(emitted, 0, bcrc_reg)
            BY <3>1, <4>2 DEF Emission, Sends
          <5>2. Sums(e, 0, CrcNext(bcrc_reg, ByteToSend))
            BY <1>2, <3>1, <3>2, <5>1, SumsMore
          <5> QED BY <3>10, <4>2, <5>2
        <4>3. CASE bstate = "BCRC"
          BY <1>5, <4>3, NextState
        <4> QED BY <4>1, <4>2, <4>3
      <3>13. AfterSend = "BDONE" => Sums(e, 1, e[Len(e)])
        <4> SUFFICES ASSUME AfterSend = "BDONE" PROVE Sums(e, 1, e[Len(e)])
          OBVIOUS
        <4>1. bstate = "BCRC" /\ "BCRC" # "BSOF" /\ "BCRC" \in SendState
          BY <3>11 DEF SendState
        <4>2. Sums(emitted, 0, bcrc_reg)
          BY <4>1 DEF Emission
        <4>3. Sums(e, 1, bcrc_reg)
          BY <1>2, <3>1, <3>2, <4>2, SumsMore
        <4>4. e[Len(e)] = bcrc_reg
          BY <3>6, <4>1, ByteOfState
        <4> QED BY <4>3, <4>4
      <3>14. emitted'[Len(emitted')] = e[Len(e)]
        BY <3>2, Zenon
      <3> QED BY <1>4, <3>1, <3>2, <3>4, <3>9, <3>11, <3>12, <3>13, <3>14, Zenon DEF Emission, Sent
    <2> QED BY <2>1, <2>6, <2>7
  <1> QED BY <1>6, <1>7, <1>8

(* The reply complete is the service's answer to the frame.                 *)
LEMMA ReplyAnswers ==
    ASSUME Types, Received, Promised, Emission, bstate = "BDONE"
    PROVE  Service!Answers(emitted, taken, result)
  <1> DEFINE d == Len(resp_data)
             n == Len(emitted)
  <1>1. SentTruly /\ Said(emitted) /\ emitted \in Seq(Byte) /\ n \in Nat /\ d \in Nat
    BY LenProperties DEF Promised, Emission, Types, BuilderTypeOK
  <1>2. n = IF Carries THEN 8 + d ELSE 4
    BY DEF Emission, Prefix, Sent
  <1>3. PICK body \in Seq(Byte) : /\ n = 1 + Len(body) + 1
                                  /\ \A i \in 1..Len(body) : body[i] = emitted[1 + i]
                                  /\ emitted[n] = CrcRun(body)[Len(body)]
    BY DEF Emission, Sums, Sent
  <1>4. Len(body) \in Nat
    BY LenProperties
  <1>5. Len(body) = IF Carries THEN 6 + d ELSE 2
    <2> DEFINE m == Len(body)
    <2>1. n = 1 + m + 1 /\ m \in Nat
      BY <1>3, <1>4
    <2> HIDE DEF n, m, d
    <2>2. m = n - 2
      BY <1>1, <2>1
    <2>3. m = IF Carries THEN 6 + d ELSE 2
      BY <1>1, <1>2, <2>2
    <2> QED BY <2>3 DEF m
  <1>6. SubSeq(emitted, 2, n - 1) = body
    <2>1. 1 + Len(body) <= n /\ 1 + 1 = 2 /\ 1 + Len(body) = n - 1
      BY <1>1, <1>3, <1>4
    <2>2. SubSeq(emitted, 1 + 1, 1 + Len(body)) = body
      BY <1>1, <1>3, <2>1, PartIs
    <2> QED BY <2>1, <2>2
  <1>7. Service!Last(emitted) = Service!CrcOf(SubSeq(emitted, 2, n - 1))
    BY <1>3, <1>6, ServiceWords DEF Service!Last
  <1>8. n >= 4 /\ emitted[1] = 90 /\ emitted[2] = status_reg /\ emitted[3] = cmd_echo_reg
    BY <1>1, <1>2 DEF Said, SOF_DEVICE
  <1>9. /\ status_reg = result.status /\ status_reg \in Byte /\ cmd_echo_reg \in Byte
        /\ IF Len(taken) = 0 THEN status_reg = STATUS_TIMEOUT ELSE cmd_echo_reg = taken[1]
        /\ Carries => /\ Len(taken) >= 5 /\ resp_data = result.data
                      /\ \A j \in 1..4 : addr_echo_reg[j] = taken[j + 1]
        /\ taken \in Seq(Byte)
    BY <1>1 DEF SentTruly, Truthful, Carries, Types, BuilderTypeOK, Received, Fields
  <1>10. CASE taken = <<>>
    <2>1. status_reg = STATUS_TIMEOUT
      BY <1>9, <1>10, EmptySeq
    <2>2. n = 4
      BY <1>2, <2>1 DEF Carries, STATUS_TIMEOUT, STATUS_OK
    <2>3. Service!STATUS_TIMEOUT = STATUS_TIMEOUT
      BY ServiceWords
    <2> QED BY <1>7, <1>8, <1>10, <2>1, <2>2, <2>3 DEF Service!Answers
  <1>11. CASE taken # <<>>
    <2>1. cmd_echo_reg = taken[1] /\ (Service!IsRead(taken[1]) <=> IsRead(cmd_echo_reg))
          /\ Service!STATUS_OK = STATUS_OK
      <3>1. Len(taken) # 0
        BY <1>9, <1>11, EmptySeq
      <3> QED BY <1>9, <3>1, ServiceWords
    <2> DEFINE head == <<result.status, taken[1]>>
               rest == IF Carries THEN SubSeq(taken, 2, 5) \o result.data ELSE <<>>
    <2>2. Service!Body(taken, result) = head \o rest
      BY <1>9, <2>1 DEF Service!Body, Carries
    <2>3. head \in Seq(Byte) /\ Len(head) = 2 /\ head[1] = body[1] /\ head[2] = body[2]
      BY <1>3, <1>4, <1>8, <1>9, <2>1
    <2>4. body = head \o rest
      <3>1. CASE Carries
        <4> DEFINE join == SubSeq(taken, 2, 5) \o result.data
        <4>1. addr_echo_reg \in Seq(Byte) /\ Len(addr_echo_reg) = 4 /\ resp_data \in Seq(Byte)
          BY AddressIsSeq DEF Types, BuilderTypeOK
        <4>2. SubSeq(taken, 2, 5) = addr_echo_reg
          <5>1. 1 + Len(addr_echo_reg) <= Len(taken) /\ 1 + 1 = 2 /\ 1 + Len(addr_echo_reg) = 5
            BY <1>9, <3>1, <4>1
          <5>2. \A i \in 1..Len(addr_echo_reg) : addr_echo_reg[i] = taken[1 + i]
            BY <1>9, <3>1, <4>1
          <5>3. SubSeq(taken, 1 + 1, 1 + Len(addr_echo_reg)) = addr_echo_reg
            BY <1>9, <4>1, <5>1, <5>2, PartIs
          <5> QED BY <5>1, <5>3
        <4>3. Joins(Byte, addr_echo_reg, resp_data, join)
          BY <1>9, <3>1, <4>1, <4>2, OneAfterAnother
        <4> HIDE DEF join
        <4>4. join \in Seq(Byte) /\ Len(join) = 4 + d
              /\ (\A i \in 1..4 : join[i] = addr_echo_reg[i])
              /\ (\A k \in 1..d : join[4 + k] = resp_data[k])
          BY <4>1, <4>3 DEF Joins
        <4>5. \A i \in 1..Len(join) : body[2 + i] = join[i]
          <5> SUFFICES ASSUME NEW i \in 1..(4 + d) PROVE body[2 + i] = join[i]
            BY <4>4
          <5>1. body[2 + i] = emitted[3 + i]
            BY <1>1, <1>2, <1>3, <1>4, <3>1
          <5>2. CASE i \in 1..4
            BY <1>1, <1>2, <3>1, <4>4, <5>1, <5>2 DEF Said
          <5>3. CASE i \in 5..(4 + d)
            <6> DEFINE k == i - 4
            <6>1. k \in 1..d /\ i = 4 + k /\ 3 + i = 7 + k
              BY <1>1, <5>3
            <6>2. emitted[7 + k] = resp_data[k]
              BY <1>1, <1>2, <3>1, <6>1 DEF Said
            <6> QED BY <4>4, <5>1, <6>1, <6>2
          <5> QED BY <1>1, <5>2, <5>3
        <4>6. Joins(Byte, head, join, head \o join)
          BY <2>3, <4>4, OneAfterAnother
        <4> DEFINE all == head \o join
        <4> HIDE DEF all, head, d
        <4>7. /\ all \in Seq(Byte) /\ Len(all) = 6 + d /\ all[1] = head[1] /\ all[2] = head[2]
              /\ \A k \in 1..Len(join) : all[2 + k] = join[k]
          <5>1. Joins(Byte, head, join, all)
            BY <4>6 DEF all
          <5>2. /\ all \in Seq(Byte) /\ Len(all) = Len(head) + Len(join)
                /\ \A i \in 1..Len(head) : all[i] = head[i]
                /\ \A k \in 1..Len(join) : all[Len(head) + k] = join[k]
            BY <5>1, Zenon DEF Joins
          <5>3. Len(head) = 2 /\ Len(join) = 4 + d
            BY <2>3, <4>4
          <5>4. Len(all) = 6 + d
            BY <1>1, <5>2, <5>3
          <5>5. 1 \in 1..Len(head) /\ 2 \in 1..Len(head)
            BY <5>3
          <5> QED BY <5>2, <5>3, <5>4, <5>5
        <4>8. Len(body) = 6 + d
          BY <1>5, <3>1
        <4>9. \A i \in 1..Len(body) : body[i] = all[i]
          <5> SUFFICES ASSUME NEW i \in 1..(6 + d) PROVE body[i] = all[i]
            BY <4>8
          <5>1. CASE i \in {1, 2}
            BY <2>3, <4>7, <5>1
          <5>2. CASE i \notin {1, 2}
            <6>1. i - 2 \in 1..Len(join) /\ i = 2 + (i - 2)
              BY <1>1, <4>4, <5>2
            <6> QED BY <4>5, <4>7, <6>1
          <5> QED BY <5>1, <5>2
        <4>10. body = all
          BY <4>7, <4>8, <4>9, SeqEqual
        <4> QED BY <3>1, <4>10 DEF all, join
      <3>2. CASE ~Carries
        <4>1. head \o <<>> = head
          BY <2>3, ConcatEmptySeq
        <4> HIDE DEF head
        <4>2. Len(body) = 2
          BY <1>5, <3>2
        <4>3. body = head
          BY <2>3, <4>2, SeqEqual
        <4> QED BY <3>2, <4>1, <4>3
      <3> QED BY <3>1, <3>2
    <2> QED BY <1>6, <1>7, <1>8, <1>11, <2>2, <2>4 DEF Service!Answers
  <1> QED BY <1>10, <1>11

-----------------------------------------------------------------------------
(* The inductive invariant of the refinement.                               *)
Serving == /\ Handshake /\ Types /\ Received /\ Judged /\ ResetPlace /\ AxiOutcome
           /\ Promised /\ Emission

(* Reset establishes the invariant.                                         *)
LEMMA ServingInit == Init => Serving
  <1> SUFFICES ASSUME Init PROVE Serving
    OBVIOUS
  <1>1. Handshake /\ Types /\ Received
    BY HandshakeInit, TypesInit, ReceivedInit
  <1>2. /\ pstate = "IDLE" /\ cmd_reg = 0 /\ bstate = "BIDLE" /\ main_state = "MAIN_IDLE"
        /\ axi_transaction_done_prev = FALSE /\ axi_busy = FALSE /\ axi_done = FALSE
        /\ emitted = <<>>
    BY DEF Init, ParserInit, BuilderInit, ControlInit, AxiInit
  <1>3. Judged /\ ResetPlace /\ AxiOutcome /\ Promised
    BY <1>2 DEF Judged, ResetPlace, CMD_RESET, AxiOutcome, Promised
  <1>4. emitted \in Seq(Byte)
    BY <1>2, EmptySeq
  <1>5. Emission
    BY <1>2, <1>4, AddressStates DEF Emission, Prefix, SendState
  <1> QED BY <1>1, <1>3, <1>5 DEF Serving

(* One clock edge, as the environment's promises leave it.                  *)
LEMMA NextIsWholeEdge ==
    ASSUME ~LateBytes, ~CutResets, Types, Next
    PROVE  \E rx, full : Edge(rx, full) /\ ResetComesWhole(rx)
  <1>1. PICK rx \in Line, full \in BOOLEAN : Clock(rx, full) /\ AxiMoves
    BY DEF Next, Busy, Answered, AxiMoves
  <1>2. rx \in Byte \cup {NoByte}
    BY <1>1, LineOffersBytes DEF Types
  <1>3. Step(rx, full) /\ Histories(rx, full) /\ ResetComesWhole(rx)
    BY <1>1 DEF Clock, Step, Line, ResetComesWhole
  <1> QED BY <1>2, <1>3 DEF Edge

(* Every clock edge keeps it.                                               *)
LEMMA ServingStep ==
    ASSUME ~LateBytes, Serving, NEW rx, NEW full, Edge(rx, full), ResetComesWhole(rx), Next
    PROVE  Serving'
  <1>1. /\ Handshake /\ Types /\ Received /\ Judged /\ ResetPlace /\ AxiOutcome /\ Promised
        /\ Emission /\ Step(rx, full)
    BY DEF Serving, Edge
  <1>2. Handshake' /\ Types'
    BY <1>1, HandshakeStep, TypesStep
  <1>3. Received'
    BY <1>1, ReceivedStep
  <1>4. Judged' /\ ResetPlace' /\ AxiOutcome'
    BY <1>1, JudgedStep, ResetStep, AxiOutcomeStep
  <1>5. Promised' /\ Emission'
    BY <1>1, PromisedStep, EmissionStep
  <1> QED BY <1>2, <1>3, <1>4, <1>5 DEF Serving

(* So does a step that changes nothing.                                     *)
LEMMA ServingStutters == Serving /\ UNCHANGED vars => Serving'
  <1> SUFFICES ASSUME Serving, UNCHANGED vars PROVE Serving'
    OBVIOUS
  <1>1. UNCHANGED <<parserVars, builderVars, controlVars, axiVars, taken, result, emitted>>
    BY DEF vars
  <1>2. /\ UNCHANGED <<pstate, cmd_reg, current_cmd, addr_reg, data_reg, expected_data_bytes,
                       received_crc, crc_reg, error_status, timeout_occurred, timeout_counter,
                       frame_valid_hold, frame_consumed_reg, soft_reset, soft_reset_reg>>
        /\ UNCHANGED <<bstate, status_reg, cmd_echo_reg, addr_echo_reg, resp_data, data_index,
                       build_response_prev, bcrc_reg, tx_fifo_wr_en, tx_fifo_data>>
        /\ UNCHANGED <<main_state, captured_cmd, captured_addr, captured_read_data_count,
                       axi_transaction_done_prev, axi_start_issued, builder_start_issued>>
        /\ UNCHANGED <<axi_busy, axi_done, axi_status, axi_cmd, axi_read_data, taken, result,
                       emitted>>
    BY <1>1 DEF parserVars, fsmVars, builderVars, requestRegs, controlVars, axiVars
  <1>3. Handshake' /\ Types'
    <2>1. Handshake'
      BY <1>2 DEF Serving, Handshake, ParserPlace, ControlPlace, BuilderPlace, AxiPlace
    <2>2. Types'
      BY <1>2 DEF Serving, Types, ParserTypeOK, BuilderTypeOK, IndexAtStart, ControlTypeOK,
         AxiTypeOK, ReadCount
    <2> QED BY <2>1, <2>2
  <1>4. Received'
    BY <1>2 DEF Serving, Received, Fields, Arrived, Summed, Captured, Got
  <1>5. Judged' /\ ResetPlace' /\ AxiOutcome'
    BY <1>2 DEF Serving, Judged, Verdict, ResetPlace, AxiOutcome
  <1>6. Promised'
    BY <1>2 DEF Serving, Promised, AskedTruly, SentTruly, Truthful, Asked, BuildRequest, frame_error
  <1>7. Emission'
    BY <1>2 DEF Serving, Emission, Prefix, Said, Sent, Carries
  <1> QED BY <1>3, <1>4, <1>5, <1>6, <1>7 DEF Serving

-----------------------------------------------------------------------------
(* Step simulation, by where the control state machine stands: idle ...     *)
LEMMA ServesIdle ==
    ASSUME Serving, NEW rx, NEW full, Edge(rx, full), main_state = "MAIN_IDLE", ~soft_reset
    PROVE  Service!Accept \/ Service!Refuse \/ Service!Forget
  <1>1. /\ Handshake /\ Types /\ Received /\ Judged /\ ResetPlace /\ Promised /\ Step(rx, full)
    BY DEF Serving, Edge
  <1>2. bstate' = "BIDLE"
    BY <1>1, BuilderMoves
  <1>3. Service!Nothing = NoResult
    BY ServiceWords DEF Service!Nothing, NoResult
  <1>4. main_state' = IF frame_valid THEN "MAIN_AXI_TRANSACTION"
                      ELSE IF frame_error THEN "MAIN_BUILD_RESPONSE" ELSE "MAIN_IDLE"
    BY <1>1, MainMoves
  <1>5. CASE frame_valid
    <2>1. Service!LegalFrame(taken') /\ result' = NoResult /\ ~soft_reset'
      <3>1. Service!LegalFrame(taken) /\ taken' = taken /\ result' = NoResult /\ ~soft_reset'
        BY <1>1, <1>5, Accepted
      <3> QED BY <3>1
    <2>2. main_state' = "MAIN_AXI_TRANSACTION"
      BY <1>4, <1>5
    <2> QED BY <1>2, <1>3, <2>1, <2>2 DEF Service!Accept
  <1>6. CASE ~frame_valid /\ frame_error /\ ~soft_reset'
    <2>1. /\ ~Service!LegalFrame(taken')
          /\ result' = [status |-> Service!Refusal(taken'), data |-> <<>>]
      <3>1. /\ ~Service!LegalFrame(taken) /\ taken' = taken
            /\ result' = [status |-> Service!Refusal(taken), data |-> <<>>]
        BY <1>1, <1>6, Refused
      <3> QED BY <3>1
    <2>2. main_state' = "MAIN_BUILD_RESPONSE"
      BY <1>4, <1>6
    <2> QED BY <1>2, <1>6, <2>1, <2>2 DEF Service!Refuse
  <1>7. CASE ~frame_valid /\ (frame_error => soft_reset')
    <2>1. main_state' = "MAIN_IDLE" \/ soft_reset'
      BY <1>4, <1>7
    <2> QED BY <1>2, <2>1 DEF Service!Forget
  <1> QED BY <1>5, <1>6, <1>7

(* ... while the AXI master works ...                                       *)
LEMMA ServesTransaction ==
    ASSUME Serving, NEW rx, NEW full, Edge(rx, full), main_state = "MAIN_AXI_TRANSACTION"
    PROVE  Service!Execute \/ UNCHANGED Service!serviceVars
  <1>1. /\ Handshake /\ Types /\ Received /\ AxiOutcome /\ Promised /\ Step(rx, full)
        /\ ~soft_reset
    BY DEF Serving, Edge, Handshake, ControlPlace, ParserPlace
  <1>2. bstate = "BIDLE" /\ bstate' = "BIDLE"
    BY <1>1, BuilderMoves DEF Promised
  <1>3. taken' = taken /\ ~soft_reset'
    BY <1>1, Served
  <1>4. CASE axi_done
    <2>1. /\ result' = [status |-> axi_status,
                        data |-> IF axi_status = STATUS_OK THEN axi_read_data ELSE <<>>]
      BY <1>1, <1>4, OutcomeIsAsked
    <2>2. main_state' = "MAIN_BUILD_RESPONSE"
      BY <1>1, <1>4, MainMoves
    <2>3. axi_cmd = taken[1]
      <3>1. axi_cmd = captured_cmd /\ captured_cmd = cmd_reg /\ pstate = "VALIDATE"
        BY <1>1, <1>4 DEF AxiOutcome, Received, Captured, Handshake, ControlPlace, ParserPlace
      <3> QED BY <1>1, <3>1, WholeAtLast
    <2>4. /\ axi_status \in Status \ {STATUS_CRC_ERR, STATUS_CMD_INV}
          /\ IsRead(taken[1]) /\ axi_status = STATUS_OK => Len(axi_read_data) = BytesAsked(taken[1])
          /\ ~IsRead(taken[1]) => axi_read_data = <<>>
      BY <1>1, <1>4, <2>3 DEF AxiOutcome, Types, AxiTypeOK
    <2>5. /\ result'.status \in Service!Status \ {Service!STATUS_CRC_ERR, Service!STATUS_CMD_INV}
          /\ result'.status = axi_status
      BY <2>1, <2>4, ServiceWords
    <2>6. Len(result'.data) = IF Service!IsRead(taken[1]) /\ result'.status = Service!STATUS_OK
                              THEN Service!BytesRead(taken[1]) ELSE 0
      <3>1. /\ Service!IsRead(taken[1]) <=> IsRead(taken[1])
            /\ Service!BytesRead(taken[1]) = BytesAsked(taken[1]) /\ Service!STATUS_OK = STATUS_OK
        BY ServiceWords
      <3>2. Len(<<>>) = 0
        BY EmptySeq
      <3>3. result'.data = IF axi_status = STATUS_OK THEN axi_read_data ELSE <<>>
        BY <2>1
      <3> QED BY <2>4, <2>5, <3>1, <3>2, <3>3
    <2> QED BY <1>1, <1>2, <1>3, <2>2, <2>5, <2>6 DEF Service!Execute
  <1>5. CASE ~axi_done
    <2>1. result' = result /\ main_state' = "MAIN_AXI_TRANSACTION"
      BY <1>1, <1>5, Served, MainMoves
    <2> QED BY <1>1, <1>2, <1>3, <2>1 DEF Service!serviceVars
  <1> QED BY <1>4, <1>5

(* ... while a reply is built and sent ...                                  *)
LEMMA ServesReply ==
    ASSUME Serving, Serving', NEW rx, NEW full, Edge(rx, full), ~soft_reset,
           main_state \in {"MAIN_BUILD_RESPONSE", "MAIN_WAIT_RESPONSE"}
    PROVE  Service!Answer \/ UNCHANGED Service!serviceVars
  <1>1. Handshake /\ Types /\ Received /\ Promised /\ Emission /\ Step(rx, full) /\ Promised'
    BY DEF Serving, Edge
  <1>2. taken' = taken /\ result' = result /\ ~soft_reset' /\ bstate # "BGAP"
    BY <1>1, Served DEF Promised
  <1>3. CASE main_state = "MAIN_WAIT_RESPONSE" /\ response_complete
    <2>1. bstate = "BDONE" /\ main_state' = "MAIN_IDLE"
      BY <1>1, <1>3, MainMoves DEF response_complete
    <2>2. bstate' = "BGAP" /\ emitted' = emitted
      <3>1. ~Sends(full)
        BY <2>1, AddressStates DEF Sends, SendState
      <3>2. bstate' = "BGAP"
        BY <1>1, <1>3, <2>1, <3>1, BuilderMoves DEF SendByte, Rest
      <3> QED BY <2>1, <3>1, <3>2 DEF Edge, Histories
    <2>3. Service!Answers(emitted, taken, result)
      BY <1>1, <2>1, ReplyAnswers
    <2>4. Service!Nothing = NoResult
      BY ServiceWords DEF Service!Nothing, NoResult
    <2> QED BY <1>2, <1>3, <2>1, <2>2, <2>3, <2>4 DEF Service!Answer
  <1>4. CASE ~(main_state = "MAIN_WAIT_RESPONSE" /\ response_complete)
    <2>1. main_state' = "MAIN_WAIT_RESPONSE"
      BY <1>1, <1>4, MainMoves
    <2>2. bstate' # "BGAP"
      BY <1>1, <2>1 DEF Promised
    <2> QED BY <1>2, <2>1, <2>2 DEF Service!serviceVars
  <1> QED BY <1>3, <1>4

(* ... and in the cycle of a soft reset.                                    *)
LEMMA ServesReset ==
    ASSUME Serving, NEW rx, NEW full, Edge(rx, full), soft_reset
    PROVE  UNCHANGED Service!serviceVars
  <1>1. Handshake /\ Promised /\ Step(rx, full)
    BY DEF Serving, Edge
  <1>2. bstate = "BIDLE" /\ bstate' = "BIDLE"
    <2>1. pstate = "POSTVTC" /\ main_state # "MAIN_WAIT_RESPONSE"
      BY <1>1 DEF Handshake, ParserPlace, ControlPlace
    <2> QED BY <1>1, <2>1, BuilderMoves DEF Handshake, BuilderPlace
  <1>3. main_state' = "MAIN_IDLE"
    BY <1>1, MainMoves
  <1> QED BY <1>2, <1>3 DEF Service!serviceVars

(* Uart_Axi4_Bridge: every frame is executed or refused, and answered       *)
(* exactly once with its true outcome, whatever the timing of the line, the *)
(* AXI master and the TX FIFO, and whatever the CRC function.               *)
THEOREM BridgeServesFrames ==
    ASSUME ~LateBytes, ~CutResets PROVE Spec => FrameServiceImplemented
  <1>1. Init => Serving
    BY ServingInit
  <1>2. Serving /\ [Next]_vars => Serving'
    <2> SUFFICES ASSUME Serving, [Next]_vars PROVE Serving'
      OBVIOUS
    <2>1. CASE Next
      <3>1. PICK rx, full : Edge(rx, full) /\ ResetComesWhole(rx)
        BY <2>1, NextIsWholeEdge DEF Serving
      <3> QED BY <2>1, <3>1, ServingStep
    <2>2. CASE UNCHANGED vars
      BY <2>2, ServingStutters
    <2> QED BY <2>1, <2>2
  <1>3. Init => Service!ServiceInit
    BY ServiceWords DEF Init, ParserInit, BuilderInit, ControlInit, Service!ServiceInit,
       Service!Nothing, NoResult
  <1>4. Serving /\ Serving' /\ [Next]_vars => [Service!ServiceNext]_(Service!serviceVars)
    <2> SUFFICES ASSUME Serving, Serving', [Next]_vars
                 PROVE  Service!ServiceNext \/ UNCHANGED Service!serviceVars
      OBVIOUS
    <2>1. CASE Next
      <3>1. PICK rx, full : Edge(rx, full)
        BY <2>1, NextIsWholeEdge DEF Serving
      <3>2. main_state \in MainState
        BY DEF Serving, Handshake, ControlPlace
      <3>3. CASE soft_reset
        BY <3>1, <3>3, ServesReset
      <3>4. CASE ~soft_reset /\ main_state = "MAIN_IDLE"
        BY <3>1, <3>4, ServesIdle DEF Service!ServiceNext
      <3>5. CASE ~soft_reset /\ main_state = "MAIN_AXI_TRANSACTION"
        BY <3>1, <3>5, ServesTransaction DEF Service!ServiceNext
      <3>6. CASE ~soft_reset /\ main_state \in {"MAIN_BUILD_RESPONSE", "MAIN_WAIT_RESPONSE"}
        BY <3>1, <3>6, ServesReply DEF Service!ServiceNext
      <3> QED BY <3>2, <3>3, <3>4, <3>5, <3>6 DEF MainState
    <2>2. CASE UNCHANGED vars
      BY <2>2 DEF vars, parserVars, builderVars, controlVars, Service!serviceVars
    <2> QED BY <2>1, <2>2
  <1> QED BY <1>1, <1>2, <1>3, <1>4, PTL DEF Spec, FrameServiceImplemented, Service!ServiceSpec
=============================================================================
