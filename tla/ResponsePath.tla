---------------------------- MODULE ResponsePath ----------------------------
(***************************************************************************)
(* The way back: Frame_Builder.sv, the TX FIFO, the feed of                *)
(* Uart_Axi4_Bridge.sv that hands its bytes to the transmitter, and        *)
(* Uart_Tx.sv.  One step is one clock edge.                                *)
(*                                                                         *)
(* The control state machine is its environment here: it asks for a        *)
(* response, and resets, only while the builder is idle, as the theorems   *)
(* BuildPulseIsNeverLost and SoftResetIsClean of RequestPath_proofs say.   *)
(* The FIFO is the bounded queue that FifoSync implements.                 *)
(***************************************************************************)
EXTENDS FrameBuilder, UartTx

CONSTANTS TxDepth,             \* TX_FIFO_DEPTH
          Requests,            \* the responses asked for
          Backlog,             \* bytes the host may leave unread when the next reply begins
          ResetWhileSending,   \* may a RESET come while a reply is on its way?
          CtsFree              \* may CTS be off in the cycle a byte is handed over?
                               \* (each is FALSE only to tell two causes apart)

Request == [status : Status, cmd : Byte \ {CMD_RESET}, addr : [1..4 -> Byte], data : Seq(Byte)]

ASSUME DepthsAreNumbers == TxDepth \in Nat \ {0} /\ Backlog \in Nat
ASSUME RequestsAreRequests ==
    /\ \A req \in Requests : /\ req \in Request
                             /\ Len(req.data) <= 64
    /\ {ResetWhileSending, CtsFree} \subseteq BOOLEAN

VARIABLES tx_fifo,                             \* contents of the TX FIFO
          tx_start_reg, tx_byte_done_delayed,  \* the feed
          owed,            \* history: bytes of the replies begun and not yet sent
          heard,           \* history: the bits a receiver sampled of this byte, as a number
          cut              \* history: a byte was handed over and not sent to its end

feedVars == <<tx_fifo, tx_start_reg, tx_byte_done_delayed>>
vars == <<builderVars, txVars, feedVars, owed, heard, cut>>

tx_fifo_full == Len(tx_fifo) = TxDepth

(* A reply on the wire.  Only a successful read carries address and data.   *)
Body(req) == <<req.status, req.cmd>>
             \o (IF IsRead(req.cmd) /\ req.status = STATUS_OK
                 THEN req.addr \o req.data ELSE <<>>)
Reply(req) == <<SOF_DEVICE>> \o Body(req) \o <<CrcOf(Body(req))>>

-----------------------------------------------------------------------------
tx_start_req == tx_fifo # <<>> /\ ~tx_busy /\ ~tx_start_reg

(* Mutant: the FIFO is popped when the byte is taken and when it is done.   *)
TxFifoClock_PopTwice ==
    LET kept == IF tx_fifo # <<>> /\ (tx_start_req \/ tx_done) THEN Tail(tx_fifo) ELSE tx_fifo
    IN  tx_fifo' = IF tx_fifo_wr_en /\ ~tx_fifo_full THEN Append(kept, tx_fifo_data) ELSE kept

(* A byte handed over is popped in that cycle; a byte written while the     *)
(* FIFO is full is dropped.                                                 *)
TxFifoClock ==
    LET kept == IF tx_start_req THEN Tail(tx_fifo) ELSE tx_fifo
    IN  tx_fifo' = IF tx_fifo_wr_en /\ ~tx_fifo_full THEN Append(kept, tx_fifo_data) ELSE kept

(* Mutant: the pulse is released on the report of tx_done and its delay at  *)
(* once, which never coincide.                                              *)
FeedClock_NeedsBoth ==
    /\ tx_byte_done_delayed' = tx_done
    /\ tx_start_reg' = (~(tx_done /\ tx_byte_done_delayed) /\ (tx_start_req \/ tx_start_reg))

(* Not reset by a soft reset. *)
FeedClock ==
    /\ tx_byte_done_delayed' = tx_done
    /\ tx_start_reg' = (~tx_byte_done_delayed /\ (tx_start_req \/ tx_start_reg))

(* A byte handed over is refused by a transmitter whose CTS is off, or that  *)
(* is reset in that cycle; a reset in mid-byte ends one on its way.          *)
Refused(cts, reset)  == tx_start_req /\ (reset \/ ~cts)
Aborted(tick, reset) == reset /\ tx_busy /\ ~ByteLeaves(tick)

Histories(build, req, cts, tick, reset) ==
    LET begun == bstate = "BIDLE" /\ BuildEdge(build) /\ ~reset
        left  == IF ByteLeaves(tick) THEN Tail(owed) ELSE owed
    IN  /\ owed'  = IF begun THEN left \o Reply(req) ELSE left
        /\ heard' = IF tx_state = "DATA_BITS"
                    THEN IF tick THEN heard + uart_tx * 2^bit_counter ELSE heard
                    ELSE IF tx_state = "STOP_BIT" THEN heard ELSE 0
        /\ cut' = (cut \/ Refused(cts, reset) \/ Aborted(tick, reset))

Clock(build, req, cts, tick, reset) ==
    /\ build => ~builder_busy /\ Len(owed) <= Backlog
    /\ reset => ~builder_busy /\ (ResetWhileSending \/ owed = <<>>)
    /\ tick => tx_busy
    /\ tx_start_req /\ ~cts => CtsFree
    /\ BuilderClock(tx_fifo_full, build, req, reset)
    /\ TxFifoClock
    /\ FeedClock
    /\ TxClock(tx_start_req, IF tx_fifo = <<>> THEN 0 ELSE Head(tx_fifo), cts, tick, reset)
    /\ Histories(build, req, cts, tick, reset)

Init == /\ BuilderInit /\ TxInit
        /\ tx_fifo = <<>> /\ tx_start_reg = FALSE /\ tx_byte_done_delayed = FALSE
        /\ owed = <<>> /\ heard = 0 /\ cut = FALSE

Next == \E build, cts, tick, reset \in BOOLEAN, req \in Requests :
            Clock(build, req, cts, tick, reset)

Spec == Init /\ [][Next]_vars

(* The clock runs, the baud counter comes round, and the host holds CTS for *)
(* a bit period again and again.                                            *)
Fairness == WF_vars(\E build, reset \in BOOLEAN, req \in Requests :
                        Clock(build, req, TRUE, tx_busy, reset))
FairSpec == Spec /\ Fairness

-----------------------------------------------------------------------------
(* Every register keeps its width and the FIFO its depth.                   *)
ResponseTypeOK ==
    /\ BuilderTypeOK /\ TxTypeOK
    /\ tx_fifo \in Seq(Byte) /\ Len(tx_fifo) <= TxDepth
    /\ tx_start_reg \in BOOLEAN /\ tx_byte_done_delayed \in BOOLEAN

(* assert_no_write_when_full of Frame_Builder.sv: the write strobe is a     *)
(* register, so the builder looks at the full flag one cycle before the     *)
(* byte lands; a byte that lands on a full FIFO is lost.                    *)
NoWriteWhenFull == tx_fifo_full => ~tx_fifo_wr_en

(* The byte handed over and not sent, the bytes in the FIFO and the one on  *)
(* the write port are, in this order, the next bytes owed to the host: none *)
(* is dropped, doubled or overtaken on the way from the builder to the      *)
(* line.  Of those handed over at most one is ever lost, a refused or       *)
(* aborted one, and nothing is read from the FIFO after it.                 *)
Unsent   == IF tx_busy \/ cut THEN 1 ELSE 0
InFlight == tx_fifo \o (IF tx_fifo_wr_en THEN <<tx_fifo_data>> ELSE <<>>)
BytesAccountedFor ==
    /\ Unsent + Len(InFlight) <= Len(owed)
    /\ SubSeq(owed, 1 + Unsent, Unsent + Len(InFlight)) = InFlight

(* A receiver that samples the line once per bit period reads, bit for bit, *)
(* the next byte of the reply: eight bits, least significant first.         *)
HostReadsTheReply == [][tx_state = "STOP_BIT" /\ tx_state' = "TX_IDLE"
                          => owed # <<>> /\ heard = Head(owed)]_vars

(* tx_start_reg is held until the UART finishes (Uart_Axi4_Bridge.sv): when *)
(* it is up, a byte is on its way out or its completion is being reported,  *)
(* unless a byte was refused at its hand-over or aborted by a RESET.  From  *)
(* then on it is up with nothing on its way, nobody ever lowers it, and the *)
(* FIFO is never read again.                                                *)
FeedHung == tx_start_reg /\ ~(tx_busy \/ tx_done \/ tx_byte_done_delayed)
FeedHungIffCut == FeedHung <=> cut

(* As long as bytes are owed another one leaves: with their order kept,     *)
(* every reply begun reaches the host, unless a byte is cut.                *)
LineKeepsMoving == (owed # <<>>) ~> (tx_done \/ cut)

(* The FIFO drains by itself (Uart_Axi4_Bridge.sv relies on it at a soft    *)
(* reset, and does not clear it).                                           *)
FifoSelfDrains == (tx_fifo # <<>>) ~> (tx_fifo = <<>>)
=============================================================================
