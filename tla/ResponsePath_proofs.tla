------------------------- MODULE ResponsePath_proofs -------------------------
(***************************************************************************)
(* Proofs about ResponsePath.  Whatever CTS and RESET do, the feed hangs   *)
(* exactly when a byte was cut; and with a TX FIFO as deep as the longest  *)
(* reply (72 bytes) and whatever the host has left unread, no byte lands   *)
(* on a full FIFO and a receiver on the line reads every reply bit for bit.*)
(*                                                                         *)
(* The first part is bookkeeping: the bytes owed to the host are exactly   *)
(* the one handed over, those in the FIFO, on the write port and still to  *)
(* be strobed by the builder (Ledger).  The second part puts them in order *)
(* (InOrder): with their number known, each byte has an index in what is   *)
(* owed.  The CRC is sent last and is that of the body because the register*)
(* follows the bytes sent (CrcPlace), and the eight bits of a byte add up  *)
(* because what was heard and what is left to shift always do (OnTheLine). *)
(***************************************************************************)
EXTENDS ResponsePath, FrameBuilder_proofs

Fits == TxDepth >= Backlog + 72

(* What may be owed: bytes, and the CRCs of the replies. *)
Word == Byte \cup {CrcOf(Body(req)) : req \in Requests}

Carries == IsRead(cmd_echo_reg) /\ status_reg = STATUS_OK
TailLen == IF Carries THEN 5 + Len(resp_data) ELSE 1

(* Bytes of the response the builder has still to strobe into the FIFO. *)
Left == CASE bstate = "BSOF"          -> 3 + TailLen
          [] bstate = "BSTATUS"       -> 2 + TailLen
          [] bstate = "BCMD"          -> 1 + TailLen
          [] bstate = BAddrState[1]   -> 5 + Len(resp_data)
          [] bstate = BAddrState[2]   -> 4 + Len(resp_data)
          [] bstate = BAddrState[3]   -> 3 + Len(resp_data)
          [] bstate = BAddrState[4]   -> 2 + Len(resp_data)
          [] bstate = "BDATA"         -> 1 + Len(resp_data) - data_index
          [] bstate = "BCRC"          -> 1
          [] OTHER                    -> 0

Strobed == IF tx_fifo_wr_en THEN 1 ELSE 0

(* Facts about a response under way that the state machine relies on. *)
UnderWay ==
    /\ bstate # "BIDLE" => cmd_echo_reg # CMD_RESET /\ status_reg \in Status
    /\ IndexAtStart

Widths ==
    /\ BuilderTypeOK /\ UnderWay
    /\ TxTypeOK
    /\ tx_state \in {"TX_IDLE", "START_BIT"} => bit_counter = 0
    /\ tx_state = "DATA_BITS" => bit_counter <= 7
    /\ tx_fifo \in Seq(Byte)
    /\ tx_start_reg \in BOOLEAN /\ tx_byte_done_delayed \in BOOLEAN

Ledger ==
    /\ owed \in Seq(Word)
    /\ Len(owed) = Unsent + Len(tx_fifo) + Strobed + Left
    /\ Len(owed) <= Backlog + 72

(* The feed goes through a byte in order: it is on its way out, reported    *)
(* done, the report seen.  The pulse is up through all three, and up        *)
(* outside them if and only if the byte was cut.                            *)
FeedState ==
    /\ tx_start_reg \in BOOLEAN /\ tx_byte_done_delayed \in BOOLEAN
    /\ tx_done \in BOOLEAN /\ cut \in BOOLEAN
    /\ tx_busy \/ tx_done \/ tx_byte_done_delayed => tx_start_reg
    /\ ~(tx_busy /\ tx_done) /\ ~(tx_busy /\ tx_byte_done_delayed)
    /\ ~(tx_done /\ tx_byte_done_delayed)
    /\ FeedHungIffCut

IInv == Widths /\ Ledger /\ Len(tx_fifo) <= TxDepth /\ FeedState

-----------------------------------------------------------------------------
(* What the requests are made of, as sequences.                             *)
LEMMA RequestFields ==
    ASSUME NEW req \in Requests
    PROVE  /\ req.status \in Status /\ req.status \in Byte
           /\ req.cmd \in Byte /\ req.cmd # CMD_RESET
           /\ req.addr \in [1..4 -> Byte] /\ req.addr \in Seq(Byte) /\ Len(req.addr) = 4
           /\ req.data \in Seq(Byte) /\ Len(req.data) \in Nat /\ Len(req.data) <= 64
  <1>1. req \in Request /\ Len(req.data) <= 64
    BY RequestsAreRequests
  <1>2. /\ req.status \in Status /\ req.cmd \in Byte /\ req.cmd # CMD_RESET
        /\ req.addr \in [1..4 -> Byte] /\ req.data \in Seq(Byte)
    BY <1>1 DEF Request
  <1>3. req.addr \in Seq(Byte) /\ Len(req.addr) = 4
    BY <1>2, AddressIsSeq
  <1>4. Len(req.data) \in Nat
    BY <1>2, LenProperties
  <1>5. req.status \in Byte
    BY <1>2 DEF Status, Byte
  <1> QED BY <1>1, <1>2, <1>3, <1>4, <1>5

(* A reply is four bytes long, eight more than its data if it carries any.  *)
LEMMA ReplyLength ==
    ASSUME NEW req \in Requests
    PROVE  /\ Reply(req) \in Seq(Word)
           /\ IsRead(req.cmd) /\ req.status = STATUS_OK =>
                 Len(Reply(req)) = 8 + Len(req.data)
           /\ ~(IsRead(req.cmd) /\ req.status = STATUS_OK) => Len(Reply(req)) = 4
  <1> DEFINE reads   == IsRead(req.cmd) /\ req.status = STATUS_OK
             payload == IF reads THEN req.addr \o req.data ELSE <<>>
             head    == <<req.status, req.cmd>>
             crc     == CrcOf(Body(req))
  <1>1. /\ payload \in Seq(Byte)
        /\ reads => Len(payload) = 4 + Len(req.data)
        /\ ~reads => Len(payload) = 0
    <2>1. CASE reads
      <3>1. payload = req.addr \o req.data
        BY <2>1
      <3>2. payload \in Seq(Byte) /\ Len(payload) = Len(req.addr) + Len(req.data)
        BY <3>1, RequestFields, ConcatProperties
      <3> QED BY <2>1, <3>2, RequestFields
    <2>2. CASE ~reads
      BY <2>2, EmptySeq
    <2> QED BY <2>1, <2>2
  <1>2. Body(req) = head \o payload /\ head \in Seq(Byte) /\ Len(head) = 2
    BY RequestFields DEF Body
  <1>3. crc \in Word /\ Byte \subseteq Word /\ SOF_DEVICE \in Word
    BY DEF Word, Byte, SOF_DEVICE
  <1>4. Reply(req) = <<SOF_DEVICE>> \o Body(req) \o <<crc>>
    BY DEF Reply
  <1> HIDE DEF payload, head, crc
  <1>5. Body(req) \in Seq(Byte) /\ Len(Body(req)) = 2 + Len(payload)
    <2>1. /\ head \o payload \in Seq(Byte)
          /\ Len(head \o payload) = Len(head) + Len(payload)
      BY <1>1, <1>2, ConcatProperties
    <2> HIDE DEF reads
    <2> QED BY <1>2, <2>1
  <1>6. Body(req) \in Seq(Word)
    BY <1>3, <1>5, SeqMonotonic
  <1>7. Reply(req) \in Seq(Word) /\ Len(Reply(req)) = Len(Body(req)) + 2
    BY <1>3, <1>4, <1>6
  <1>8. reads => Len(Reply(req)) = 8 + Len(req.data)
    <2>1. reads => Len(payload) = 4 + Len(req.data) /\ Len(req.data) \in Nat
      BY <1>1, RequestFields
    <2> HIDE DEF reads
    <2> QED BY <1>5, <1>7, <2>1
  <1>9. ~reads => Len(Reply(req)) = 4
    BY <1>1, <1>5, <1>7
  <1> QED BY <1>7, <1>8, <1>9

(* Only a successful read goes on to address and data. *)
LEMMA AfterCommand ==
    ASSUME Widths
    PROVE  bstate = "BCMD" => AfterSend = IF Carries THEN BAddrState[1] ELSE "BCRC"
  <1> SUFFICES ASSUME bstate = "BCMD"
               PROVE  AfterSend = IF Carries THEN BAddrState[1] ELSE "BCRC"
    OBVIOUS
  <1>1. AfterSend = AfterCmd
    BY AddressStates DEF AfterSend
  <1>2. cmd_echo_reg # CMD_RESET /\ status_reg \in 0..6
    BY DEF Widths, UnderWay, Status
  <1>3. AfterCmd = IF Carries THEN BAddrState[1] ELSE "BCRC"
    BY <1>2 DEF AfterCmd, Carries, STATUS_OK
  <1> QED BY <1>1, <1>3

(* One clock of the builder, as its environment here drives it. *)
Driven(build, req, reset) ==
    /\ build \in BOOLEAN /\ reset \in BOOLEAN /\ req \in Requests
    /\ build => ~builder_busy
    /\ reset => ~builder_busy
    /\ BuilderClock(tx_fifo_full, build, req, reset)

(* The builder's registers keep their widths. *)
LEMMA DrivenWidths ==
    ASSUME Widths, NEW build, NEW req, NEW reset, Driven(build, req, reset)
    PROVE  BuilderTypeOK' /\ UnderWay'
  <1>1. IsRequest(req)
    BY RequestFields DEF Driven, IsRequest
  <1>2. BuilderTypeOK' /\ IndexAtStart'
    BY <1>1, BuilderWidths DEF Driven, Widths, UnderWay
  <1>3. bstate' # "BIDLE" => cmd_echo_reg' # CMD_RESET /\ status_reg' \in Status
    <2>1. CASE reset
      BY <2>1 DEF Driven, BuilderClock, BuilderSoftReset
    <2>2. CASE ~reset
      <3>1. CASE StartResponse(build, req)
        BY <3>1, RequestFields DEF StartResponse, Driven
      <3>2. CASE SendByte(tx_fifo_full, build)
        <4>1. bstate # "BIDLE"
          BY <3>2, AddressStates DEF SendByte, Sends, SendState
        <4> QED BY <3>2, <4>1 DEF SendByte, requestRegs, Widths, UnderWay
      <3>3. CASE Rest(tx_fifo_full, build)
        <4>1. bstate' # "BIDLE" => bstate # "BIDLE"
          BY <3>3 DEF Rest
        <4> QED BY <3>3, <4>1 DEF Rest, requestRegs, Widths, UnderWay
      <3> QED BY <2>2, <3>1, <3>2, <3>3 DEF Driven, BuilderClock, BuilderFsm
    <2> QED BY <2>1, <2>2 DEF Driven
  <1> QED BY <1>2, <1>3 DEF UnderWay

(* What is still to be strobed shrinks by one with every strobe. *)
LEMMA BuilderBooks ==
    ASSUME Widths, NEW build, NEW req, NEW reset, Driven(build, req, reset)
    PROVE  LET begun == bstate = "BIDLE" /\ BuildEdge(build) /\ ~reset
           IN  /\ begun => Left = 0 /\ Strobed' = 0 /\ Left' = Len(Reply(req))
               /\ ~begun => Left' = Left - Strobed'
               /\ Left \in Nat /\ Left' \in Nat
  <1> DEFINE begun == bstate = "BIDLE" /\ BuildEdge(build) /\ ~reset
  <1>1. /\ build \in BOOLEAN /\ req \in Requests
        /\ (IF reset THEN BuilderSoftReset ELSE BuilderFsm(tx_fifo_full, build, req))
    BY DEF Driven, BuilderClock
  <1>2. /\ Len(resp_data) \in Nat /\ Len(resp_data') \in Nat
        /\ data_index \in Nat /\ data_index' \in Nat
        /\ bstate = "BDATA" => data_index < Len(resp_data)
        /\ bstate' = "BDATA" => data_index' < Len(resp_data')
        /\ bstate \in BuilderState
    <2>1. BuilderTypeOK /\ BuilderTypeOK'
      BY DrivenWidths DEF Widths
    <2>2. resp_data \in Seq(Byte) /\ resp_data' \in Seq(Byte)
      BY <2>1 DEF BuilderTypeOK
    <2>3. Len(resp_data) \in Nat /\ Len(resp_data') \in Nat
      BY <2>2, LenProperties
    <2> QED BY <2>1, <2>3 DEF BuilderTypeOK
  <1>3. Left \in Nat
    BY <1>2, AddressStates DEF Left, TailLen
  <1>4. Left' \in Nat
    <2>1. TailLen' \in Nat
      BY <1>2 DEF TailLen
    <2> QED BY <1>2, <2>1, AddressStates DEF Left
  <1>5. CASE reset
    <2>1. bstate = "BIDLE" /\ bstate' = "BIDLE" /\ tx_fifo_wr_en' = FALSE
      BY <1>1, <1>5 DEF Driven, builder_busy, BuilderSoftReset
    <2>2. Left = 0 /\ Left' = 0 /\ Strobed' = 0
      BY <2>1, AddressStates DEF Left, Strobed
    <2> QED BY <1>3, <1>4, <1>5, <2>2
  <1>6. CASE ~reset
    <2>1. /\ StartResponse(build, req) \/ SendByte(tx_fifo_full, build)
             \/ Rest(tx_fifo_full, build)
          /\ tx_fifo_wr_en' = Sends(tx_fifo_full)
      BY <1>1, <1>6 DEF BuilderFsm
    <2>2. CASE begun
      <3>1. ~Sends(tx_fifo_full) /\ StartResponse(build, req)
        BY <2>1, <2>2, AddressStates DEF Sends, SendState, SendByte, Rest
      <3>2. /\ bstate' = "BSOF" /\ cmd_echo_reg' = req.cmd /\ status_reg' = req.status
            /\ resp_data' = req.data
        BY <3>1 DEF StartResponse
      <3>3. Left = 0
        BY <2>2, AddressStates DEF Left
      <3>4. Left' = 3 + TailLen'
        BY <3>2, AddressStates DEF Left
      <3>5. Carries' <=> IsRead(req.cmd) /\ req.status = STATUS_OK
        BY <3>2 DEF Carries, IsRead
      <3>6. CASE Carries'
        <4>1. TailLen' = 5 + Len(req.data)
          BY <3>2, <3>6 DEF TailLen
        <4>2. Len(Reply(req)) = 8 + Len(req.data) /\ Len(req.data) \in Nat
          BY <1>1, <3>5, <3>6, ReplyLength, RequestFields
        <4> QED BY <2>1, <2>2, <3>1, <3>3, <3>4, <4>1, <4>2, <1>3, <1>4 DEF Strobed
      <3>7. CASE ~Carries'
        <4>1. TailLen' = 1
          BY <3>7 DEF TailLen
        <4>2. Len(Reply(req)) = 4
          BY <1>1, <3>5, <3>7, ReplyLength
        <4> QED BY <2>1, <2>2, <3>1, <3>3, <3>4, <4>1, <4>2, <1>3, <1>4 DEF Strobed
      <3> QED BY <3>6, <3>7
    <2>3. CASE ~begun /\ Sends(tx_fifo_full)
      <3>1. bstate \in SendState /\ bstate # "BIDLE" /\ ~BuildEdge(build)
        BY <2>3, AddressStates DEF Sends, SendState, Driven, builder_busy, BuildEdge
      <3>2. SendByte(tx_fifo_full, build)
        BY <2>1, <2>3, <3>1 DEF StartResponse, Rest
      <3>3. /\ bstate' = AfterSend /\ resp_data' = resp_data
            /\ status_reg' = status_reg /\ cmd_echo_reg' = cmd_echo_reg
            /\ data_index' = IF bstate = "BDATA" THEN data_index + 1 ELSE data_index
        BY <3>1, <3>2 DEF SendByte, requestRegs
      <3>4. TailLen' = TailLen /\ TailLen \in Nat
            /\ (Carries => TailLen = 5 + Len(resp_data)) /\ (~Carries => TailLen = 1)
        BY <1>2, <3>3 DEF TailLen, Carries, IsRead
      <3>5. bstate \in SendState \ {"BDATA"} => data_index = 0 \/ bstate = "BCRC"
        BY AddressStates DEF Widths, UnderWay, IndexAtStart, SendState
      <3>6. Left' = Left - 1
        <4> USE NextState, AfterCommand, AddressStates, <3>3
        <4>1. CASE bstate \in {"BSOF", "BSTATUS"}
          BY <3>4, <4>1 DEF Left
        <4>2. CASE bstate = "BCMD"
          <5>1. Left = 1 + TailLen
            BY <4>2 DEF Left
          <5>2. CASE Carries
            <6>1. bstate' = BAddrState[1]
              BY <4>2, <5>2
            <6>2. Left' = 5 + Len(resp_data)
              BY <6>1 DEF Left
            <6> QED BY <1>2, <3>4, <5>1, <5>2, <6>2
          <5>3. CASE ~Carries
            <6>1. bstate' = "BCRC"
              BY <4>2, <5>3
            <6>2. Left' = 1
              BY <6>1 DEF Left
            <6> QED BY <3>4, <5>1, <5>3, <6>2
          <5> QED BY <5>2, <5>3
        <4>3. CASE bstate \in {BAddrState[1], BAddrState[2], BAddrState[3]}
          BY <1>2, <4>3 DEF Left
        <4>4. CASE bstate = BAddrState[4]
          <5>1. Left = 2 + Len(resp_data) /\ data_index' = 0
            BY <3>5, <4>4 DEF Left, SendState
          <5>2. CASE Len(resp_data) > 0
            BY <1>2, <4>4, <5>1, <5>2 DEF Left
          <5>3. CASE Len(resp_data) = 0
            BY <4>4, <5>1, <5>3 DEF Left
          <5> QED BY <1>2, <5>2, <5>3
        <4>5. CASE bstate = "BDATA"
          <5>1. Left = 1 + Len(resp_data) - data_index
            BY <4>5 DEF Left
          <5>2. CASE data_index + 1 = Len(resp_data)
            BY <1>2, <4>5, <5>1, <5>2 DEF Left
          <5>3. CASE data_index + 1 # Len(resp_data)
            BY <1>2, <4>5, <5>1, <5>3 DEF Left
          <5> QED BY <5>2, <5>3
        <4>6. CASE bstate = "BCRC"
          BY <4>6 DEF Left
        <4> QED BY <3>1, <4>1, <4>2, <4>3, <4>4, <4>5, <4>6 DEF SendState
      <3> QED BY <1>3, <1>4, <2>1, <2>3, <3>6 DEF Strobed
    <2>4. CASE ~begun /\ ~Sends(tx_fifo_full)
      <3>1. Rest(tx_fifo_full, build)
        BY <1>6, <2>1, <2>4 DEF StartResponse, SendByte
      <3>2. bstate # "BIDLE" => ~BuildEdge(build)
        BY DEF Driven, builder_busy, BuildEdge
      <3>3. /\ bstate' = CASE bstate = "BDONE" -> "BGAP" [] bstate = "BGAP" -> "BIDLE"
                           [] OTHER -> bstate
            /\ resp_data' = resp_data /\ status_reg' = status_reg /\ cmd_echo_reg' = cmd_echo_reg
            /\ bstate # "BIDLE" => data_index' = data_index
        BY <3>1, <3>2 DEF Rest, requestRegs
      <3>4. CASE bstate \in {"BIDLE", "BDONE", "BGAP"}
        <4>1. bstate' \in {"BIDLE", "BGAP"}
          BY <3>3, <3>4
        <4>2. Left = 0 /\ Left' = 0
          BY <3>4, <4>1, AddressStates DEF Left
        <4>3. Strobed' = 0
          BY <2>1, <2>4 DEF Strobed
        <4>4. Left' = Left - Strobed'
          BY <4>2, <4>3
        <4> QED BY <1>3, <1>4, <2>4, <4>4
      <3>5. CASE bstate \notin {"BIDLE", "BDONE", "BGAP"}
        <4>1. bstate' = bstate /\ data_index' = data_index
          BY <3>3, <3>5
        <4>2. TailLen' = TailLen
          BY <3>3 DEF TailLen, Carries, IsRead
        <4>3. Left' = Left
          BY <3>3, <4>1, <4>2 DEF Left
        <4>4. Strobed' = 0
          BY <2>1, <2>4 DEF Strobed
        <4>5. Left - Strobed' = Left
          BY <1>3, <4>4
        <4>6. Left' = Left - Strobed'
          BY <4>3, <4>5, Zenon
        <4> QED BY <1>3, <1>4, <2>4, <4>6
      <3> QED BY <3>4, <3>5
    <2> QED BY <2>2, <2>3, <2>4
  <1> QED BY <1>5, <1>6

-----------------------------------------------------------------------------
LEMMA LeftIsNumber == ASSUME Widths PROVE Left \in Nat
  <1>1. resp_data \in Seq(Byte) /\ data_index \in Nat
        /\ (bstate = "BDATA" => data_index < Len(resp_data))
    BY DEF Widths, BuilderTypeOK
  <1>2. Len(resp_data) \in Nat
    BY <1>1, LenProperties
  <1>3. TailLen \in Nat
    BY <1>2 DEF TailLen
  <1> QED BY <1>1, <1>2, <1>3, AddressStates DEF Left

(* The FIFO at one clock edge: one byte more if one lands and there is      *)
(* room, one less if one is handed over.                                    *)
LEMMA FifoStep ==
    ASSUME Widths, TxFifoClock
    PROVE  /\ tx_fifo' \in Seq(Byte)
           /\ tx_fifo # <<>> => Head(tx_fifo) \in Byte
           /\ Len(tx_fifo') = Len(tx_fifo) + (IF tx_fifo_wr_en /\ ~tx_fifo_full THEN 1 ELSE 0)
                                           - (IF tx_start_req THEN 1 ELSE 0)
  <1> DEFINE kept == IF tx_start_req THEN Tail(tx_fifo) ELSE tx_fifo
  <1>1. tx_fifo \in Seq(Byte) /\ tx_fifo_data \in Byte /\ tx_fifo_wr_en \in BOOLEAN
    BY DEF Widths, BuilderTypeOK
  <1>2. tx_fifo # <<>> => /\ Head(tx_fifo) \in Byte /\ Tail(tx_fifo) \in Seq(Byte)
                          /\ Len(Tail(tx_fifo)) = Len(tx_fifo) - 1
    BY <1>1, HeadTailProperties
  <1>3. kept \in Seq(Byte) /\ Len(tx_fifo) \in Nat
    BY <1>1, <1>2, LenProperties DEF tx_start_req
  <1>4. Len(kept) = Len(tx_fifo) - (IF tx_start_req THEN 1 ELSE 0)
    <2>1. CASE tx_start_req
      BY <1>2, <2>1 DEF tx_start_req
    <2>2. CASE ~tx_start_req
      BY <1>3, <2>2
    <2> QED BY <2>1, <2>2
  <1>5. tx_fifo' = IF tx_fifo_wr_en /\ ~tx_fifo_full THEN Append(kept, tx_fifo_data) ELSE kept
    BY DEF TxFifoClock
  <1> HIDE DEF kept
  <1>6. /\ Append(kept, tx_fifo_data) \in Seq(Byte)
        /\ Len(Append(kept, tx_fifo_data)) = Len(kept) + 1
    BY <1>1, <1>3, AppendProperties
  <1>7. Len(kept) \in Nat
    BY <1>3, LenProperties
  <1>8. /\ tx_fifo' \in Seq(Byte)
        /\ Len(tx_fifo') = Len(kept) + (IF tx_fifo_wr_en /\ ~tx_fifo_full THEN 1 ELSE 0)
    <2>1. CASE tx_fifo_wr_en /\ ~tx_fifo_full
      BY <1>5, <1>6, <2>1
    <2>2. CASE ~(tx_fifo_wr_en /\ ~tx_fifo_full)
      BY <1>3, <1>5, <1>7, <2>2
    <2> QED BY <2>1, <2>2
  <1> QED BY <1>2, <1>3, <1>4, <1>8

(* The registers of the transmitter at one clock edge. *)
LEMMA TransmitterStep ==
    ASSUME Widths, NEW data \in Byte, NEW cts \in BOOLEAN, NEW tick \in BOOLEAN,
           NEW reset \in BOOLEAN, TxClock(tx_start_req, data, cts, tick, reset)
    PROVE  /\ TxTypeOK'
           /\ tx_state' \in {"TX_IDLE", "START_BIT"} => bit_counter' = 0
           /\ tx_state' = "DATA_BITS" => bit_counter' <= 7
  <1>1. /\ TxTypeOK
        /\ tx_state \in {"TX_IDLE", "START_BIT"} => bit_counter = 0
        /\ tx_state = "DATA_BITS" => bit_counter <= 7
    BY DEF Widths
  <1>2. tx_done' \in BOOLEAN
    BY DEF TxClock, ByteLeaves
  <1>3. CASE reset
    BY <1>2, <1>3 DEF TxClock, TxSoftReset, TxTypeOK, TxState
  <1>4. CASE ~reset
    <2>1. CASE Latch(tx_start_req, data, cts)
      BY <1>1, <1>2, <2>1 DEF Latch, TxTypeOK, TxState, Byte
    <2>2. CASE Idle(tx_start_req, cts)
      BY <1>1, <1>2, <2>2 DEF Idle, TxTypeOK, TxState
    <2>3. CASE StartBit(tick, cts)
      <3>1. /\ tx_state = "START_BIT" /\ tx_state' \in {"START_BIT", "DATA_BITS"}
            /\ tx_shift_reg' = tx_shift_reg /\ bit_counter' = bit_counter
        BY <2>3 DEF StartBit
      <3>2. bit_counter = 0
        BY <3>1 DEF Widths
      <3> QED BY <1>1, <1>2, <3>1, <3>2 DEF TxTypeOK, TxState
    <2>4. CASE DataBit(tick)
      BY <1>1, <1>2, <2>4 DEF DataBit, TxTypeOK, TxState
    <2>5. CASE StopBit(tick)
      BY <1>1, <1>2, <2>5 DEF StopBit, TxTypeOK, TxState
    <2>6. CASE Hold(tick)
      BY <1>1, <1>2, <2>6 DEF Hold, TxTypeOK, TxState
    <2> QED BY <1>4, <2>1, <2>2, <2>3, <2>4, <2>5, <2>6 DEF TxClock
  <1> QED BY <1>3, <1>4

-----------------------------------------------------------------------------
(* When the transmitter is busy and when it reports a byte done: it takes   *)
(* one only with CTS, a RESET stops it, and a stop bit that ends is reported*)
(* whatever the RESET does.                                                 *)
LEMMA BusyStep ==
    ASSUME NEW data, NEW cts \in BOOLEAN, NEW tick \in BOOLEAN, NEW reset \in BOOLEAN,
           TxClock(tx_start_req, data, cts, tick, reset)
    PROVE  /\ tx_busy' <=> ~reset /\ ((tx_start_req /\ cts) \/ (tx_busy /\ ~ByteLeaves(tick)))
           /\ tx_done' = ByteLeaves(tick)
  <1>1. tx_done' = ByteLeaves(tick)
    BY DEF TxClock
  <1>2. CASE reset
    BY <1>1, <1>2 DEF TxClock, TxSoftReset, tx_busy
  <1>3. CASE ~reset
    <2>1. tx_start_req => ~tx_busy
      BY DEF tx_start_req
    <2>2. CASE Latch(tx_start_req, data, cts)
      BY <1>1, <1>3, <2>2 DEF Latch, tx_busy
    <2>3. CASE Idle(tx_start_req, cts)
      BY <1>1, <1>3, <2>3 DEF Idle, tx_busy
    <2>4. CASE StartBit(tick, cts)
      BY <1>1, <1>3, <2>1, <2>4 DEF StartBit, tx_busy, ByteLeaves
    <2>5. CASE DataBit(tick)
      BY <1>1, <1>3, <2>1, <2>5 DEF DataBit, tx_busy, ByteLeaves
    <2>6. CASE StopBit(tick)
      BY <1>1, <1>3, <2>1, <2>6 DEF StopBit, tx_busy, ByteLeaves
    <2>7. CASE Hold(tick)
      BY <1>1, <1>3, <2>1, <2>7 DEF Hold, tx_busy, ByteLeaves
    <2> QED BY <1>3, <2>2, <2>3, <2>4, <2>5, <2>6, <2>7 DEF TxClock
  <1> QED BY <1>2, <1>3

(* The feed at one clock edge.  A byte handed over is unsent until it       *)
(* leaves, and if it is cut it stays so: none is handed over after it.      *)
LEMMA FeedStep ==
    ASSUME FeedState, NEW build \in BOOLEAN, NEW cts \in BOOLEAN, NEW tick \in BOOLEAN,
           NEW reset \in BOOLEAN, NEW req, Clock(build, req, cts, tick, reset)
    PROVE  /\ FeedState'
           /\ tx_start_req => ~tx_busy /\ ~cut
           /\ ByteLeaves(tick) => tx_busy /\ ~cut
           /\ tx_busy' \/ cut' <=> tx_start_req \/ ((tx_busy \/ cut) /\ ~ByteLeaves(tick))
  <1> DEFINE leaves == ByteLeaves(tick)
             taken  == tx_start_req
  <1>1. /\ tx_busy' <=> ~reset /\ ((taken /\ cts) \/ (tx_busy /\ ~leaves))
        /\ tx_done' = leaves
    BY BusyStep DEF Clock
  <1>2. /\ tx_byte_done_delayed' = tx_done
        /\ tx_start_reg' = (~tx_byte_done_delayed /\ (taken \/ tx_start_reg))
    BY DEF Clock, FeedClock
  <1>3. cut' = (cut \/ (taken /\ (reset \/ ~cts)) \/ (reset /\ tx_busy /\ ~leaves))
    BY DEF Clock, Histories, Refused, Aborted
  <1>4. /\ taken => ~tx_busy /\ ~tx_start_reg
        /\ leaves => tx_busy
        /\ leaves \in BOOLEAN /\ taken \in BOOLEAN
    BY DEF tx_start_req, ByteLeaves, tx_busy
  <1>5. /\ tx_start_reg \in BOOLEAN /\ tx_byte_done_delayed \in BOOLEAN
        /\ tx_done \in BOOLEAN /\ cut \in BOOLEAN
        /\ tx_busy \/ tx_done \/ tx_byte_done_delayed => tx_start_reg
        /\ ~(tx_busy /\ tx_done) /\ ~(tx_busy /\ tx_byte_done_delayed)
        /\ ~(tx_done /\ tx_byte_done_delayed)
        /\ cut <=> tx_start_reg /\ ~(tx_busy \/ tx_done \/ tx_byte_done_delayed)
    BY DEF FeedState, FeedHungIffCut, FeedHung
  <1> HIDE DEF leaves, taken
  <1>6. /\ tx_start_reg' \in BOOLEAN /\ tx_byte_done_delayed' \in BOOLEAN
        /\ tx_done' \in BOOLEAN /\ cut' \in BOOLEAN
    BY <1>1, <1>2, <1>3, <1>4, <1>5, Zenon
  <1>7. /\ tx_done' <=> leaves
        /\ tx_byte_done_delayed' <=> tx_done
        /\ tx_start_reg' <=> ~tx_byte_done_delayed /\ (taken \/ tx_start_reg)
        /\ cut' <=> cut \/ (taken /\ (reset \/ ~cts)) \/ (reset /\ tx_busy /\ ~leaves)
    BY <1>1, <1>2, <1>3, <1>4, <1>5, Zenon
  <1>8. /\ tx_busy' \/ tx_done' \/ tx_byte_done_delayed' => tx_start_reg'
        /\ ~(tx_busy' /\ tx_done') /\ ~(tx_busy' /\ tx_byte_done_delayed')
        /\ ~(tx_done' /\ tx_byte_done_delayed')
        /\ cut' <=> tx_start_reg' /\ ~(tx_busy' \/ tx_done' \/ tx_byte_done_delayed')
    BY <1>1, <1>4, <1>5, <1>7
  <1>9. FeedState'
    BY <1>6, <1>8 DEF FeedState, FeedHungIffCut, FeedHung
  <1>10. /\ taken => ~tx_busy /\ ~cut
         /\ leaves => tx_busy /\ ~cut
         /\ tx_busy' \/ cut' <=> taken \/ ((tx_busy \/ cut) /\ ~leaves)
    BY <1>1, <1>4, <1>5, <1>7
  <1> QED BY <1>9, <1>10 DEF leaves, taken

-----------------------------------------------------------------------------
LEMMA IInvInit == ASSUME Fits, Init PROVE IInv
  <1>1. /\ bstate = "BIDLE" /\ data_index = 0 /\ bcrc_reg = 0
        /\ status_reg = 0 /\ cmd_echo_reg = 0 /\ resp_data = <<>> /\ tx_fifo_data = 0
    BY DEF Init, BuilderInit
  <1>2. tx_fifo_wr_en = FALSE /\ build_response_prev = FALSE /\ tx_start_reg = FALSE
        /\ tx_byte_done_delayed = FALSE /\ tx_done = FALSE
    BY DEF Init, BuilderInit, TxInit
  <1>3. tx_state = "TX_IDLE" /\ bit_counter = 0 /\ tx_shift_reg = 0 /\ tx_fifo = <<>> /\ owed = <<>>
        /\ cut = FALSE
    BY DEF Init, TxInit
  <1>4. addr_echo_reg \in [1..4 -> Byte]
    <2>1. [i \in 1..4 |-> 0] \in [1..4 -> Byte]
      BY DEF Byte
    <2> QED BY <2>1, Zenon DEF Init, BuilderInit
  <1>5. /\ resp_data \in Seq(Byte) /\ Len(resp_data) = 0
        /\ tx_fifo \in Seq(Byte) /\ Len(tx_fifo) = 0
        /\ owed \in Seq(Word) /\ Len(owed) = 0
    BY <1>1, <1>3, EmptySeq, Zenon
  <1>6. /\ tx_fifo_wr_en \in BOOLEAN /\ build_response_prev \in BOOLEAN /\ tx_start_reg \in BOOLEAN
        /\ tx_byte_done_delayed \in BOOLEAN /\ tx_done \in BOOLEAN
    BY <1>2, Zenon
  <1>7. BuilderTypeOK
    BY <1>1, <1>4, <1>5, <1>6 DEF BuilderTypeOK, BuilderState, Byte
  <1>8. Widths
    BY <1>1, <1>3, <1>5, <1>6, <1>7, AddressStates DEF Widths, UnderWay, IndexAtStart, TxTypeOK, TxState
  <1>9. Ledger
    <2>1. Left = 0
      BY <1>1, AddressStates DEF Left
    <2>2. Strobed = 0 /\ Unsent = 0
      BY <1>2, <1>3 DEF Strobed, Unsent, tx_busy
    <2> QED BY <1>5, <2>1, <2>2, DepthsAreNumbers DEF Ledger
  <1>10. FeedState
    BY <1>2, <1>3 DEF FeedState, FeedHungIffCut, FeedHung, tx_busy
  <1> QED BY <1>5, <1>8, <1>9, <1>10, DepthsAreNumbers DEF IInv

(* No room is asked for that is not there: what lands was owed.             *)
LEMMA RoomForAll == ASSUME Fits, Widths, Ledger PROVE NoWriteWhenFull /\ Len(tx_fifo) <= TxDepth
  <1>1. Len(tx_fifo) \in Nat /\ Len(owed) \in Nat
    BY LenProperties DEF Widths, Ledger
  <1>2. Left \in Nat
    BY LeftIsNumber
  <1>3. Unsent \in {0, 1} /\ Strobed \in {0, 1} /\ (tx_fifo_wr_en => Strobed = 1)
    BY DEF Unsent, Strobed
  <1>4. Len(tx_fifo) + Strobed <= TxDepth
    BY <1>1, <1>2, <1>3, DepthsAreNumbers DEF Fits, Ledger
  <1> QED BY <1>1, <1>3, <1>4, DepthsAreNumbers DEF NoWriteWhenFull, tx_fifo_full

(* The events of a clock edge in the books. *)
Begun(build, reset) == bstate = "BIDLE" /\ BuildEdge(build) /\ ~reset
HandedOver      == IF tx_start_req THEN 1 ELSE 0
Leaving(tick)   == IF ByteLeaves(tick) THEN 1 ELSE 0
Remaining(tick) == IF ByteLeaves(tick) THEN Tail(owed) ELSE owed

(* One clock edge in the books: a byte strobed lands in the FIFO, one       *)
(* handed over moves on to the transmitter, and one that leaves is no       *)
(* longer owed.                                                             *)
LEMMA BooksMove ==
    ASSUME Fits, IInv, NEW build \in BOOLEAN, NEW cts \in BOOLEAN, NEW tick \in BOOLEAN,
           NEW reset \in BOOLEAN, NEW req \in Requests, Clock(build, req, cts, tick, reset)
    PROVE  /\ Widths /\ Ledger /\ NoWriteWhenFull /\ Driven(build, req, reset) /\ Widths'
           /\ Begun(build, reset) => Left = 0 /\ Strobed' = 0 /\ Left' = Len(Reply(req))
           /\ ~Begun(build, reset) => Left' = Left - Strobed'
           /\ Left \in Nat /\ Left' \in Nat
           /\ Len(tx_fifo) \in Nat /\ Len(tx_fifo') \in Nat /\ Len(owed) \in Nat
           /\ Unsent \in {0, 1} /\ Strobed \in {0, 1} /\ Strobed' \in {0, 1}
           /\ Len(tx_fifo') = Len(tx_fifo) + Strobed - HandedOver
           /\ Unsent' = Unsent + HandedOver - Leaving(tick)
           /\ Remaining(tick) \in Seq(Word) /\ Len(Remaining(tick)) = Len(owed) - Leaving(tick)
           /\ HandedOver \in {0, 1} /\ Leaving(tick) \in {0, 1}
           /\ owed' = IF Begun(build, reset) THEN Remaining(tick) \o Reply(req) ELSE Remaining(tick)
           /\ Begun(build, reset) => Len(owed) <= Backlog
           /\ ByteLeaves(tick) => Unsent = 1
  <1>1. Widths /\ Ledger /\ FeedState /\ NoWriteWhenFull
    BY RoomForAll DEF IInv
  <1>2. /\ build => ~builder_busy /\ Len(owed) <= Backlog
        /\ reset => ~builder_busy
    BY DEF Clock
  <1>3. Driven(build, req, reset)
    BY <1>2 DEF Driven, Clock
  <1>4. /\ tx_start_req => ~tx_busy /\ ~cut
        /\ ByteLeaves(tick) => tx_busy /\ ~cut
        /\ tx_busy' \/ cut' <=> tx_start_req \/ ((tx_busy \/ cut) /\ ~ByteLeaves(tick))
    BY <1>1, FeedStep
  <1>5. BuilderTypeOK' /\ UnderWay'
    BY <1>1, <1>3, DrivenWidths
  <1>6. /\ tx_fifo' \in Seq(Byte)
        /\ tx_fifo # <<>> => Head(tx_fifo) \in Byte
        /\ Len(tx_fifo') = Len(tx_fifo) + (IF tx_fifo_wr_en /\ ~tx_fifo_full THEN 1 ELSE 0)
                                        - (IF tx_start_req THEN 1 ELSE 0)
    BY <1>1, FifoStep DEF Clock
  <1>7. /\ TxTypeOK'
        /\ tx_state' \in {"TX_IDLE", "START_BIT"} => bit_counter' = 0
        /\ tx_state' = "DATA_BITS" => bit_counter' <= 7
    <2> DEFINE data == IF tx_fifo = <<>> THEN 0 ELSE Head(tx_fifo)
    <2>1. data \in Byte
      BY <1>6 DEF Byte
    <2>2. TxClock(tx_start_req, data, cts, tick, reset)
      BY DEF Clock
    <2> HIDE DEF data
    <2> QED BY <1>1, <2>1, <2>2, TransmitterStep
  <1>8. /\ tx_byte_done_delayed' = tx_done
        /\ tx_start_reg' = (~tx_byte_done_delayed /\ (tx_start_req \/ tx_start_reg))
    BY DEF Clock, FeedClock
  <1>9. Widths'
    <2>1. tx_start_reg' \in BOOLEAN /\ tx_byte_done_delayed' \in BOOLEAN
      BY <1>1, <1>8, Zenon DEF Widths, TxTypeOK
    <2> QED BY <1>5, <1>6, <1>7, <2>1 DEF Widths
  <1>10. /\ Begun(build, reset) => Left = 0 /\ Strobed' = 0 /\ Left' = Len(Reply(req))
         /\ ~Begun(build, reset) => Left' = Left - Strobed'
         /\ Left \in Nat /\ Left' \in Nat
    BY <1>1, <1>3, BuilderBooks DEF Begun
  <1>11. /\ Len(tx_fifo) \in Nat /\ Len(tx_fifo') \in Nat /\ Len(owed) \in Nat
         /\ Unsent \in {0, 1} /\ Strobed \in {0, 1} /\ Strobed' \in {0, 1}
    BY <1>1, <1>6, LenProperties DEF Widths, Ledger, Unsent, Strobed
  <1>12. Len(tx_fifo') = Len(tx_fifo) + Strobed - HandedOver
    BY <1>1, <1>6 DEF NoWriteWhenFull, Strobed, HandedOver
  <1>13. Unsent' = Unsent + HandedOver - Leaving(tick)
    BY <1>4 DEF Unsent, HandedOver, Leaving
  <1>14. /\ Remaining(tick) \in Seq(Word) /\ Len(Remaining(tick)) = Len(owed) - Leaving(tick)
         /\ HandedOver \in {0, 1} /\ Leaving(tick) \in {0, 1}
    <2>1. CASE ByteLeaves(tick)
      <3>1. Unsent = 1
        BY <1>4, <2>1 DEF Unsent
      <3>2. Len(owed) # 0
        <4>1. Len(owed) = Unsent + Len(tx_fifo) + Strobed + Left
          BY <1>1 DEF Ledger
        <4>2. Left \in Nat /\ Len(tx_fifo) \in Nat /\ Strobed \in {0, 1}
          BY <1>10, <1>11
        <4> QED BY <3>1, <4>1, <4>2
      <3>3. Tail(owed) \in Seq(Word) /\ Len(Tail(owed)) = Len(owed) - 1
        BY <1>1, <3>2, EmptySeq, HeadTailProperties DEF Ledger
      <3> QED BY <2>1, <3>3 DEF Remaining, Leaving, HandedOver
    <2>2. CASE ~ByteLeaves(tick)
      <3>1. owed \in Seq(Word)
        BY <1>1 DEF Ledger
      <3> QED BY <1>11, <2>2, <3>1 DEF Remaining, Leaving, HandedOver
    <2> QED BY <2>1, <2>2
  <1>15. owed' = IF Begun(build, reset) THEN Remaining(tick) \o Reply(req) ELSE Remaining(tick)
    BY DEF Clock, Histories, Begun, Remaining
  <1>16. Begun(build, reset) => Len(owed) <= Backlog
    BY <1>2 DEF BuildEdge, Begun
  <1>17. ByteLeaves(tick) => Unsent = 1
    BY <1>4 DEF Unsent
  <1> QED BY <1>1, <1>3, <1>9, <1>10, <1>11, <1>12, <1>13, <1>14, <1>15, <1>16, <1>17

LEMMA IInvStep ==
    ASSUME Fits, IInv, NEW build \in BOOLEAN, NEW cts \in BOOLEAN, NEW tick \in BOOLEAN,
           NEW reset \in BOOLEAN, NEW req \in Requests, Clock(build, req, cts, tick, reset)
    PROVE  IInv'
  <1>1. Widths /\ Ledger /\ NoWriteWhenFull /\ Widths'
    BY BooksMove, RoomForAll DEF IInv
  <1>4. FeedState'
    BY FeedStep DEF IInv
  <1>5. Ledger'
    <2>1. /\ Begun(build, reset) => Left = 0 /\ Strobed' = 0 /\ Left' = Len(Reply(req))
          /\ ~Begun(build, reset) => Left' = Left - Strobed'
          /\ Left \in Nat /\ Left' \in Nat
      BY BooksMove
    <2>2. /\ Len(tx_fifo) \in Nat /\ Len(tx_fifo') \in Nat /\ Len(owed) \in Nat
          /\ Unsent \in {0, 1} /\ Strobed \in {0, 1} /\ Strobed' \in {0, 1}
      BY BooksMove
    <2>3. Len(tx_fifo') = Len(tx_fifo) + Strobed - HandedOver
      BY BooksMove
    <2>4. Unsent' = Unsent + HandedOver - Leaving(tick)
      BY BooksMove
    <2>5. /\ Remaining(tick) \in Seq(Word) /\ Len(Remaining(tick)) = Len(owed) - Leaving(tick)
          /\ HandedOver \in {0, 1} /\ Leaving(tick) \in {0, 1}
      BY BooksMove
    <2>6. owed' = IF Begun(build, reset) THEN Remaining(tick) \o Reply(req) ELSE Remaining(tick)
      BY BooksMove
    <2>7. Begun(build, reset) => Len(owed) <= Backlog
      BY BooksMove
    <2>8. Len(Remaining(tick)) \in Nat /\ Len(Remaining(tick)) <= Len(owed)
      BY <2>2, <2>5, LenProperties
    <2>9. CASE Begun(build, reset)
      <3>1. Reply(req) \in Seq(Word) /\ Len(Reply(req)) \in Nat /\ Len(Reply(req)) <= 72
        <4>1. Reply(req) \in Seq(Word) /\ Len(req.data) \in Nat /\ Len(req.data) <= 64
          BY ReplyLength, RequestFields
        <4>2. Len(Reply(req)) = 8 + Len(req.data) \/ Len(Reply(req)) = 4
          BY ReplyLength
        <4>3. CASE Len(Reply(req)) = 4
          BY <4>1, <4>3
        <4>4. CASE Len(Reply(req)) = 8 + Len(req.data)
          BY <4>1, <4>4
        <4> QED BY <4>2, <4>3, <4>4
      <3>2. owed' \in Seq(Word) /\ Len(owed') = Len(Remaining(tick)) + Len(Reply(req))
        BY <2>5, <2>6, <2>9, <3>1, ConcatProperties
      <3>3. Len(owed') <= Backlog + 72
        BY <2>2, <2>7, <2>8, <2>9, <3>1, <3>2, DepthsAreNumbers
      <3>4. Len(owed') = Unsent' + Len(tx_fifo') + Strobed' + Left'
        <4>1. Len(owed) = Unsent + Len(tx_fifo) + Strobed + Left
          BY <1>1 DEF Ledger
        <4>2. Unsent' \in {0, 1}
          BY DEF Unsent
        <4>3. Left = 0 /\ Strobed' = 0 /\ Left' = Len(Reply(req))
          BY <2>1, <2>9
        <4>4. Len(owed') = Len(owed) - Leaving(tick) + Left'
          BY <2>5, <3>2, <4>3
        <4>5. Unsent' + Len(tx_fifo') = Len(owed) - Leaving(tick)
          BY <2>2, <2>3, <2>4, <2>5, <4>1, <4>2, <4>3
        <4> QED BY <2>1, <2>2, <2>5, <4>3, <4>4, <4>5
      <3> QED BY <3>2, <3>3, <3>4 DEF Ledger
    <2>10. CASE ~Begun(build, reset)
      <3>1. owed' = Remaining(tick)
        BY <2>6, <2>10
      <3>2. Len(owed') <= Backlog + 72
        BY <1>1, <2>2, <2>8, <3>1, DepthsAreNumbers DEF Ledger
      <3>3. Len(owed') = Unsent' + Len(tx_fifo') + Strobed' + Left'
        <4>1. Len(owed) = Unsent + Len(tx_fifo) + Strobed + Left
          BY <1>1 DEF Ledger
        <4>2. Len(owed') = Len(owed) - Leaving(tick)
          BY <2>5, <3>1
        <4>3. Left' = Left - Strobed' /\ Left \in Nat /\ Left' \in Nat
          BY <2>1, <2>10
        <4>4. HandedOver \in {0, 1} /\ Leaving(tick) \in {0, 1}
          BY <2>5
        <4>5. Unsent' \in {0, 1}
          BY DEF Unsent
        <4>6. Unsent' + Len(tx_fifo') = Unsent + Len(tx_fifo) + Strobed - Leaving(tick)
          BY <2>2, <2>3, <2>4, <4>4, <4>5
        <4>7. Len(owed') = Unsent' + Len(tx_fifo') + Left
          BY <2>2, <4>1, <4>2, <4>3, <4>4, <4>5, <4>6
        <4> QED BY <2>2, <4>3, <4>5, <4>7
      <3> QED BY <2>5, <3>1, <3>2, <3>3 DEF Ledger
    <2> QED BY <2>9, <2>10
  <1>6. Len(tx_fifo)' <= TxDepth
    <2>1. Len(tx_fifo') <= TxDepth
      <3>1. Len(tx_fifo) \in Nat /\ Len(tx_fifo) <= TxDepth
        BY LenProperties DEF IInv, Widths
      <3> QED BY <1>1, <3>1, FifoStep, DepthsAreNumbers DEF Clock, tx_fifo_full
    <2> QED BY <2>1
  <1> QED BY <1>1, <1>4, <1>5, <1>6 DEF IInv

LEMMA IInvHolds == ASSUME Fits PROVE Spec => []IInv
  <1>1. Init => IInv
    BY IInvInit
  <1>2. IInv /\ [Next]_vars => IInv'
    <2> SUFFICES ASSUME IInv, [Next]_vars PROVE IInv'
      OBVIOUS
    <2>1. CASE Next
      BY <2>1, IInvStep DEF Next
    <2>2. CASE UNCHANGED vars
      <3>1. UNCHANGED <<builderVars, txVars, feedVars, owed, cut>>
        BY <2>2 DEF vars
      <3>2. Widths'
        BY <3>1 DEF builderVars, requestRegs, txVars, feedVars, IInv, Widths,
          BuilderTypeOK, UnderWay, IndexAtStart, TxTypeOK
      <3>3. Ledger'
        BY <3>1 DEF builderVars, requestRegs, txVars, feedVars, IInv, Ledger, Left, TailLen,
          Carries, Strobed, Unsent, tx_busy, IsRead
      <3>4. (Len(tx_fifo) <= TxDepth /\ FeedState)'
        BY <3>1 DEF txVars, feedVars, IInv, FeedState, FeedHungIffCut, FeedHung, tx_busy
      <3> QED BY <3>2, <3>3, <3>4 DEF IInv
    <2> QED BY <2>1, <2>2
  <1> QED BY <1>1, <1>2, PTL DEF Spec

-----------------------------------------------------------------------------
(* Order.  The response at hand, as the builder's registers hold it, and    *)
(* the place in it of the byte sent next.                                   *)
Held == [status |-> status_reg, cmd |-> cmd_echo_reg, addr |-> addr_echo_reg, data |-> resp_data]

Place == Len(Reply(Held)) + 1 - Left

InBody == bstate \in {BAddrState[i] : i \in 1..4} \cup {"BDATA"}

(* The CRC register has run over the bytes before this one.                 *)
CrcPlace ==
    /\ bstate = "BSOF" => bcrc_reg = 0
    /\ bstate \in SendState \ {"BSOF"} => bcrc_reg = CrcRun(Body(Held))[Place - 2]
    /\ InBody => Carries

(* What is in the FIFO, on the write port and still to be sent is owed, in  *)
(* this order.                                                              *)
InOrder ==
    /\ \A k \in 1..Len(tx_fifo) : tx_fifo[k] = owed[Unsent + k]
    /\ tx_fifo_wr_en => tx_fifo_data = owed[Unsent + Len(tx_fifo) + 1]
    /\ \A j \in 0..(Left - 1) : owed[Len(owed) + 1 - Left + j] = Reply(Held)[Place + j]

(* The bits of the byte on the line, heard already or still in the shift    *)
(* register, are those of the byte owed first.                              *)
OnTheLine ==
    /\ heard \in Nat
    /\ tx_state = "START_BIT" => heard = 0 /\ tx_shift_reg = owed[1]
    /\ tx_state = "DATA_BITS" => /\ heard + tx_shift_reg * 2^bit_counter = owed[1]
                                 /\ tx_shift_reg < 2^(8 - bit_counter)
    /\ tx_state = "STOP_BIT" => heard = owed[1]

Faithful == IInv /\ CrcPlace /\ InOrder /\ OnTheLine

(* A reply, byte by byte.                                                   *)
LEMMA ReplyBytes ==
    ASSUME NEW r, r.status \in Byte, r.cmd \in Byte, r.addr \in [1..4 -> Byte], r.data \in Seq(Byte),
           NEW reads \in BOOLEAN, reads <=> IsRead(r.cmd) /\ r.status = STATUS_OK
    PROVE  /\ Len(r.data) \in Nat
           /\ Len(Body(r)) = IF reads THEN 6 + Len(r.data) ELSE 2
           /\ Body(r)[1] = r.status /\ Body(r)[2] = r.cmd
           /\ reads => /\ \A i \in 1..4 : Body(r)[2 + i] = r.addr[i]
                       /\ \A k \in 1..Len(r.data) : Body(r)[6 + k] = r.data[k]
           /\ Len(Reply(r)) = Len(Body(r)) + 2 /\ Reply(r)[1] = SOF_DEVICE
           /\ \A i \in 1..Len(Body(r)) : Reply(r)[i + 1] = Body(r)[i]
           /\ Reply(r)[Len(Body(r)) + 2] = CrcOf(Body(r))
  <1> DEFINE head    == <<r.status, r.cmd>>
             payload == IF reads THEN r.addr \o r.data ELSE <<>>
             crc     == CrcOf(Body(r))
             S       == Byte \cup {crc}
  <1>1. r.addr \in Seq(Byte) /\ Len(r.addr) = 4 /\ Len(r.data) \in Nat
    BY AddressIsSeq, LenProperties
  <1>2. /\ payload \in Seq(Byte)
        /\ Len(payload) = IF reads THEN 4 + Len(r.data) ELSE 0
        /\ reads => /\ \A i \in 1..4 : payload[i] = r.addr[i]
                    /\ \A k \in 1..Len(r.data) : payload[4 + k] = r.data[k]
    <2>1. CASE reads
      <3>1. payload = r.addr \o r.data
        BY <2>1
      <3> HIDE DEF payload
      <3>2. Joins(Byte, r.addr, r.data, payload)
        BY <1>1, <3>1, OneAfterAnother, Zenon
      <3>3. /\ payload \in Seq(Byte) /\ Len(payload) = 4 + Len(r.data)
            /\ \A i \in 1..4 : payload[i] = r.addr[i]
            /\ \A k \in 1..Len(r.data) : payload[4 + k] = r.data[k]
        BY <1>1, <3>2, Zenon DEF Joins
      <3> QED BY <2>1, <3>3, Zenon
    <2>2. CASE ~reads
      BY <2>2, EmptySeq
    <2> QED BY <2>1, <2>2
  <1>3. Body(r) = head \o payload
    BY DEF Body
  <1>4. Reply(r) = (<<SOF_DEVICE>> \o Body(r)) \o <<crc>>
    BY DEF Reply
  <1>5. head \in Seq(Byte) /\ Len(head) = 2 /\ head[1] = r.status /\ head[2] = r.cmd
    OBVIOUS
  <1> HIDE DEF head, payload, crc
  <1>6. /\ Body(r) \in Seq(Byte) /\ Len(Body(r)) = Len(head) + Len(payload)
        /\ \A i \in 1..Len(head) : Body(r)[i] = head[i]
        /\ \A k \in 1..Len(payload) : Body(r)[Len(head) + k] = payload[k]
    <2>1. head \in Seq(Byte) /\ payload \in Seq(Byte)
      BY <1>2, <1>5
    <2>2. Joins(Byte, head, payload, head \o payload)
      BY <2>1, OneAfterAnother, Zenon
    <2> QED BY <1>3, <2>2, Zenon DEF Joins
  <1>7. Len(Body(r)) = 2 + Len(payload) /\ Body(r)[1] = r.status /\ Body(r)[2] = r.cmd
    <2>1. \A i \in 1..2 : Body(r)[i] = head[i]
      BY <1>5, <1>6, Zenon
    <2>2. Body(r)[1] = head[1] /\ Body(r)[2] = head[2]
      BY <2>1
    <2> QED BY <1>5, <1>6, <2>2, Zenon
  <1>8. \A k \in 1..Len(payload) : Body(r)[2 + k] = payload[k]
    BY <1>5, <1>6, Zenon
  <1>9. reads => /\ \A i \in 1..4 : Body(r)[2 + i] = r.addr[i]
                 /\ \A k \in 1..Len(r.data) : Body(r)[6 + k] = r.data[k]
    <2> SUFFICES ASSUME reads
                 PROVE  /\ \A i \in 1..4 : Body(r)[2 + i] = r.addr[i]
                        /\ \A k \in 1..Len(r.data) : Body(r)[6 + k] = r.data[k]
      OBVIOUS
    <2>1. ASSUME NEW i \in 1..4 PROVE Body(r)[2 + i] = r.addr[i]
      <3>1. i \in 1..Len(payload)
        BY <1>1, <1>2
      <3>2. Body(r)[2 + i] = payload[i]
        BY <1>8, <3>1
      <3> QED BY <1>2, <3>2
    <2>2. ASSUME NEW k \in 1..Len(r.data) PROVE Body(r)[6 + k] = r.data[k]
      <3>1. 4 + k \in 1..Len(payload) /\ 2 + (4 + k) = 6 + k
        BY <1>1, <1>2
      <3>2. Body(r)[6 + k] = payload[4 + k]
        BY <1>8, <3>1
      <3> QED BY <1>2, <3>2
    <2> QED BY <2>1, <2>2
  <1>10. Body(r) \in Seq(S) /\ <<SOF_DEVICE>> \in Seq(S) /\ <<crc>> \in Seq(S) /\ Len(Body(r)) \in Nat
    <2>1. Byte \subseteq S /\ SOF_DEVICE \in S /\ crc \in S
      BY DEF Byte, SOF_DEVICE
    <2> HIDE DEF S
    <2> QED BY <1>6, <2>1, SeqMonotonic, LenProperties
  <1> HIDE DEF S
  <1> DEFINE front == <<SOF_DEVICE>> \o Body(r)
  <1>11. /\ front \in Seq(S) /\ Len(front) = 1 + Len(Body(r)) /\ front[1] = SOF_DEVICE
         /\ \A i \in 1..Len(Body(r)) : front[i + 1] = Body(r)[i]
    BY <1>10
  <1> HIDE DEF front
  <1>12. /\ Len(front \o <<crc>>) = 2 + Len(Body(r))
         /\ \A i \in 1..(1 + Len(Body(r))) : (front \o <<crc>>)[i] = front[i]
         /\ (front \o <<crc>>)[Len(Body(r)) + 2] = crc
    BY <1>10, <1>11
  <1>13. Reply(r) = front \o <<crc>>
    BY <1>4 DEF front
  <1>14. \A i \in 1..Len(Body(r)) : Reply(r)[i + 1] = Body(r)[i]
    <2> SUFFICES ASSUME NEW i \in 1..Len(Body(r)) PROVE Reply(r)[i + 1] = Body(r)[i]
      OBVIOUS
    <2>1. i + 1 \in 1..(1 + Len(Body(r)))
      BY <1>10
    <2> QED BY <1>11, <1>12, <1>13, <2>1
  <1>15. Reply(r)[1] = SOF_DEVICE
    BY <1>10, <1>11, <1>12, <1>13
  <1>16. Len(Body(r)) = IF reads THEN 6 + Len(r.data) ELSE 2
    BY <1>1, <1>2, <1>7
  <1>17. Len(Reply(r)) = Len(Body(r)) + 2 /\ Reply(r)[Len(Body(r)) + 2] = crc
    BY <1>10, <1>12, <1>13
  <1> QED BY <1>1, <1>7, <1>9, <1>14, <1>15, <1>16, <1>17 DEF crc

(* The response under way, as its registers hold it, byte by byte.          *)
LEMMA HeldBytes ==
    ASSUME Widths
    PROVE  /\ Len(resp_data) \in Nat /\ data_index \in Nat
           /\ Len(Body(Held)) = IF Carries THEN 6 + Len(resp_data) ELSE 2
           /\ Body(Held)[1] = status_reg /\ Body(Held)[2] = cmd_echo_reg
           /\ Carries => /\ \A i \in 1..4 : Body(Held)[2 + i] = addr_echo_reg[i]
                         /\ \A k \in 1..Len(resp_data) : Body(Held)[6 + k] = resp_data[k]
           /\ Len(Reply(Held)) = Len(Body(Held)) + 2 /\ Reply(Held)[1] = SOF_DEVICE
           /\ \A i \in 1..Len(Body(Held)) : Reply(Held)[i + 1] = Body(Held)[i]
           /\ Reply(Held)[Len(Body(Held)) + 2] = CrcOf(Body(Held))
  <1> DEFINE r == Held
  <1>1. /\ r.status = status_reg /\ r.cmd = cmd_echo_reg /\ r.addr = addr_echo_reg
        /\ r.data = resp_data
    BY DEF Held
  <1> HIDE DEF r
  <1>2. /\ r.status \in Byte /\ r.cmd \in Byte /\ r.addr \in [1..4 -> Byte]
        /\ r.data \in Seq(Byte)
    BY <1>1 DEF Widths, BuilderTypeOK
  <1>3. Carries \in BOOLEAN /\ (Carries <=> IsRead(r.cmd) /\ r.status = STATUS_OK)
    BY <1>1 DEF Carries, IsRead
  <1>4. data_index \in Nat
    BY DEF Widths, BuilderTypeOK
  <1>5. /\ Len(r.data) \in Nat
        /\ Len(Body(r)) = IF Carries THEN 6 + Len(r.data) ELSE 2
        /\ Body(r)[1] = r.status /\ Body(r)[2] = r.cmd
        /\ Carries => /\ \A i \in 1..4 : Body(r)[2 + i] = r.addr[i]
                      /\ \A k \in 1..Len(r.data) : Body(r)[6 + k] = r.data[k]
        /\ Len(Reply(r)) = Len(Body(r)) + 2 /\ Reply(r)[1] = SOF_DEVICE
        /\ \A i \in 1..Len(Body(r)) : Reply(r)[i + 1] = Body(r)[i]
        /\ Reply(r)[Len(Body(r)) + 2] = CrcOf(Body(r))
    <2> DEFINE reads == Carries
    <2>1. reads \in BOOLEAN /\ (reads <=> IsRead(r.cmd) /\ r.status = STATUS_OK)
      BY <1>3
    <2> HIDE DEF reads
    <2>2. /\ Len(r.data) \in Nat
          /\ Len(Body(r)) = IF reads THEN 6 + Len(r.data) ELSE 2
          /\ Body(r)[1] = r.status /\ Body(r)[2] = r.cmd
          /\ reads => /\ \A i \in 1..4 : Body(r)[2 + i] = r.addr[i]
                      /\ \A k \in 1..Len(r.data) : Body(r)[6 + k] = r.data[k]
          /\ Len(Reply(r)) = Len(Body(r)) + 2 /\ Reply(r)[1] = SOF_DEVICE
          /\ \A i \in 1..Len(Body(r)) : Reply(r)[i + 1] = Body(r)[i]
          /\ Reply(r)[Len(Body(r)) + 2] = CrcOf(Body(r))
      BY <1>2, <2>1, ReplyBytes
    <2> QED BY <2>2 DEF reads
  <1> QED BY <1>1, <1>4, <1>5 DEF r

(* What each state sends is the byte at its place in the reply.             *)
LEMMA NextByte ==
    ASSUME Widths, CrcPlace, bstate \in SendState
    PROVE  /\ Len(Body(Held)) \in Nat /\ Len(Reply(Held)) = Len(Body(Held)) + 2
           /\ Place \in 1..Len(Reply(Held)) /\ Left \in 1..Len(Reply(Held))
           /\ bstate = "BSOF" => Place = 1
           /\ bstate = "BCRC" => Place = Len(Body(Held)) + 2
           /\ bstate \notin {"BSOF", "BCRC"} => /\ Place - 1 \in 1..Len(Body(Held))
                                                /\ ByteToSend = Body(Held)[Place - 1]
           /\ ByteToSend = Reply(Held)[Place]
  <1> DEFINE L == Len(resp_data)
             B == Len(Body(Held))
  <1>1. /\ L \in Nat /\ data_index \in Nat /\ (bstate = "BDATA" => data_index < L)
        /\ B = IF Carries THEN 6 + L ELSE 2
        /\ Len(Reply(Held)) = B + 2
    BY HeldBytes DEF Widths, BuilderTypeOK
  <1>2. TailLen = B - 1 /\ B \in Nat /\ B >= 2
    BY <1>1 DEF TailLen
  <1>3. Place = B + 3 - Left
    <2>1. Left \in Int
      BY <1>1, <1>2, AddressStates DEF Left
    <2> QED BY <1>1, <1>2, <2>1 DEF Place
  <1> HIDE DEF B, L
  <1>4. CASE bstate = "BSOF"
    <2>1. Left = B + 2
      BY <1>2, <1>4, AddressStates DEF Left
    <2>2. Place = 1
      BY <1>2, <1>3, <2>1
    <2>3. ByteToSend = SOF_DEVICE
      BY <1>4 DEF ByteToSend
    <2>4. Reply(Held)[Place] = SOF_DEVICE
      BY <2>2, HeldBytes
    <2> QED BY <1>1, <1>2, <1>4, <2>1, <2>2, <2>3, <2>4 DEF B
  <1>5. CASE bstate = "BCRC"
    <2>1. Left = 1
      BY <1>5, AddressStates DEF Left
    <2>2. Place = B + 2
      BY <1>2, <1>3, <2>1
    <2>3. ByteToSend = bcrc_reg
      BY <1>5 DEF ByteToSend
    <2>4. bcrc_reg = CrcRun(Body(Held))[Place - 2]
      BY <1>5 DEF CrcPlace
    <2>5. Place - 2 = Len(Body(Held))
      BY <1>2, <2>2 DEF B
    <2>6. bcrc_reg = CrcOf(Body(Held))
      BY <2>4, <2>5 DEF CrcOf
    <2>7. Reply(Held)[Place] = CrcOf(Body(Held))
      BY <2>2, HeldBytes DEF B
    <2> QED BY <1>1, <1>2, <1>5, <2>1, <2>2, <2>3, <2>6, <2>7 DEF B
  <1>6. CASE bstate \notin {"BSOF", "BCRC"}
    <2>1. /\ Place - 1 \in 1..B /\ ByteToSend = Body(Held)[Place - 1]
          /\ Left \in 1..(B + 2)
      <3>1. CASE bstate = "BSTATUS"
        <4>1. Left = B + 1 /\ ByteToSend = status_reg
          BY <1>2, <3>1, AddressStates DEF Left, ByteToSend
        <4>2. Place - 1 = 1
          BY <1>2, <1>3, <4>1
        <4>3. Body(Held)[Place - 1] = status_reg
          BY <4>2, HeldBytes
        <4> QED BY <1>2, <4>1, <4>2, <4>3
      <3>2. CASE bstate = "BCMD"
        <4>1. Left = B /\ ByteToSend = cmd_echo_reg
          BY <1>2, <3>2, AddressStates DEF Left, ByteToSend
        <4>2. Place - 1 = 2
          BY <1>2, <1>3, <4>1
        <4>3. Body(Held)[Place - 1] = cmd_echo_reg
          BY <4>2, HeldBytes
        <4> QED BY <1>2, <4>1, <4>2, <4>3
      <3>3. ASSUME NEW i \in 1..4, bstate = BAddrState[i]
            PROVE  /\ Place - 1 \in 1..B /\ ByteToSend = Body(Held)[Place - 1]
                   /\ Left \in 1..(B + 2)
        <4>1. Carries
          BY <3>3 DEF CrcPlace, InBody
        <4>2. Left = 6 - i + L /\ B = 6 + L
          BY <1>1, <3>3, <4>1, AddressStates DEF Left, L
        <4>3. Place - 1 = 2 + i
          BY <1>1, <1>3, <4>2
        <4>4. ByteToSend = addr_echo_reg[i]
          <5>1. \A j \in 1..4 : bstate = BAddrState[j] <=> j = i
            BY <3>3, AddressStates
          <5>2. (CHOOSE j \in 1..4 : bstate = BAddrState[j]) = i
            BY <5>1
          <5>3. bstate \notin {"BSOF", "BSTATUS", "BCMD", "BDATA", "BCRC"}
            BY <3>3, AddressStates
          <5>4. ByteToSend = addr_echo_reg[CHOOSE j \in 1..4 : bstate = BAddrState[j]]
            BY <5>3 DEF ByteToSend
          <5> QED BY <5>2, <5>4, Zenon
        <4>5. Body(Held)[2 + i] = addr_echo_reg[i]
          BY <4>1, HeldBytes
        <4> QED BY <1>1, <4>2, <4>3, <4>4, <4>5
      <3>4. CASE bstate = "BDATA"
        <4>1. Carries
          BY <3>4 DEF CrcPlace, InBody
        <4>2. Left = 1 + L - data_index /\ B = 6 + L /\ ByteToSend = resp_data[data_index + 1]
          BY <1>1, <3>4, <4>1, AddressStates DEF Left, L, ByteToSend
        <4>3. Place - 1 = 6 + (data_index + 1) /\ data_index + 1 \in 1..L
          BY <1>1, <1>3, <3>4, <4>2
        <4>4. Body(Held)[6 + (data_index + 1)] = resp_data[data_index + 1]
          BY <4>1, <4>3, HeldBytes DEF L
        <4> QED BY <1>1, <3>4, <4>2, <4>3, <4>4
      <3>5. CASE bstate \in {BAddrState[i] : i \in 1..4}
        BY <3>3, <3>5
      <3> QED BY <1>6, <3>1, <3>2, <3>4, <3>5 DEF SendState
    <2>2. Place \in 2..(B + 1) /\ (Place - 1) + 1 = Place
      BY <1>2, <2>1, <1>3
    <2>3. Reply(Held)[Place] = Body(Held)[Place - 1]
      <3>1. Reply(Held)[(Place - 1) + 1] = Body(Held)[Place - 1]
        BY <2>1, HeldBytes DEF B
      <3> QED BY <2>2, <3>1
    <2> QED BY <1>1, <1>2, <1>6, <2>1, <2>2, <2>3 DEF B
  <1> QED BY <1>4, <1>5, <1>6

(* One clock of the builder in the order of its bytes: what it strobes is   *)
(* the next byte of the reply under way, whose registers stand still.       *)
LEMMA BuilderOrder ==
    ASSUME Widths, CrcPlace, NEW build, NEW req, NEW reset, Driven(build, req, reset)
    PROVE  /\ CrcPlace'
           /\ Begun(build, reset) => Held' = req
           /\ tx_fifo_wr_en' => /\ ~Begun(build, reset)
                                /\ Left \in 1..Len(Reply(Held)) /\ tx_fifo_data' = Reply(Held)[Place]
           /\ ~Begun(build, reset) /\ Left' # 0 => Held' = Held
  <1>1. /\ build \in BOOLEAN /\ req \in Requests
        /\ (IF reset THEN BuilderSoftReset ELSE BuilderFsm(tx_fifo_full, build, req))
        /\ BuilderCrc(tx_fifo_full)
        /\ reset => bstate = "BIDLE"
    BY DEF Driven, BuilderClock, builder_busy
  <1>2. /\ Begun(build, reset) => Left = 0 /\ Strobed' = 0 /\ Left' = Len(Reply(req))
        /\ ~Begun(build, reset) => Left' = Left - Strobed'
        /\ Left \in Nat /\ Left' \in Nat
    BY BuilderBooks DEF Begun
  <1>3. CASE reset
    <2>1. bstate' = "BIDLE" /\ tx_fifo_wr_en' = FALSE /\ ~Begun(build, reset)
      BY <1>1, <1>3 DEF BuilderSoftReset, Begun
    <2>2. Left' = 0
      BY <2>1, AddressStates DEF Left
    <2>3. CrcPlace'
      BY <2>1, AddressStates DEF CrcPlace, SendState, InBody
    <2> QED BY <2>1, <2>2, <2>3
  <1>4. CASE ~reset
    <2>1. /\ StartResponse(build, req) \/ SendByte(tx_fifo_full, build)
             \/ Rest(tx_fifo_full, build)
          /\ tx_fifo_wr_en' = Sends(tx_fifo_full)
          /\ tx_fifo_data' = IF Sends(tx_fifo_full) THEN ByteToSend ELSE 0
      BY <1>1, <1>4 DEF BuilderFsm
    <2>2. CASE StartResponse(build, req)
      <3>1. /\ bstate = "BIDLE" /\ bstate' = "BSOF" /\ ~Sends(tx_fifo_full)
            /\ status_reg' = req.status /\ cmd_echo_reg' = req.cmd
            /\ addr_echo_reg' = req.addr /\ resp_data' = req.data
        BY <2>2, AddressStates DEF StartResponse, Sends, SendState
      <3>2. Held' = req
        <4>1. req \in Request
          BY <1>1, RequestsAreRequests
        <4>2. req = [status |-> req.status, cmd |-> req.cmd, addr |-> req.addr, data |-> req.data]
          BY <4>1 DEF Request
        <4> QED BY <3>1, <4>2, Zenon DEF Held
      <3>3. CrcPlace'
        <4>1. bcrc_reg' = 0
          BY <1>1, <3>1 DEF BuilderCrc
        <4> QED BY <3>1, <4>1, AddressStates DEF CrcPlace, SendState, InBody
      <3>4. Begun(build, reset)
        BY <1>4, <2>2 DEF StartResponse, Begun
      <3> QED BY <2>1, <3>1, <3>2, <3>3, <3>4
    <2>3. CASE SendByte(tx_fifo_full, build)
      <3>1. /\ Sends(tx_fifo_full) /\ bstate \in SendState /\ bstate # "BIDLE"
            /\ bstate' = AfterSend /\ ~Begun(build, reset)
            /\ status_reg' = status_reg /\ cmd_echo_reg' = cmd_echo_reg
            /\ addr_echo_reg' = addr_echo_reg /\ resp_data' = resp_data
        BY <2>3, AddressStates DEF SendByte, Sends, SendState, requestRegs, Begun
      <3>2. Held' = Held
        BY <3>1 DEF Held
      <3>3. /\ Len(Body(Held)) \in Nat /\ Len(Reply(Held)) = Len(Body(Held)) + 2
            /\ Place \in 1..Len(Reply(Held)) /\ Left \in 1..Len(Reply(Held))
            /\ bstate = "BSOF" => Place = 1
            /\ bstate \notin {"BSOF", "BCRC"} => /\ Place - 1 \in 1..Len(Body(Held))
                                                 /\ ByteToSend = Body(Held)[Place - 1]
            /\ ByteToSend = Reply(Held)[Place]
        BY <3>1, NextByte
      <3>4. Place' = Place + 1
        <4>1. Strobed' = 1
          BY <2>1, <3>1 DEF Strobed
        <4>2. Left' = Left - 1
          BY <1>2, <3>1, <4>1
        <4>3. Len(Reply(Held))' = Len(Reply(Held))
          BY <3>2
        <4> QED BY <1>2, <3>3, <4>2, <4>3 DEF Place
      <3>5. /\ bstate' # "BSOF" /\ (bstate = "BCRC" => bstate' = "BDONE")
            /\ InBody' => InBody \/ (bstate = "BCMD" /\ Carries)
        BY <3>1, NextState, AfterCommand, AddressStates DEF SendState, InBody
      <3>6. InBody' => Carries'
        <4>1. Carries' <=> Carries
          BY <3>1 DEF Carries, IsRead
        <4> QED BY <3>5, <4>1 DEF CrcPlace
      <3>7. bstate' \in SendState => bcrc_reg' = CrcRun(Body(Held))[Place - 1]
        <4> SUFFICES ASSUME bstate' \in SendState
                     PROVE  bcrc_reg' = CrcRun(Body(Held))[Place - 1]
          OBVIOUS
        <4>1. bstate # "BCRC"
          BY <3>5, AddressStates DEF SendState
        <4>2. CASE bstate = "BSOF"
          <5>1. bcrc_reg' = 0
            BY <1>1, <3>1, <4>2 DEF BuilderCrc, CrcPlace
          <5>2. CrcRun(Body(Held))[0] = 0 /\ Place - 1 = 0
            BY <3>3, <4>2, CrcStep
          <5> QED BY <5>1, <5>2
        <4>3. CASE bstate # "BSOF"
          <5>1. bcrc_reg' = CrcNext(bcrc_reg, Body(Held)[Place - 1])
            BY <1>1, <3>1, <3>3, <4>1, <4>3 DEF BuilderCrc
          <5>2. bcrc_reg = CrcRun(Body(Held))[(Place - 1) - 1]
            <6>1. bcrc_reg = CrcRun(Body(Held))[Place - 2] /\ (Place - 1) - 1 = Place - 2
              BY <3>1, <3>3, <4>3 DEF CrcPlace
            <6> QED BY <6>1
          <5>3. CrcRun(Body(Held))[Place - 1]
                   = CrcNext(CrcRun(Body(Held))[(Place - 1) - 1], Body(Held)[Place - 1])
            BY <3>3, <4>1, <4>3, CrcStep
          <5> QED BY <5>1, <5>2, <5>3
        <4> QED BY <4>2, <4>3
      <3>8. CrcPlace'
        <4>1. Place' - 2 = Place - 1
          BY <3>3, <3>4
        <4>2. CrcRun(Body(Held))' = CrcRun(Body(Held))
          BY <3>2
        <4>3. bstate' \in SendState => bcrc_reg' = CrcRun(Body(Held))'[Place' - 2]
          BY <3>7, <4>1, <4>2
        <4> QED BY <3>5, <3>6, <4>3 DEF CrcPlace
      <3> QED BY <2>1, <3>1, <3>2, <3>3, <3>8
    <2>4. CASE Rest(tx_fifo_full, build)
      <3>1. /\ ~Sends(tx_fifo_full) /\ ~Begun(build, reset)
            /\ bstate' = bstate \/ bstate' \in {"BIDLE", "BGAP"}
            /\ status_reg' = status_reg /\ cmd_echo_reg' = cmd_echo_reg
            /\ addr_echo_reg' = addr_echo_reg /\ resp_data' = resp_data
        BY <2>4 DEF Rest, requestRegs, Begun
      <3>2. Held' = Held
        BY <3>1 DEF Held
      <3>3. tx_fifo_wr_en' = FALSE /\ Strobed' = 0
        BY <2>1, <3>1 DEF Strobed, Sends
      <3>4. Place' = Place
        <4>1. Left' = Left
          BY <1>2, <3>1, <3>3
        <4> QED BY <3>2, <4>1 DEF Place
      <3>5. bstate' \in SendState => bstate' = bstate /\ bcrc_reg' = bcrc_reg
        <4>1. bstate' \in SendState => bstate' = bstate /\ bstate # "BIDLE"
          BY <3>1, AddressStates DEF SendState
        <4> QED BY <1>1, <3>1, <4>1 DEF BuilderCrc
      <3>6. CrcPlace'
        <4>1. CrcRun(Body(Held))' = CrcRun(Body(Held))
          BY <3>2
        <4>2. InBody' => bstate' \in SendState
          BY DEF InBody, SendState
        <4>3. InBody' => InBody
          BY <3>5, <4>2 DEF InBody
        <4>4. Carries' <=> Carries
          BY <3>1 DEF Carries, IsRead
        <4>5. bstate' \in SendState \ {"BSOF"} => bcrc_reg' = CrcRun(Body(Held))'[Place' - 2]
          BY <3>4, <3>5, <4>1 DEF CrcPlace
        <4>6. bstate' = "BSOF" => bcrc_reg' = 0
          BY <3>5 DEF CrcPlace, SendState
        <4> QED BY <4>3, <4>4, <4>5, <4>6 DEF CrcPlace
      <3> QED BY <3>1, <3>2, <3>3, <3>6
    <2> QED BY <2>1, <2>2, <2>3, <2>4
  <1> QED BY <1>3, <1>4

(* Where the owed bytes and those in the FIFO go in a clock.                *)
LEMMA QueuesMove ==
    ASSUME Fits, IInv, NEW build \in BOOLEAN, NEW cts \in BOOLEAN, NEW tick \in BOOLEAN,
           NEW reset \in BOOLEAN, NEW req \in Requests, Clock(build, req, cts, tick, reset)
    PROVE  /\ \A i \in 1..(Len(owed) - Leaving(tick)) : owed'[i] = owed[i + Leaving(tick)]
           /\ Begun(build, reset) =>
                 /\ Len(owed') = Len(owed) - Leaving(tick) + Len(Reply(req))
                 /\ \A j \in 1..Len(Reply(req)) :
                       owed'[Len(owed) - Leaving(tick) + j] = Reply(req)[j]
           /\ ~Begun(build, reset) => Len(owed') = Len(owed) - Leaving(tick)
           /\ \A k \in 1..(Len(tx_fifo) - HandedOver) : tx_fifo'[k] = tx_fifo[k + HandedOver]
           /\ tx_fifo_wr_en => tx_fifo'[Len(tx_fifo) - HandedOver + 1] = tx_fifo_data
  <1> DEFINE rest == Remaining(tick)
             kept == IF tx_start_req THEN Tail(tx_fifo) ELSE tx_fifo
             out  == Leaving(tick)
  <1>1. /\ owed \in Seq(Word) /\ tx_fifo \in Seq(Byte) /\ NoWriteWhenFull
        /\ Len(owed) \in Nat /\ Len(tx_fifo) \in Nat
        /\ rest \in Seq(Word) /\ Len(rest) = Len(owed) - out /\ out \in {0, 1}
        /\ owed' = IF Begun(build, reset) THEN rest \o Reply(req) ELSE rest
        /\ HandedOver \in {0, 1}
    BY BooksMove DEF Widths, Ledger
  <1>2. \A i \in 1..(Len(owed) - out) : rest[i] = owed[i + out]
    <2>1. CASE ByteLeaves(tick)
      <3>1. rest = Tail(owed) /\ out = 1
        BY <2>1 DEF Remaining, Leaving
      <3>2. \A i \in 1..(Len(owed) - 1) : Tail(owed)[i] = owed[i + 1]
        BY <1>1
      <3> QED BY <3>1, <3>2
    <2>2. CASE ~ByteLeaves(tick)
      <3>1. rest = owed /\ out = 0
        BY <2>2 DEF Remaining, Leaving
      <3>2. \A i \in 1..(Len(owed) - 0) : owed[i] = owed[i + 0]
        BY <1>1
      <3> QED BY <3>1, <3>2
    <2> QED BY <2>1, <2>2
  <1>3. kept \in Seq(Byte) /\ Len(kept) = Len(tx_fifo) - HandedOver
        /\ \A k \in 1..(Len(tx_fifo) - HandedOver) : kept[k] = tx_fifo[k + HandedOver]
    <2>1. CASE tx_start_req
      <3>0. tx_fifo # <<>> /\ HandedOver = 1
        BY <2>1 DEF HandedOver, tx_start_req
      <3>1. kept = Tail(tx_fifo) /\ HandedOver = 1 /\ tx_fifo # <<>>
        BY <2>1 DEF HandedOver, tx_start_req
      <3>2. /\ Tail(tx_fifo) \in Seq(Byte) /\ Len(Tail(tx_fifo)) = Len(tx_fifo) - 1
            /\ \A k \in 1..(Len(tx_fifo) - 1) : Tail(tx_fifo)[k] = tx_fifo[k + 1]
        BY <1>1, <3>1
      <3> QED BY <3>1, <3>2
    <2>2. CASE ~tx_start_req
      <3>1. kept = tx_fifo /\ HandedOver = 0
        BY <2>2 DEF HandedOver
      <3>2. /\ Len(tx_fifo) = Len(tx_fifo) - 0
            /\ \A k \in 1..(Len(tx_fifo) - 0) : tx_fifo[k] = tx_fifo[k + 0]
        BY <1>1
      <3> QED BY <1>1, <3>1, <3>2
    <2> QED BY <2>1, <2>2
  <1>4. tx_fifo' = IF tx_fifo_wr_en /\ ~tx_fifo_full THEN Append(kept, tx_fifo_data) ELSE kept
    BY DEF Clock, TxFifoClock
  <1>5. tx_fifo_wr_en => ~tx_fifo_full
    BY <1>1 DEF NoWriteWhenFull
  <1> HIDE DEF rest, kept, out
  <1>6. /\ \A k \in 1..Len(kept) : tx_fifo'[k] = kept[k]
        /\ tx_fifo_wr_en => tx_fifo'[Len(kept) + 1] = tx_fifo_data
    BY <1>3, <1>4, <1>5
  <1>7. /\ \A i \in 1..Len(rest) : owed'[i] = rest[i]
        /\ Begun(build, reset) =>
              /\ Len(owed') = Len(rest) + Len(Reply(req))
              /\ \A j \in 1..Len(Reply(req)) : owed'[Len(rest) + j] = Reply(req)[j]
        /\ ~Begun(build, reset) => Len(owed') = Len(rest)
    <2>1. CASE Begun(build, reset)
      <3>1. Reply(req) \in Seq(Word)
        BY ReplyLength
      <3>2. owed' = rest \o Reply(req)
        BY <1>1, <2>1
      <3>3. Joins(Word, rest, Reply(req), owed')
        BY <1>1, <3>1, <3>2, OneAfterAnother, Zenon
      <3> QED BY <2>1, <3>3, Zenon DEF Joins
    <2>2. CASE ~Begun(build, reset)
      BY <1>1, <2>2
    <2> QED BY <2>1, <2>2
  <1>8. \A i \in 1..(Len(owed) - out) : owed'[i] = owed[i + out]
    BY <1>1, <1>2, <1>7
  <1>9. /\ \A k \in 1..(Len(tx_fifo) - HandedOver) : tx_fifo'[k] = tx_fifo[k + HandedOver]
        /\ tx_fifo_wr_en => tx_fifo'[Len(tx_fifo) - HandedOver + 1] = tx_fifo_data
    BY <1>3, <1>6
  <1> QED BY <1>1, <1>7, <1>8, <1>9 DEF out

(* Two facts of arithmetic, stated for numbers that do not change.          *)
LEMMA BelowIsIndex == \A l \in Nat : \A j \in 0..(l - 1) : j \in Nat /\ j < l
  OBVIOUS

Shifted(j, l, s, l1, n, n1, o, r) ==
    /\ j + s \in 0..(l - 1)
    /\ n1 + 1 - l1 + j \in 1..(n - o)
    /\ (n1 + 1 - l1 + j) + o = n + 1 - l + (j + s)
    /\ (r + 1 - l) + (j + s) = r + 1 - l1 + j

LEMMA IndexMoves ==
    ASSUME NEW j \in Nat, NEW l \in Nat, NEW s \in Nat, NEW l1 \in Nat, NEW n \in Nat,
           NEW n1 \in Nat, NEW o \in Nat, NEW r \in Nat,
           l1 = l - s, n1 = n - o, l <= n - o, j < l1
    PROVE  Shifted(j, l, s, l1, n, n1, o, r)
  BY DEF Shifted

(* What was next in line stays next in line.                                *)
LEMMA OrderStep ==
    ASSUME Fits, IInv, CrcPlace, InOrder, NEW build \in BOOLEAN, NEW cts \in BOOLEAN,
           NEW tick \in BOOLEAN, NEW reset \in BOOLEAN, NEW req \in Requests,
           Clock(build, req, cts, tick, reset)
    PROVE  CrcPlace' /\ InOrder'
  <1> DEFINE T   == Unsent
             F   == Len(tx_fifo)
             str   == Strobed
             lft   == Left
             in  == HandedOver
             out == Leaving(tick)
             N   == Len(owed)
  <1>1. /\ T \in Nat /\ F \in Nat /\ str \in Nat /\ lft \in Nat /\ N \in Nat
        /\ in \in Nat /\ out \in Nat
        /\ T' \in Nat /\ F' \in Nat /\ str' \in Nat /\ lft' \in Nat
        /\ N = T + F + str + lft /\ T' = T + in - out /\ F' = F + str - in
    <2>1. Unsent' \in Nat
      BY DEF Unsent
    <2>2. N = T + F + str + lft
      BY BooksMove DEF Ledger
    <2>3. /\ Unsent \in {0, 1} /\ Len(tx_fifo) \in Nat /\ Strobed \in {0, 1}
          /\ Left \in Nat /\ Len(owed) \in Nat /\ HandedOver \in {0, 1} /\ Leaving(tick) \in {0, 1}
          /\ Len(tx_fifo') \in Nat /\ Strobed' \in {0, 1} /\ Left' \in Nat
          /\ Unsent' = Unsent + HandedOver - Leaving(tick)
          /\ Len(tx_fifo') = Len(tx_fifo) + Strobed - HandedOver
      BY BooksMove
    <2> QED BY <2>1, <2>2, <2>3
  <1>10. str <= 1 /\ Widths /\ Driven(build, req, reset) /\ out <= T
    <2>1. out <= T
      <3>1. ByteLeaves(tick) => Unsent = 1
        BY BooksMove
      <3> QED BY <1>1, <3>1 DEF Leaving
    <2> QED BY <2>1, BooksMove
  <1>2. /\ Begun(build, reset) => lft = 0 /\ str' = 0 /\ lft' = Len(Reply(req))
        /\ ~Begun(build, reset) => lft' = lft - str'
    BY BooksMove
  <1>3. /\ \A i \in 1..(N - out) : owed'[i] = owed[i + out]
        /\ Begun(build, reset) => /\ N' = N - out + Len(Reply(req))
                                  /\ \A j \in 1..Len(Reply(req)) :
                                        owed'[N - out + j] = Reply(req)[j]
        /\ ~Begun(build, reset) => N' = N - out
    BY QueuesMove
  <1>4. /\ \A k \in 1..(F - in) : tx_fifo'[k] = tx_fifo[k + in]
        /\ tx_fifo_wr_en => tx_fifo'[F - in + 1] = tx_fifo_data
    BY QueuesMove
  <1>5. /\ CrcPlace'
        /\ Begun(build, reset) => Held' = req
        /\ tx_fifo_wr_en' => /\ ~Begun(build, reset)
                             /\ lft \in 1..Len(Reply(Held)) /\ tx_fifo_data' = Reply(Held)[Place]
        /\ ~Begun(build, reset) /\ lft' # 0 => Held' = Held
    BY <1>10, BuilderOrder
  <1>6. /\ \A k \in 1..F : tx_fifo[k] = owed[T + k]
        /\ tx_fifo_wr_en => tx_fifo_data = owed[T + F + 1]
        /\ \A j \in 0..(lft - 1) : owed[N + 1 - lft + j] = Reply(Held)[Place + j]
    BY DEF InOrder
  <1>7. /\ str = IF tx_fifo_wr_en THEN 1 ELSE 0
        /\ tx_fifo_wr_en' \in BOOLEAN /\ str' = IF tx_fifo_wr_en' THEN 1 ELSE 0
    <2>1. tx_fifo_wr_en' \in BOOLEAN
      BY BooksMove DEF Widths, BuilderTypeOK
    <2> QED BY <2>1 DEF Strobed
  <1>8. Len(Reply(Held)) \in Nat /\ (Begun(build, reset) => Len(Reply(req)) \in Nat)
    BY <1>10, <1>1, <1>2, HeldBytes
  <1>9. Place = Len(Reply(Held)) + 1 - lft
    BY DEF Place
  <1> HIDE DEF T, F, str, lft, in, out, N
  <1>11. ASSUME NEW k \in 1..F' PROVE tx_fifo'[k] = owed'[T' + k]
    <2>1. CASE k <= F - in
      <3>1. k \in 1..(F - in) /\ k + in \in 1..F
        BY <1>1, <1>11, <2>1
      <3>2. tx_fifo'[k] = owed[T + (k + in)]
        BY <1>4, <1>6, <3>1
      <3>3. T' + k \in 1..(N - out) /\ (T' + k) + out = T + (k + in)
        BY <1>1, <1>11, <2>1
      <3> QED BY <1>3, <3>2, <3>3
    <2>2. CASE ~(k <= F - in)
      <3>1. tx_fifo_wr_en /\ str = 1 /\ k = F - in + 1
        BY <1>10, <1>1, <1>7, <1>11, <2>2
      <3>2. tx_fifo'[k] = owed[T + F + 1]
        BY <1>4, <1>6, <3>1
      <3>3. T' + k \in 1..(N - out) /\ (T' + k) + out = T + F + 1
        BY <1>1, <3>1
      <3> QED BY <1>3, <3>2, <3>3
    <2> QED BY <2>1, <2>2
  <1>12. ASSUME tx_fifo_wr_en' PROVE tx_fifo_data' = owed'[T' + F' + 1]
    <2>1. lft >= 1 /\ tx_fifo_data' = Reply(Held)[Place]
      BY <1>1, <1>5, <1>8, <1>12
    <2>2. owed[N + 1 - lft + 0] = Reply(Held)[Place + 0] /\ Place + 0 = Place
      <3>1. 0 \in 0..(lft - 1)
        BY <1>1, <2>1
      <3>2. owed[N + 1 - lft + 0] = Reply(Held)[Place + 0]
        BY <1>6, <3>1
      <3> QED BY <1>1, <1>8, <1>9, <3>2
    <2>3. N + 1 - lft + 0 = T + F + str + 1
      BY <1>1
    <2>4. T' + F' + 1 \in 1..(N - out) /\ (T' + F' + 1) + out = T + F + str + 1
      BY <1>1, <2>1
    <2>5. owed'[T' + F' + 1] = owed[T + F + str + 1]
      BY <1>3, <2>4
    <2> QED BY <2>1, <2>2, <2>3, <2>5
  <1>13. ASSUME NEW j \in Nat, j < lft'
         PROVE  owed'[N' + 1 - lft' + j] = Reply(Held')[Len(Reply(Held')) + 1 - lft' + j]
    <2>1. CASE Begun(build, reset)
      <3>1. Held' = req /\ lft' = Len(Reply(req)) /\ N' = N - out + Len(Reply(req))
        BY <1>2, <1>3, <1>5, <2>1
      <3>2. j + 1 \in 1..Len(Reply(req))
        BY <1>1, <1>13, <3>1
      <3>3. owed'[N - out + (j + 1)] = Reply(req)[j + 1]
        BY <1>3, <2>1, <3>2
      <3>4. N' + 1 - lft' + j = N - out + (j + 1) /\ Len(Reply(req)) + 1 - lft' + j = j + 1
        BY <1>1, <1>8, <1>13, <2>1, <3>1
      <3> QED BY <3>1, <3>3, <3>4
    <2>2. CASE ~Begun(build, reset)
      <3>1. Held' = Held /\ lft' = lft - str' /\ N' = N - out
        <4>1. lft' # 0
          BY <1>1, <1>13
        <4> QED BY <1>2, <1>3, <1>5, <2>2, <4>1
      <3>2. /\ j + str' \in 0..(lft - 1)
            /\ N' + 1 - lft' + j \in 1..(N - out)
            /\ (N' + 1 - lft' + j) + out = N + 1 - lft + (j + str')
            /\ Place + (j + str') = Len(Reply(Held)) + 1 - lft' + j
        <4>1. lft <= N - out
          BY <1>10, <1>1
        <4>2. N' \in Nat
          BY BooksMove, <1>1, <3>1, <4>1
        <4>3. /\ lft \in Nat /\ str' \in Nat /\ lft' \in Nat /\ N \in Nat /\ out \in Nat
              /\ Len(Reply(Held)) \in Nat
          BY <1>1, <1>8
        <4>4. lft' = lft - str' /\ N' = N - out
          BY <3>1
        <4>5. Shifted(j, lft, str', lft', N, N', out, Len(Reply(Held)))
          BY <1>13, <4>1, <4>2, <4>3, <4>4, IndexMoves, Zenon
        <4> QED BY <1>9, <4>5, Zenon DEF Shifted
      <3>3. owed[N + 1 - lft + (j + str')] = Reply(Held)[Place + (j + str')]
        BY <1>6, <3>2
      <3>6. owed'[N' + 1 - lft' + j] = owed[N + 1 - lft + (j + str')]
        BY <1>3, <3>2, Zenon
      <3> QED BY <3>1, <3>2, <3>3, <3>6, Zenon
    <2> QED BY <2>1, <2>2
  <1>14. InOrder'
    <2>1. \A j \in 0..(lft' - 1) :
             owed'[N' + 1 - lft' + j] = Reply(Held')[Len(Reply(Held')) + 1 - lft' + j]
      BY <1>1, <1>13, BelowIsIndex, Zenon
    <2> QED BY <1>11, <1>12, <2>1 DEF InOrder, Place, T, F, lft, N
  <1> QED BY <1>5, <1>14

(* A bit moves from the shift register to what was heard.                   *)
NextBit(h, s, k, w) ==
    /\ h + (s % 2) * 2^k \in Nat
    /\ k < 7 => /\ (h + (s % 2) * 2^k) + (s \div 2) * 2^(k + 1) = w
                /\ s \div 2 < 2^(8 - (k + 1))
    /\ k >= 7 => h + (s % 2) * 2^k = w

LEMMA BitMoves ==
    ASSUME NEW h \in Nat, NEW s \in Nat, NEW k \in 0..7, NEW w,
           h + s * 2^k = w, s < 2^(8 - k)
    PROVE  NextBit(h, s, k, w)
  <1>1. s % 2 \in {0, 1} /\ s \div 2 \in Nat /\ s = 2 * (s \div 2) + (s % 2)
    OBVIOUS
  <1>2. CASE k = 0
    <2>1. 2^k = 1 /\ 2^(8 - k) = 256 /\ 2^(k + 1) = 2 /\ 2^(8 - (k + 1)) = 128
      BY <1>2
    <2> QED BY <1>1, <1>2, <2>1 DEF NextBit
  <1>3. CASE k = 1
    <2>1. 2^k = 2 /\ 2^(8 - k) = 128 /\ 2^(k + 1) = 4 /\ 2^(8 - (k + 1)) = 64
      BY <1>3
    <2> QED BY <1>1, <1>3, <2>1 DEF NextBit
  <1>4. CASE k = 2
    <2>1. 2^k = 4 /\ 2^(8 - k) = 64 /\ 2^(k + 1) = 8 /\ 2^(8 - (k + 1)) = 32
      BY <1>4
    <2> QED BY <1>1, <1>4, <2>1 DEF NextBit
  <1>5. CASE k = 3
    <2>1. 2^k = 8 /\ 2^(8 - k) = 32 /\ 2^(k + 1) = 16 /\ 2^(8 - (k + 1)) = 16
      BY <1>5
    <2> QED BY <1>1, <1>5, <2>1 DEF NextBit
  <1>6. CASE k = 4
    <2>1. 2^k = 16 /\ 2^(8 - k) = 16 /\ 2^(k + 1) = 32 /\ 2^(8 - (k + 1)) = 8
      BY <1>6
    <2> QED BY <1>1, <1>6, <2>1 DEF NextBit
  <1>7. CASE k = 5
    <2>1. 2^k = 32 /\ 2^(8 - k) = 8 /\ 2^(k + 1) = 64 /\ 2^(8 - (k + 1)) = 4
      BY <1>7
    <2> QED BY <1>1, <1>7, <2>1 DEF NextBit
  <1>8. CASE k = 6
    <2>1. 2^k = 64 /\ 2^(8 - k) = 4 /\ 2^(k + 1) = 128 /\ 2^(8 - (k + 1)) = 2
      BY <1>8
    <2> QED BY <1>1, <1>8, <2>1 DEF NextBit
  <1>9. CASE k = 7
    <2>1. 2^k = 128 /\ 2^(8 - k) = 2 /\ 2^(k + 1) = 256 /\ 2^(8 - (k + 1)) = 1
      BY <1>9
    <2> QED BY <1>1, <1>9, <2>1 DEF NextBit
  <1> QED BY <1>2, <1>3, <1>4, <1>5, <1>6, <1>7, <1>8, <1>9

(* The line carries the byte that is owed first.                            *)
LEMMA LineStep ==
    ASSUME Fits, IInv, InOrder, OnTheLine, NEW build \in BOOLEAN, NEW cts \in BOOLEAN,
           NEW tick \in BOOLEAN, NEW reset \in BOOLEAN, NEW req \in Requests,
           Clock(build, req, cts, tick, reset)
    PROVE  OnTheLine'
  <1> DEFINE byte == IF tx_fifo = <<>> THEN 0 ELSE Head(tx_fifo)
  <1>1. /\ Widths /\ Ledger /\ Left \in Nat /\ Len(tx_fifo) \in Nat /\ Len(owed) \in Nat
        /\ Unsent \in {0, 1} /\ Strobed \in {0, 1}
    BY BooksMove
  <1>2. /\ tx_state \in TxState /\ bit_counter \in 0..8 /\ tx_shift_reg \in 0..255
        /\ heard \in Nat
        /\ tx_state \in {"TX_IDLE", "START_BIT"} => bit_counter = 0
        /\ tx_state = "DATA_BITS" => bit_counter \in 0..7
    BY <1>1 DEF Widths, TxTypeOK, OnTheLine
  <1>3. \/ reset /\ TxSoftReset
        \/ ~reset /\ \/ Latch(tx_start_req, byte, cts) \/ Idle(tx_start_req, cts)
                     \/ StartBit(tick, cts) \/ DataBit(tick) \/ StopBit(tick) \/ Hold(tick)
    BY DEF Clock, TxClock
  <1>4. heard' = IF tx_state = "DATA_BITS"
                 THEN IF tick THEN heard + uart_tx * 2^bit_counter ELSE heard
                 ELSE IF tx_state = "STOP_BIT" THEN heard ELSE 0
    BY DEF Clock, Histories
  <1>5. tx_busy \/ tx_fifo # <<>> => Len(owed) >= 1
    <2>1. Len(owed) = Unsent + Len(tx_fifo) + Strobed + Left
      BY <1>1 DEF Ledger
    <2>2. tx_fifo # <<>> => Len(tx_fifo) # 0
      BY <1>1, EmptySeq DEF Widths
    <2>3. tx_busy => Unsent = 1
      BY DEF Unsent
    <2> QED BY <1>1, <2>1, <2>2, <2>3
  <1>6. (tx_busy \/ tx_fifo # <<>>) /\ ~ByteLeaves(tick) => owed'[1] = owed[1]
    <2> SUFFICES ASSUME tx_busy \/ tx_fifo # <<>>, ~ByteLeaves(tick)
                 PROVE  owed'[1] = owed[1]
      OBVIOUS
    <2>1. Leaving(tick) = 0
      BY DEF Leaving
    <2>2. \A i \in 1..(Len(owed) - Leaving(tick)) : owed'[i] = owed[i + Leaving(tick)]
      BY QueuesMove
    <2>3. 1 \in 1..(Len(owed) - 0) /\ 1 + 0 = 1
      BY <1>1, <1>5
    <2> QED BY <2>1, <2>2, <2>3
  <1>7. 0 \in Nat
    OBVIOUS
  <1>8. CASE tx_state' = "TX_IDLE"
    <2>1. heard' \in Nat
      <3>1. CASE tx_state = "DATA_BITS"
        <4>1. /\ heard \in Nat /\ tx_shift_reg \in Nat /\ bit_counter \in 0..7
              /\ heard + tx_shift_reg * 2^bit_counter = owed[1]
              /\ tx_shift_reg < 2^(8 - bit_counter)
          BY <1>2, <3>1 DEF OnTheLine
        <4>2. heard + (tx_shift_reg % 2) * 2^bit_counter \in Nat
          BY <4>1, BitMoves, Zenon DEF NextBit
        <4>3. uart_tx = tx_shift_reg % 2
          BY <3>1 DEF uart_tx
        <4> QED BY <1>4, <3>1, <4>1, <4>2, <4>3, Zenon
      <3>2. CASE tx_state # "DATA_BITS"
        BY <1>2, <1>4, <1>7, <3>2, Zenon
      <3> QED BY <3>1, <3>2
    <2> QED BY <1>8, <2>1 DEF OnTheLine
  <1>9. CASE tx_state' # "TX_IDLE"
    <2>1. ~reset /\ \/ Latch(tx_start_req, byte, cts) \/ StartBit(tick, cts) \/ DataBit(tick)
                    \/ Hold(tick)
      BY <1>3, <1>9 DEF TxSoftReset, Idle, StopBit
    <2>2. CASE Latch(tx_start_req, byte, cts)
      <3>1. /\ tx_state = "TX_IDLE" /\ tx_start_req /\ tx_state' = "START_BIT"
            /\ tx_shift_reg' = byte
        BY <2>2 DEF Latch
      <3>2. heard' = 0
        BY <1>4, <3>1
      <3>3. tx_fifo # <<>> /\ ~tx_busy /\ ~ByteLeaves(tick)
        BY <3>1 DEF tx_start_req, ByteLeaves, tx_busy
      <3>4. byte = tx_fifo[1] /\ 1 \in 1..Len(tx_fifo)
        BY <1>1, <3>3 DEF Widths
      <3>5. tx_fifo[1] = owed[Unsent + 1] /\ Unsent = 0
        <4>1. ~cut
          BY <3>1, FeedStep DEF IInv
        <4> QED BY <3>3, <3>4, <4>1 DEF InOrder, Unsent
      <3>6. tx_shift_reg' = owed'[1]
        BY <1>6, <3>1, <3>3, <3>4, <3>5
      <3> QED BY <1>7, <3>1, <3>2, <3>6, Zenon DEF OnTheLine
    <2>3. CASE StartBit(tick, cts)
      <3>1. /\ tx_state = "START_BIT" /\ tx_state' \in {"START_BIT", "DATA_BITS"}
            /\ tx_shift_reg' = tx_shift_reg /\ bit_counter' = bit_counter
        BY <2>3 DEF StartBit
      <3>2. heard' = 0 /\ bit_counter = 0 /\ tx_shift_reg = owed[1] /\ owed'[1] = owed[1]
        BY <1>2, <1>4, <1>6, <3>1 DEF OnTheLine, tx_busy, ByteLeaves
      <3>3. 0 + tx_shift_reg * 2^0 = tx_shift_reg /\ tx_shift_reg < 2^(8 - 0)
        <4>1. 2^0 = 1 /\ 2^(8 - 0) = 256
          OBVIOUS
        <4> QED BY <1>2, <4>1
      <3>4. /\ tx_state' # "STOP_BIT" /\ heard' = 0 /\ tx_shift_reg' = tx_shift_reg
            /\ bit_counter' = 0 /\ owed'[1] = tx_shift_reg
        BY <3>1, <3>2
      <3> QED BY <1>7, <3>3, <3>4, Zenon DEF OnTheLine
    <2>4. CASE DataBit(tick)
      <3>1. /\ tx_state = "DATA_BITS" /\ tick /\ bit_counter' = bit_counter + 1
            /\ tx_state' = IF bit_counter >= 7 THEN "STOP_BIT" ELSE "DATA_BITS"
            /\ tx_shift_reg' = IF bit_counter >= 7 THEN tx_shift_reg ELSE tx_shift_reg \div 2
        BY <2>4 DEF DataBit
      <3>2. heard' = heard + (tx_shift_reg % 2) * 2^bit_counter
        <4>1. uart_tx = tx_shift_reg % 2
          BY <3>1 DEF uart_tx
        <4> QED BY <1>4, <3>1, <4>1, Zenon
      <3>3. /\ heard + tx_shift_reg * 2^bit_counter = owed[1]
            /\ tx_shift_reg < 2^(8 - bit_counter) /\ owed'[1] = owed[1]
        BY <1>6, <3>1 DEF OnTheLine, tx_busy, ByteLeaves
      <3>4. NextBit(heard, tx_shift_reg, bit_counter, owed[1])
        <4>1. heard \in Nat /\ tx_shift_reg \in Nat /\ bit_counter \in 0..7
          BY <1>2, <3>1
        <4> QED BY <3>3, <4>1, BitMoves, Zenon
      <3>5. CASE bit_counter >= 7
        <4>1. tx_state' = "STOP_BIT"
          BY <3>1, <3>5
        <4>2. heard' \in Nat /\ heard' = owed'[1]
          BY <3>2, <3>3, <3>4, <3>5, Zenon DEF NextBit
        <4> QED BY <4>1, <4>2, Zenon DEF OnTheLine
      <3>6. CASE ~(bit_counter >= 7)
        <4>1. tx_state' = "DATA_BITS" /\ tx_shift_reg' = tx_shift_reg \div 2 /\ bit_counter < 7
          BY <1>2, <3>1, <3>6
        <4>2. /\ heard' \in Nat
              /\ heard' + tx_shift_reg' * 2^bit_counter' = owed'[1]
              /\ tx_shift_reg' < 2^(8 - bit_counter')
          BY <3>1, <3>2, <3>3, <3>4, <4>1, Zenon DEF NextBit
        <4> QED BY <4>1, <4>2, Zenon DEF OnTheLine
      <3> QED BY <3>5, <3>6
    <2>5. CASE Hold(tick)
      <3>1. /\ tx_state \in {"DATA_BITS", "STOP_BIT"} /\ ~tick /\ tx_state' = tx_state
            /\ bit_counter' = bit_counter /\ tx_shift_reg' = tx_shift_reg
        BY <2>5 DEF Hold
      <3>2. heard' = heard /\ owed'[1] = owed[1]
        BY <1>4, <1>6, <3>1 DEF tx_busy, ByteLeaves
      <3> QED BY <1>2, <3>1, <3>2, Zenon DEF OnTheLine
    <2> QED BY <2>1, <2>2, <2>3, <2>4, <2>5
  <1> QED BY <1>8, <1>9

LEMMA FaithfulHolds == ASSUME Fits PROVE Spec => []Faithful
  <1>1. Init => Faithful
    <2> SUFFICES ASSUME Init PROVE Faithful
      OBVIOUS
    <2>1. IInv
      BY IInvInit
    <2>2. /\ bstate = "BIDLE" /\ tx_state = "TX_IDLE" /\ heard = 0
          /\ tx_fifo = <<>> /\ tx_fifo_wr_en = FALSE
      BY DEF Init, BuilderInit, TxInit
    <2>3. CrcPlace
      BY <2>2, AddressStates DEF CrcPlace, SendState, InBody
    <2>4. Left = 0 /\ Len(tx_fifo) = 0
      BY <2>2, AddressStates, EmptySeq DEF Left
    <2>5. InOrder
      BY <2>2, <2>4 DEF InOrder
    <2>6. OnTheLine
      BY <2>2 DEF OnTheLine
    <2> QED BY <2>1, <2>3, <2>5, <2>6 DEF Faithful
  <1>2. Faithful /\ [Next]_vars => Faithful'
    <2> SUFFICES ASSUME Faithful, [Next]_vars PROVE Faithful'
      OBVIOUS
    <2>1. CASE Next
      <3>1. PICK build \in BOOLEAN, cts \in BOOLEAN, tick \in BOOLEAN, reset \in BOOLEAN,
                 req \in Requests : Clock(build, req, cts, tick, reset)
        BY <2>1 DEF Next
      <3>2. IInv /\ CrcPlace /\ InOrder /\ OnTheLine
        BY DEF Faithful
      <3>3. IInv'
        BY <3>1, <3>2, IInvStep
      <3>4. CrcPlace' /\ InOrder'
        BY <3>1, <3>2, OrderStep
      <3>5. OnTheLine'
        BY <3>1, <3>2, LineStep
      <3> QED BY <3>3, <3>4, <3>5 DEF Faithful
    <2>2. CASE UNCHANGED vars
      <3>1. UNCHANGED <<builderVars, txVars, feedVars, owed, heard, cut>>
        BY <2>2 DEF vars
      <3>2. IInv'
        <4>1. Widths'
          BY <3>1 DEF builderVars, requestRegs, txVars, feedVars, Faithful, IInv, Widths,
            BuilderTypeOK, UnderWay, IndexAtStart, TxTypeOK
        <4>2. Ledger'
          BY <3>1 DEF builderVars, requestRegs, txVars, feedVars, Faithful, IInv, Ledger, Left,
            TailLen, Carries, Strobed, Unsent, tx_busy, IsRead
        <4>3. (Len(tx_fifo) <= TxDepth /\ FeedState)'
          BY <3>1 DEF txVars, feedVars, Faithful, IInv, FeedState, FeedHungIffCut, FeedHung, tx_busy
        <4> QED BY <4>1, <4>2, <4>3 DEF IInv
      <3>3. /\ Held' = Held /\ Left' = Left /\ Unsent' = Unsent
            /\ (Carries' <=> Carries) /\ (InBody' <=> InBody)
        BY <3>1 DEF builderVars, requestRegs, txVars, Held, Left, TailLen, Carries, IsRead,
          Unsent, tx_busy, InBody
      <3>4. Place' = Place
        BY <3>3 DEF Place
      <3>5. CrcPlace'
        <4>1. Body(Held)' = Body(Held)
          BY <3>3
        <4> QED BY <3>1, <3>3, <3>4, <4>1 DEF builderVars, Faithful, CrcPlace
      <3>6. InOrder'
        <4>1. Reply(Held)' = Reply(Held)
          BY <3>3
        <4> QED BY <3>1, <3>3, <3>4, <4>1 DEF builderVars, feedVars, Faithful, InOrder
      <3>7. OnTheLine'
        BY <3>1 DEF txVars, Faithful, OnTheLine
      <3> QED BY <3>2, <3>5, <3>6, <3>7 DEF Faithful
    <2> QED BY <2>1, <2>2
  <1> QED BY <1>1, <1>2, PTL DEF Spec

-----------------------------------------------------------------------------
(* Every register keeps its width for every set of requests, and the FIFO   *)
(* its depth (Frame_Builder.sv, Uart_Tx.sv, the feed of Uart_Axi4_Bridge).  *)
THEOREM ResponsePathTypes == ASSUME Fits PROVE Spec => []ResponseTypeOK
  <1>1. IInv => ResponseTypeOK
    BY DEF IInv, Widths, ResponseTypeOK
  <1> QED BY <1>1, IInvHolds, PTL

(* assert_no_write_when_full of Frame_Builder.sv holds if the TX FIFO is    *)
(* as deep as the longest reply, 72 bytes, and what the host leaves unread. *)
(* The 64 entries AXIUART_Top gives it are not enough (run shipped_depth).  *)
THEOREM NoByteOverflows == ASSUME Fits PROVE Spec => []NoWriteWhenFull
  <1>1. IInv => NoWriteWhenFull
    BY RoomForAll DEF IInv
  <1> QED BY <1>1, IInvHolds, PTL

(* The pulse of Uart_Axi4_Bridge.sv is left up with nobody to lower it if   *)
(* and only if a byte was refused at its hand-over, CTS off in that cycle,  *)
(* or cut by a RESET in mid-byte: nothing else hangs the feed, and nothing  *)
(* frees it.  No assumption on the depth, on CTS or on RESET.               *)
THEOREM FeedHangsOnlyWhenCut == Spec => []FeedHungIffCut
  <1>1. Init => FeedState
    BY DEF Init, BuilderInit, TxInit, FeedState, FeedHungIffCut, FeedHung, tx_busy
  <1>2. FeedState /\ [Next]_vars => FeedState'
    <2> SUFFICES ASSUME FeedState, [Next]_vars PROVE FeedState'
      OBVIOUS
    <2>1. CASE Next
      BY <2>1, FeedStep DEF Next
    <2>2. CASE UNCHANGED vars
      BY <2>2 DEF vars, txVars, feedVars, FeedState, FeedHungIffCut, FeedHung, tx_busy
    <2> QED BY <2>1, <2>2
  <1>3. FeedState => FeedHungIffCut
    BY DEF FeedState
  <1> QED BY <1>1, <1>2, <1>3, PTL DEF Spec

(* The byte handed over, those in the FIFO and on the write port are, in    *)
(* this order, the next bytes owed to the host: none is dropped, doubled or *)
(* overtaken between Frame_Builder.sv and the serial line.                  *)
THEOREM BytesLeaveInOrder == ASSUME Fits PROVE Spec => []BytesAccountedFor
  <1>1. Faithful => BytesAccountedFor
    <2> SUFFICES ASSUME Faithful PROVE BytesAccountedFor
      OBVIOUS
    <2> DEFINE T    == Unsent
               F    == Len(tx_fifo)
               port == IF tx_fifo_wr_en THEN <<tx_fifo_data>> ELSE <<>>
    <2>1. /\ tx_fifo \in Seq(Byte) /\ tx_fifo_data \in Byte /\ tx_fifo_wr_en \in BOOLEAN
          /\ owed \in Seq(Word) /\ Len(owed) = T + F + Strobed + Left
          /\ Len(owed) \in Nat /\ F \in Nat /\ T \in {0, 1}
      BY LenProperties DEF Faithful, IInv, Widths, Ledger, BuilderTypeOK, Unsent
    <2>2. Left \in Nat
      BY LeftIsNumber DEF Faithful, IInv
    <2>3. port \in Seq(Byte) /\ Len(port) = Strobed /\ Strobed \in {0, 1}
          /\ (Strobed = 1 => port[1] = tx_fifo_data)
      BY <2>1 DEF Strobed
    <2> HIDE DEF port
    <2>4. Joins(Byte, tx_fifo, port, InFlight)
      <3>1. InFlight = tx_fifo \o port
        BY DEF InFlight, port
      <3> QED BY <2>1, <2>3, <3>1, OneAfterAnother, Zenon
    <2>5. /\ InFlight \in Seq(Byte) /\ Len(InFlight) = F + Strobed
          /\ \A i \in 1..F : InFlight[i] = tx_fifo[i]
          /\ \A k \in 1..Strobed : InFlight[F + k] = port[k]
      BY <2>3, <2>4, Zenon DEF Joins
    <2>6. ASSUME NEW i \in 1..Len(InFlight) PROVE InFlight[i] = owed[T + i]
      <3>1. CASE i <= F
        BY <2>1, <2>5, <3>1 DEF Faithful, InOrder
      <3>2. CASE ~(i <= F)
        <4>1. Strobed = 1 /\ i = F + 1
          BY <2>1, <2>3, <2>5, <3>2
        <4>2. InFlight[F + 1] = tx_fifo_data
          <5>1. 1 \in 1..Strobed
            BY <4>1
          <5> QED BY <2>3, <2>5, <4>1, <5>1
        <4>3. tx_fifo_data = owed[T + F + 1]
          BY <4>1 DEF Faithful, InOrder, Strobed
        <4>4. T + i = T + F + 1
          BY <2>1, <4>1
        <4> QED BY <4>1, <4>2, <4>3, <4>4
      <3> QED BY <3>1, <3>2
    <2>7. T + Len(InFlight) <= Len(owed) /\ T \in Nat
      BY <2>1, <2>2, <2>3, <2>5
    <2>8. SubSeq(owed, 1 + T, T + Len(InFlight)) = InFlight
      BY <2>1, <2>5, <2>6, <2>7, PartIs, Zenon
    <2> QED BY <2>7, <2>8 DEF BytesAccountedFor
  <1> QED BY <1>1, FaithfulHolds, PTL

(* A receiver that samples the line once per bit period reads, bit for bit, *)
(* the byte of the reply that is due (Uart_Tx.sv).                          *)
THEOREM HostReadsEveryByte == ASSUME Fits PROVE Spec => HostReadsTheReply
  <1>1. Faithful /\ [Next]_vars
           => [tx_state = "STOP_BIT" /\ tx_state' = "TX_IDLE"
                 => owed # <<>> /\ heard = Head(owed)]_vars
    <2> SUFFICES ASSUME Faithful, tx_state = "STOP_BIT"
                 PROVE  owed # <<>> /\ heard = Head(owed)
      OBVIOUS
    <2>1. /\ heard = owed[1] /\ Unsent = 1 /\ owed \in Seq(Word)
          /\ Len(owed) = Unsent + Len(tx_fifo) + Strobed + Left
          /\ Len(tx_fifo) \in Nat /\ Strobed \in {0, 1}
      BY LenProperties DEF Faithful, OnTheLine, Unsent, tx_busy, IInv, Ledger, Widths, Strobed
    <2>2. Left \in Nat
      BY LeftIsNumber DEF Faithful, IInv
    <2>3. Len(owed) >= 1
      BY <2>1, <2>2
    <2> QED BY <2>1, <2>3
  <1> QED BY <1>1, FaithfulHolds, PTL DEF Spec, HostReadsTheReply
=============================================================================
