------------------------- MODULE FrameBuilder_proofs -------------------------
(***************************************************************************)
(* Lemmas about one clock of Frame_Builder.sv, for both of the modules     *)
(* that wire it up (RequestPath and ResponsePath): its registers keep      *)
(* their widths and what it strobes is a byte, whatever the FIFO, the      *)
(* build request and the soft reset do.  Before them, what every proof     *)
(* about the CRC rests on: the register after some bytes is a function of  *)
(* those bytes (induction over their number).                              *)
(***************************************************************************)
EXTENDS FrameBuilder, SequenceTheorems, WellFoundedInduction, TLAPS

-----------------------------------------------------------------------------
(* Induction over the naturals, on a set of numbers: what the library's     *)
(* schemas say of an operator, for a set the provers can be given.          *)
LessThan == {ss \in Nat \X Nat : ss[1] < ss[2]}

LEMMA LessIsWellFounded == IsWellFoundedOn(LessThan, Nat)
  BY NatLessThanWellFounded DEF OpToRel, LessThan

LEMMA LeastNumber ==
    ASSUME NEW T, T \subseteq Nat, T # {}
    PROVE  \E x \in T : \A y \in T : x <= y
  <1>1. PICK x \in T : \A y \in T : ~(<<y, x>> \in LessThan)
    BY LessIsWellFounded, WFMin
  <1>2. \A y \in T : ~(y < x)
    BY <1>1 DEF LessThan
  <1> QED BY <1>2

LEMMA SetInduction ==
    ASSUME NEW S, 0 \in S, \A n \in Nat : n \in S => n + 1 \in S
    PROVE  Nat \subseteq S
  <1> SUFFICES ASSUME Nat \ S # {} PROVE FALSE
    OBVIOUS
  <1>1. PICK x \in Nat \ S : \A y \in Nat \ S : x <= y
    BY LeastNumber
  <1>2. x # 0 /\ x - 1 \in Nat
    BY <1>1
  <1>3. x - 1 \in S
    BY <1>1, <1>2
  <1> QED BY <1>1, <1>2, <1>3

(* The CRC register does follow the bytes: its recursion has a solution.    *)
Follows(crc, bytes, n) ==
    crc = [i \in 0..n |-> IF i = 0 THEN 0 ELSE CrcNext(crc[i - 1], bytes[i])]

LEMMA CrcFollows ==
    ASSUME NEW bytes, NEW n \in Nat
    PROVE  \E crc : Follows(crc, bytes, n)
  <1> DEFINE S == {k \in Nat : \E crc : Follows(crc, bytes, k)}
  <1>1. 0 \in S
    <2>1. Follows([i \in 0..0 |-> 0], bytes, 0)
      BY DEF Follows
    <2> QED BY <2>1
  <1>2. ASSUME NEW k \in Nat, k \in S
        PROVE  k + 1 \in S
    <2>1. PICK crc : Follows(crc, bytes, k)
      BY <1>2
    <2> DEFINE more == [i \in 0..(k + 1) |-> IF i <= k THEN crc[i] ELSE CrcNext(crc[k], bytes[k + 1])]
               next == [i \in 0..(k + 1) |-> IF i = 0 THEN 0 ELSE CrcNext(more[i - 1], bytes[i])]
    <2>2. ASSUME NEW i \in 0..(k + 1)
          PROVE  more[i] = next[i]
      <3>1. CASE i = 0
        BY <2>1, <3>1 DEF Follows
      <3>2. CASE i \in 1..k
        <4>1. more[i] = crc[i] /\ more[i - 1] = crc[i - 1]
          BY <3>2
        <4>2. crc[i] = CrcNext(crc[i - 1], bytes[i])
          BY <2>1, <3>2 DEF Follows
        <4>3. next[i] = CrcNext(more[i - 1], bytes[i])
          BY <3>2
        <4> QED BY <4>1, <4>2, <4>3
      <3>3. CASE i = k + 1
        <4>1. more[i] = CrcNext(crc[k], bytes[k + 1]) /\ more[i - 1] = crc[k]
          BY <3>3
        <4>2. next[i] = CrcNext(more[i - 1], bytes[i])
          BY <3>3
        <4> QED BY <3>3, <4>1, <4>2
      <3> QED BY <3>1, <3>2, <3>3
    <2>3. more = next
      BY <2>2
    <2>4. Follows(more, bytes, k + 1)
      BY <2>3 DEF Follows
    <2> QED BY <2>4
  <1> HIDE DEF S
  <1>3. Nat \subseteq S
    BY <1>1, <1>2, SetInduction
  <1> QED BY <1>3 DEF S

LEMMA CrcStep ==
    ASSUME NEW bytes, Len(bytes) \in Nat
    PROVE  /\ CrcRun(bytes)[0] = 0
           /\ \A i \in 1..Len(bytes) : CrcRun(bytes)[i] = CrcNext(CrcRun(bytes)[i - 1], bytes[i])
  <1>1. CrcRun(bytes) = CHOOSE crc : Follows(crc, bytes, Len(bytes))
    BY DEF CrcRun, Follows
  <1>2. Follows(CrcRun(bytes), bytes, Len(bytes))
    BY <1>1, CrcFollows
  <1> DEFINE crc == CrcRun(bytes)
  <1> HIDE DEF crc
  <1>3. Follows(crc, bytes, Len(bytes))
    BY <1>2 DEF crc
  <1>4. crc[0] = 0
    BY <1>3 DEF Follows
  <1>5. ASSUME NEW i \in 1..Len(bytes)
        PROVE  crc[i] = CrcNext(crc[i - 1], bytes[i])
    BY <1>3 DEF Follows
  <1> QED BY <1>4, <1>5 DEF crc

(* Only the bytes before it matter to the register.                         *)
LEMMA CrcPrefix ==
    ASSUME NEW b, NEW c, Len(b) \in Nat, Len(c) \in Nat, NEW n \in Nat, n <= Len(b), n <= Len(c),
           \A i \in 1..n : b[i] = c[i]
    PROVE  CrcRun(b)[n] = CrcRun(c)[n]
  <1> DEFINE S == {k \in Nat : k <= n => CrcRun(b)[k] = CrcRun(c)[k]}
  <1>1. 0 \in S
    <2>1. CrcRun(b)[0] = 0 /\ CrcRun(c)[0] = 0
      BY CrcStep
    <2> QED BY <2>1
  <1>2. ASSUME NEW k \in Nat, k \in S
        PROVE  k + 1 \in S
    <2> SUFFICES ASSUME k + 1 <= n PROVE CrcRun(b)[k + 1] = CrcRun(c)[k + 1]
      OBVIOUS
    <2>1. k + 1 \in 1..n /\ k + 1 \in 1..Len(b) /\ k + 1 \in 1..Len(c) /\ (k + 1) - 1 = k
      OBVIOUS
    <2>2. CrcRun(b)[k] = CrcRun(c)[k] /\ b[k + 1] = c[k + 1]
      BY <1>2, <2>1
    <2>3. /\ CrcRun(b)[k + 1] = CrcNext(CrcRun(b)[k], b[k + 1])
          /\ CrcRun(c)[k + 1] = CrcNext(CrcRun(c)[k], c[k + 1])
      BY <2>1, CrcStep
    <2> QED BY <2>2, <2>3
  <1> HIDE DEF S
  <1>3. n \in S
    BY <1>1, <1>2, SetInduction
  <1> QED BY <1>3 DEF S

-----------------------------------------------------------------------------
(* Sequences of bytes, as functions on their indices.                       *)
LEMMA FourCells == ASSUME NEW n \in Nat, 1..n = 1..4 PROVE n = 4
  <1>1. 4 \in 1..n
    OBVIOUS
  <1>2. n \in 1..4
    BY <1>1
  <1> QED BY <1>1, <1>2

(* Four bytes of address are a sequence.                                    *)
LEMMA AddressIsSeq ==
    ASSUME NEW a \in [1..4 -> Byte]
    PROVE  a \in Seq(Byte) /\ Len(a) = 4
  <1>1. a \in Seq(Byte)
    <2>1. a \in UNION {[1..n -> Byte] : n \in Nat}
      OBVIOUS
    <2> QED BY <2>1, SeqDef, Zenon
  <1>2. 1..Len(a) = 1..4 /\ Len(a) \in Nat
    BY <1>1, LenProperties
  <1> QED BY <1>1, <1>2, FourCells

(* One sequence after another, element by element.                          *)
Joins(S, s, t, st) ==
    /\ st \in Seq(S) /\ Len(s) \in Nat /\ Len(t) \in Nat
    /\ Len(st) = Len(s) + Len(t)
    /\ \A i \in 1..Len(s) : st[i] = s[i]
    /\ \A k \in 1..Len(t) : st[Len(s) + k] = t[k]

LEMMA OneAfterAnother ==
    ASSUME NEW S, NEW s \in Seq(S), NEW t \in Seq(S)
    PROVE  Joins(S, s, t, s \o t)
  <1>1. /\ s \o t \in Seq(S) /\ Len(s) \in Nat /\ Len(t) \in Nat
        /\ Len(s \o t) = Len(s) + Len(t)
    OBVIOUS
  <1>2. \A i \in 1..Len(s) : (s \o t)[i] = s[i]
    OBVIOUS
  <1>3. \A k \in 1..Len(t) : (s \o t)[Len(s) + k] = t[k]
    OBVIOUS
  <1> QED BY <1>1, <1>2, <1>3, Zenon DEF Joins

(* A sequence that agrees with part of another is that part.                *)
LEMMA PartIs ==
    ASSUME NEW S, NEW R, NEW s \in Seq(S), NEW p \in Seq(R), NEW t \in Nat, t + Len(p) <= Len(s),
           \A i \in 1..Len(p) : p[i] = s[t + i]
    PROVE  SubSeq(s, 1 + t, t + Len(p)) = p
  <1>1. Len(p) \in Nat /\ Len(s) \in Nat
    OBVIOUS
  <1>2. SubSeq(s, 1 + t, t + Len(p)) = [i \in 1..Len(p) |-> s[t + i]]
    BY <1>1
  <1>3. p = [i \in 1..Len(p) |-> p[i]]
    OBVIOUS
  <1> QED BY <1>2, <1>3

-----------------------------------------------------------------------------
(* What the data ports may carry when a response is asked for. *)
IsRequest(req) ==
    /\ req.status \in Byte /\ req.cmd \in Byte /\ req.addr \in [1..4 -> Byte]
    /\ req.data \in Seq(Byte) /\ Len(req.data) <= 64

(* The index into the data is still at its start before the data is sent. *)
IndexAtStart ==
    bstate \in {"BSOF", "BSTATUS", "BCMD"} \cup {BAddrState[i] : i \in 1..4} => data_index = 0

(* The four address states, one by one. *)
LEMMA AddressStates ==
    /\ BAddrState[1] = "BADDR_BYTE0" /\ BAddrState[2] = "BADDR_BYTE1"
    /\ BAddrState[3] = "BADDR_BYTE2" /\ BAddrState[4] = "BADDR_BYTE3"
    /\ {BAddrState[i] : i \in 1..4} = {"BADDR_BYTE0", "BADDR_BYTE1", "BADDR_BYTE2", "BADDR_BYTE3"}
  <1>1. /\ BAddrState[1] = "BADDR_BYTE0" /\ BAddrState[2] = "BADDR_BYTE1"
        /\ BAddrState[3] = "BADDR_BYTE2" /\ BAddrState[4] = "BADDR_BYTE3"
    BY DEF BAddrState
  <1>2. 1..4 = {1, 2, 3, 4}
    OBVIOUS
  <1> QED BY <1>1, <1>2

(* Where each address state leads.                                          *)
LEMMA NextAddress ==
    ASSUME NEW i \in 1..3, bstate = BAddrState[i]
    PROVE  AfterSend = BAddrState[i + 1]
  <1>1. \A j \in 1..3 : bstate = BAddrState[j] <=> j = i
    BY AddressStates
  <1> DEFINE here == CHOOSE j \in 1..3 : bstate = BAddrState[j]
  <1>2. here = i
    BY <1>1
  <1>3. /\ bstate \notin {"BSOF", "BSTATUS", "BCMD", "BDATA", "BCRC"}
        /\ bstate # BAddrState[4]
    BY AddressStates
  <1>4. AfterSend = BAddrState[1 + here]
    BY <1>3 DEF AfterSend
  <1> HIDE DEF here
  <1>5. 1 + here = i + 1
    BY <1>2
  <1> QED BY <1>4, <1>5

(* What the builder strobes is a byte. *)
LEMMA SentIsByte ==
    ASSUME BuilderTypeOK, NEW full, Sends(full)
    PROVE  ByteToSend \in Byte
  <1>1. CASE bstate \in {BAddrState[i] : i \in 1..4}
    <2>1. PICK i \in 1..4 : bstate = BAddrState[i]
      BY <1>1
    <2>2. (CHOOSE j \in 1..4 : bstate = BAddrState[j]) \in 1..4
      BY <2>1
    <2>3. ByteToSend = addr_echo_reg[CHOOSE j \in 1..4 : bstate = BAddrState[j]]
      BY <1>1, AddressStates DEF ByteToSend
    <2> QED BY <2>2, <2>3 DEF BuilderTypeOK
  <1>2. CASE bstate = "BDATA"
    <2>1. data_index + 1 \in 1..Len(resp_data) /\ resp_data \in Seq(Byte)
      BY <1>2 DEF BuilderTypeOK
    <2>2. resp_data[data_index + 1] \in Byte
      BY <2>1, ElementOfSeq
    <2> QED BY <1>2, <2>2 DEF ByteToSend
  <1>3. CASE bstate = "BSOF"
    BY <1>3 DEF ByteToSend, SOF_DEVICE, Byte
  <1>4. CASE bstate \in {"BSTATUS", "BCMD", "BCRC"}
    <2>1. ByteToSend \in {status_reg, cmd_echo_reg, bcrc_reg}
      BY <1>4 DEF ByteToSend
    <2> QED BY <2>1 DEF BuilderTypeOK
  <1> QED BY <1>1, <1>2, <1>3, <1>4 DEF Sends, SendState

(* Where the states before the last data byte lead. *)
LEMMA NextState ==
    /\ bstate = "BSOF" => AfterSend = "BSTATUS"
    /\ bstate = "BSTATUS" => AfterSend = "BCMD"
    /\ bstate = "BCMD" => AfterSend \in {"BIDLE", BAddrState[1], "BCRC"}
    /\ bstate = BAddrState[1] => AfterSend = BAddrState[2]
    /\ bstate = BAddrState[2] => AfterSend = BAddrState[3]
    /\ bstate = BAddrState[3] => AfterSend = BAddrState[4]
    /\ bstate = BAddrState[4] => AfterSend = IF Len(resp_data) > 0 THEN "BDATA" ELSE "BCRC"
    /\ bstate = "BDATA" =>
          AfterSend = IF data_index + 1 = Len(resp_data) THEN "BCRC" ELSE "BDATA"
    /\ bstate = "BCRC" => AfterSend = "BDONE"
  <1>1. /\ bstate = BAddrState[1] => AfterSend = BAddrState[2]
        /\ bstate = BAddrState[2] => AfterSend = BAddrState[3]
        /\ bstate = BAddrState[3] => AfterSend = BAddrState[4]
    <2>1. \A i \in 1..3 : bstate = BAddrState[i] => AfterSend = BAddrState[i + 1]
      BY NextAddress
    <2> QED BY <2>1
  <1>2. CASE bstate = "BCMD"
    <2>1. AfterSend = AfterCmd
      BY <1>2, AddressStates DEF AfterSend
    <2>2. AfterCmd \in {"BIDLE", BAddrState[1], "BCRC"}
      BY DEF AfterCmd
    <2> QED BY <1>2, <2>1, <2>2, AddressStates
  <1>3. CASE bstate = BAddrState[4]
    BY <1>3, AddressStates DEF AfterSend
  <1>4. CASE bstate \in {"BSOF", "BSTATUS", "BDATA", "BCRC"}
    BY <1>4, AddressStates DEF AfterSend, AfterData
  <1> QED BY <1>1, <1>2, <1>3, <1>4, AddressStates

(* The builder's registers keep their widths.                               *)
LEMMA BuilderWidths ==
    ASSUME BuilderTypeOK, IndexAtStart, NEW full, NEW build \in BOOLEAN, NEW req, NEW reset,
           build => IsRequest(req), BuilderClock(full, build, req, reset)
    PROVE  BuilderTypeOK' /\ IndexAtStart'
  <1>1. BuilderTypeOK /\ IndexAtStart
    OBVIOUS
  <1>2. /\ (IF reset THEN BuilderSoftReset ELSE BuilderFsm(full, build, req))
        /\ BuilderCrc(full)
    BY DEF BuilderClock
  <1>3. bcrc_reg' \in Byte
    <2>1. Sends(full) => CrcNext(bcrc_reg, ByteToSend) \in Byte
      BY <1>1, SentIsByte, CrcNextIsByte DEF BuilderTypeOK
    <2>2. bcrc_reg \in Byte /\ 0 \in Byte
      BY <1>1 DEF BuilderTypeOK, Byte
    <2> QED BY <1>2, <2>1, <2>2 DEF BuilderCrc
  <1>4. CASE reset
    <2>1. BuilderSoftReset
      BY <1>2, <1>4
    <2>2. 0 \in Byte /\ <<>> \in Seq(Byte) /\ Len(<<>>) = 0 /\ [i \in 1..4 |-> 0] \in [1..4 -> Byte]
      BY DEF Byte
    <2>3. bstate' = "BIDLE" /\ data_index' = 0 /\ "BIDLE" \in BuilderState
      BY <2>1 DEF BuilderSoftReset, BuilderState
    <2>4. /\ status_reg' = 0 /\ cmd_echo_reg' = 0
          /\ resp_data' = <<>> /\ build_response_prev' = FALSE
          /\ tx_fifo_wr_en' = FALSE /\ tx_fifo_data' = 0
      BY <2>1 DEF BuilderSoftReset
    <2>5. BuilderTypeOK'
      <3>1. 0 \in Byte
        BY DEF Byte
      <3>2. /\ status_reg' \in Byte /\ cmd_echo_reg' \in Byte /\ tx_fifo_data' \in Byte
            /\ build_response_prev' \in BOOLEAN /\ tx_fifo_wr_en' \in BOOLEAN
        BY <2>4, <3>1, Zenon
      <3>3. data_index' \in 0..64
        BY <2>3
      <3>4. resp_data' \in Seq(Byte) /\ Len(resp_data') = 0
        BY <2>2, <2>4, Zenon
      <3>5. Len(resp_data') <= 64
        BY <3>4
      <3>6. addr_echo_reg' \in [1..4 -> Byte]
        BY <2>1, <2>2, Zenon DEF BuilderSoftReset
      <3> QED BY <1>3, <2>3, <3>2, <3>3, <3>4, <3>5, <3>6 DEF BuilderTypeOK
    <2> QED BY <2>3, <2>5, AddressStates DEF IndexAtStart
  <1>5. CASE ~reset
    <2>1. /\ StartResponse(build, req) \/ SendByte(full, build)
             \/ Rest(full, build)
          /\ build_response_prev' = build
          /\ tx_fifo_wr_en' = Sends(full)
          /\ tx_fifo_data' = IF Sends(full) THEN ByteToSend ELSE 0
      BY <1>2, <1>5 DEF BuilderFsm
    <2>2. build_response_prev' \in BOOLEAN /\ tx_fifo_wr_en' \in BOOLEAN /\ tx_fifo_data' \in Byte
      BY <1>1, <1>2, <2>1, SentIsByte DEF Sends, Byte
    <2>3. CASE StartResponse(build, req)
      <3>1. /\ bstate' = "BSOF" /\ data_index' = 0
            /\ status_reg' = req.status /\ cmd_echo_reg' = req.cmd
            /\ addr_echo_reg' = req.addr /\ resp_data' = req.data
        BY <2>3 DEF StartResponse
      <3>2. "BSOF" \in BuilderState
        BY DEF BuilderState, SendState
      <3>3. IsRequest(req)
        BY <2>3 DEF StartResponse, BuildEdge
      <3> QED BY <1>3, <2>2, <3>1, <3>2, <3>3 DEF BuilderTypeOK, IndexAtStart, IsRequest
    <2>4. CASE SendByte(full, build)
      <3>1. /\ bstate \in SendState /\ (bstate = "BDATA" => data_index < Len(resp_data))
            /\ bstate' = AfterSend
            /\ \/ data_index' = 0
               \/ data_index' = IF bstate = "BDATA" THEN data_index + 1 ELSE data_index
            /\ status_reg' = status_reg /\ cmd_echo_reg' = cmd_echo_reg
            /\ addr_echo_reg' = addr_echo_reg /\ resp_data' = resp_data
        BY <2>4 DEF SendByte, Sends, requestRegs
      <3>2. Len(resp_data) \in Nat /\ Len(resp_data) <= 64 /\ data_index \in 0..64
        BY <1>1, LenProperties DEF BuilderTypeOK
      <3>3. /\ bstate' \in BuilderState /\ data_index' \in 0..64
            /\ bstate' = "BDATA" => data_index' < Len(resp_data')
            /\ bstate' \in {"BSOF", "BSTATUS", "BCMD"} \cup {BAddrState[i] : i \in 1..4}
                  => data_index' = 0
        <4>1. /\ AfterSend \in BuilderState
              /\ AfterSend = "BDATA" => bstate = "BDATA" \/ (bstate = BAddrState[4] /\ Len(resp_data) > 0)
              /\ AfterSend = "BDATA" /\ bstate = "BDATA" => data_index + 1 # Len(resp_data)
              /\ AfterSend \in {"BSOF", "BSTATUS", "BCMD"} \cup {BAddrState[i] : i \in 1..4}
                    => bstate \in {"BSOF", "BSTATUS", "BCMD"} \cup {BAddrState[i] : i \in 1..4}
          BY <3>1, <3>2, NextState, AddressStates DEF SendState, BuilderState
        <4>2. CASE data_index' = 0
          <5>1. bstate' = "BDATA" => Len(resp_data) > 0
            BY <3>1, <3>2, <4>1
          <5>2. Len(resp_data') = Len(resp_data) /\ 0 \in 0..64
            BY <3>1
          <5> QED BY <3>1, <3>2, <4>1, <4>2, <5>1, <5>2
        <4>3. CASE data_index' = IF bstate = "BDATA" THEN data_index + 1 ELSE data_index
          BY <1>1, <3>1, <3>2, <4>1, <4>3, AddressStates DEF IndexAtStart
        <4> QED BY <3>1, <4>2, <4>3
      <3> QED BY <1>1, <1>3, <2>2, <3>1, <3>3 DEF BuilderTypeOK, IndexAtStart
    <2>5. CASE Rest(full, build)
      <3>1. /\ bstate' = CASE bstate = "BDONE" -> "BGAP" [] bstate = "BGAP" -> "BIDLE"
                           [] OTHER -> bstate
            /\ data_index' = data_index \/ data_index' = 0
            /\ status_reg' = status_reg /\ cmd_echo_reg' = cmd_echo_reg
            /\ addr_echo_reg' = addr_echo_reg /\ resp_data' = resp_data
        BY <2>5 DEF Rest, requestRegs
      <3>2. bstate' \in BuilderState /\ (bstate' \notin {"BGAP", "BIDLE"} => bstate' = bstate)
        BY <1>1, <3>1 DEF BuilderTypeOK, BuilderState
      <3>3. /\ data_index' \in 0..64 /\ (data_index = 0 => data_index' = 0)
            /\ bstate' = "BDATA" => data_index' < Len(resp_data')
        <4>1. data_index \in 0..64 /\ (bstate = "BDATA" => data_index < Len(resp_data))
              /\ resp_data \in Seq(Byte)
          BY <1>1 DEF BuilderTypeOK
        <4>2. Len(resp_data) \in Nat
          BY <4>1, LenProperties
        <4>3. Len(resp_data') = Len(resp_data) /\ (bstate' = "BDATA" => bstate = "BDATA")
          BY <3>1, <3>2
        <4>4. CASE data_index' = 0
          BY <4>1, <4>2, <4>3, <4>4
        <4>5. CASE data_index' = data_index
          BY <4>1, <4>2, <4>3, <4>5
        <4> QED BY <3>1, <4>4, <4>5
      <3>4. "BGAP" \notin {"BSOF", "BSTATUS", "BCMD"} \cup {BAddrState[i] : i \in 1..4}
            /\ "BIDLE" \notin {"BSOF", "BSTATUS", "BCMD"} \cup {BAddrState[i] : i \in 1..4}
        BY AddressStates
      <3>5. IndexAtStart'
        BY <1>1, <3>1, <3>2, <3>3, <3>4 DEF IndexAtStart
      <3> QED BY <1>1, <1>3, <2>2, <3>1, <3>2, <3>3, <3>5 DEF BuilderTypeOK
    <2> QED BY <2>1, <2>3, <2>4, <2>5
  <1> QED BY <1>4, <1>5
=============================================================================
