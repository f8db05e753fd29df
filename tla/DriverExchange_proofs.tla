------------------------ MODULE DriverExchange_proofs ------------------------
(***************************************************************************)
(* The driver and the bridge stay in step, over a line that may be late or *)
(* cut and change a byte of any frame or reply: for any calls, registers   *)
(* and number of faults, if both sides run one CRC that tells single bytes *)
(* apart.  The module goes from the bytes up: words, CRC, sequences; the   *)
(* driver's frames; the replies; what the device carries out; the steps;   *)
(* the theorems; and last the refinement of RegisterClient.                *)
(***************************************************************************)
EXTENDS DriverExchange, SequenceTheorems, FiniteSetTheorems, WellFoundedInduction, TLAPS

(* A call the driver does not refuse, the command byte of its frame, and the *)
(* frame as the bridge hears it: behind the marker.                          *)
Sendable(op) == op \in Ops /\ FrameOf(op) # ValueError
Code(op) == (IF op.kind = "read" THEN 128 ELSE 0) + (IF op.inc THEN 64 ELSE 0)
            + 32 + (op.count - 1)
Heard(op) == Tail(FrameOf(op))

(* What is on its way to the device, at the bridge, and told of it.          *)
InFlight ==
    /\ toDevice \in Seq([op : Ops, bytes : Seq(Byte)])
    /\ \A i \in 1..Len(toDevice) : /\ Sendable(toDevice[i].op)
                                   /\ toDevice[i].bytes = FrameOf(toDevice[i].op)

AtBridge ==
    /\ phase \in {"listening", "executing", "answering"}
    /\ phase = "executing" => /\ Sendable(working) /\ working.kind # "reset"
                              /\ job = Heard(working)
    /\ phase = "answering" => /\ job \in Seq(Byte) /\ Len(job) >= 6
                              /\ outcome.status \in Status /\ outcome.data \in Seq(Byte)

(* The call the host is blocked in, and the values it may be told.           *)
Calling ==
    /\ pc \in {"closed", "idle"} \cup Reads
    /\ pc \notin Reads => call = NoCall
    /\ pc \in Reads => /\ Sendable(call.op) /\ call.quiet \in BOOLEAN
                       /\ call.faults \in Nat /\ call.faults <= faults
    /\ told.ok \in BOOLEAN /\ told.values \in Seq(Word32)

Bytes ==
    /\ regs \in [Addresses -> Word32] /\ alive \in BOOLEAN /\ mute \in BOOLEAN
    /\ rx \in Seq(Byte) /\ got \in Seq(Byte)
    /\ Len(got) = CASE pc = "header" -> 1 [] pc = "tail" -> 3 [] OTHER -> 0
    /\ calls \in 0..MaxCalls /\ faults \in 0..MaxFaults

(* The bridge is about to answer the operation with what became of it.       *)
Owes(op) ==
    /\ op.kind # "reset" /\ job[1] = Code(op)
    /\ outcome.status = STATUS_OK <=> told.ok
    /\ told.ok /\ op.kind = "write" => told.values = <<>>
    /\ told.ok /\ op.kind = "read" => /\ Len(told.values) = op.count
                                      /\ outcome.data = PackAll(told.values)

(* The reply, and what the line may have made of it.                         *)
IsReply(r, op) ==
    /\ op.kind # "reset" /\ r \in Seq(Byte)
    /\ Len(r) = IF told.ok /\ op.kind = "read" THEN 8 + 4 * op.count ELSE 4
    /\ r[1] = SOF_FROM_DEVICE /\ r[2] \in Status /\ r[3] = Code(op)
    /\ r[2] = STATUS_OK <=> told.ok
    /\ r[Len(r)] = CrcOf(SubSeq(r, 2, Len(r) - 1))
    /\ told.ok /\ op.kind = "write" => told.values = <<>>
    /\ told.ok /\ op.kind = "read" =>
         /\ Len(told.values) = op.count
         /\ \A k \in 1..op.count : \A i \in 1..4 : r[3 + 4 * k + i] = Pack(told.values[k])[i]

Disturbed(r, g) ==
    g = r \/ \E i \in 1..Len(r) : \E b \in Byte : b # r[i] /\ g = [r EXCEPT ![i] = b]

(* Where the exchange stands of a call that began on a quiet line.           *)
Unheard    == alive /\ toDevice = <<[op |-> call.op, bytes |-> FrameOf(call.op)]>>
              /\ phase = "listening" /\ told = Untold
UnderWay   == alive /\ toDevice = <<>> /\ phase = "executing" /\ working = call.op
              /\ told = Untold
Reset      == alive /\ toDevice = <<>> /\ phase = "listening" /\ call.op.kind = "reset"
              /\ told = Untold
CarriedOut == alive /\ toDevice = <<>> /\ phase = "answering" /\ Owes(call.op)
Dead       == ~alive /\ (faults = call.faults => told = Untold)

Unanswered == /\ pc = "sof" /\ rx = <<>>
              /\ Unheard \/ UnderWay \/ Reset \/ CarriedOut \/ Dead

Answered == /\ toDevice = <<>> /\ phase = "listening"
            /\ \E r : /\ IsReply(r, call.op) /\ Disturbed(r, got \o rx)
                      /\ faults = call.faults => got \o rx = r

Exchange == pc \in Reads /\ call.quiet => Unanswered \/ Answered

(* No RESET makes the bridge mute while such a call waits: its own finds no  *)
(* reply half sent, and no other is under way.                               *)
Speaks == pc \in Reads /\ call.quiet => ~mute

InStep == InFlight /\ AtBridge /\ Calling /\ Bytes /\ Exchange /\ Speaks
------------------------------------------------------------------------------
(* struct.pack and struct.unpack of four bytes, low byte first.              *)
LEMMA Powers ==
    256^(1 - 1) = 1 /\ 256^(2 - 1) = 256 /\ 256^(3 - 1) = 65536 /\ 256^(4 - 1) = 16777216
  <1>1. 256^(1 - 1) = 1
    OBVIOUS
  <1>2. 256^(2 - 1) = 256
    OBVIOUS
  <1>3. 256^(3 - 1) = 65536
    OBVIOUS
  <1>4. 256^(4 - 1) = 16777216
    OBVIOUS
  <1> QED BY <1>1, <1>2, <1>3, <1>4

LEMMA LowByte ==
    ASSUME NEW v \in Nat
    PROVE  \E q \in Nat, r \in 0..255 : v = 256 * q + r /\ v \div 256 = q /\ v % 256 = r
  <1>1. v = (v % 256) + 256 * (v \div 256) /\ v % 256 \in 0..255 /\ v \div 256 \in Nat
    OBVIOUS
  <1> QED BY <1>1

Digits(b, v) == /\ b[1] = v % 256 /\ b[2] = (v \div 256) % 256
                /\ b[3] = (v \div 65536) % 256 /\ b[4] = (v \div 16777216) % 256

LEMMA PackIs == ASSUME NEW v \in Nat PROVE Pack(v) \in [1..4 -> Byte] /\ Digits(Pack(v), v)
  <1>1. \A i \in 1..4 : Pack(v)[i] = (v \div 256^(i - 1)) % 256
    BY DEF Pack
  <1>2. 1 \in 1..4 /\ 2 \in 1..4 /\ 3 \in 1..4 /\ 4 \in 1..4
    OBVIOUS
  <1>3. /\ Pack(v)[1] = (v \div 1) % 256 /\ Pack(v)[2] = (v \div 256) % 256
        /\ Pack(v)[3] = (v \div 65536) % 256 /\ Pack(v)[4] = (v \div 16777216) % 256
    <2>1. Pack(v)[1] = (v \div 256^(1 - 1)) % 256
      BY <1>1, <1>2
    <2>2. Pack(v)[2] = (v \div 256^(2 - 1)) % 256
      BY <1>1, <1>2
    <2>3. Pack(v)[3] = (v \div 256^(3 - 1)) % 256
      BY <1>1, <1>2
    <2>4. Pack(v)[4] = (v \div 256^(4 - 1)) % 256
      BY <1>1, <1>2
    <2> QED BY <2>1, <2>2, <2>3, <2>4, Powers
  <1>4. \A i \in 1..4 : Pack(v)[i] \in Byte
    <2>1. \A i \in 1..4 : i = 1 \/ i = 2 \/ i = 3 \/ i = 4
      OBVIOUS
    <2>2. \A w \in Nat : w % 256 \in Byte
      BY DEF Byte
    <2>3. v \div 1 \in Nat /\ v \div 256 \in Nat /\ v \div 65536 \in Nat /\ v \div 16777216 \in Nat
      OBVIOUS
    <2> QED BY <1>3, <2>1, <2>2, <2>3
  <1>5. Pack(v) = [i \in 1..4 |-> Pack(v)[i]]
    BY DEF Pack
  <1>6. v \div 1 = v
    OBVIOUS
  <1>7. Pack(v) \in [1..4 -> Byte]
    BY <1>4, <1>5, Zenon
  <1>8. Digits(Pack(v), v)
    BY <1>3, <1>6 DEF Digits
  <1> QED BY <1>7, <1>8

LEMMA PackIsFour == ASSUME NEW v \in Nat PROVE Pack(v) \in [1..4 -> Byte]
  BY PackIs, Zenon

LEMMA UnpackPack ==
    ASSUME NEW v \in Word32, NEW b, \A i \in 1..4 : b[i] = Pack(v)[i]
    PROVE  Unpack(b) = v
  <1>1. v \in Nat /\ v \div 16777216 \in 0..255
    BY DEF Word32, Byte
  <1>2. /\ b[1] = v % 256 /\ b[2] = (v \div 256) % 256
        /\ b[3] = (v \div 65536) % 256 /\ b[4] = (v \div 16777216) % 256
    <2>1. v \in Nat
      BY <1>1
    <2>2. Digits(Pack(v), v)
      BY <2>1, PackIs, Zenon
    <2> QED BY <2>2 DEF Digits
  <1>3. PICK q1 \in Nat, r1 \in 0..255 : v = 256 * q1 + r1 /\ v \div 256 = q1 /\ v % 256 = r1
    BY <1>1, LowByte
  <1>4. PICK q2 \in Nat, r2 \in 0..255 : q1 = 256 * q2 + r2 /\ q1 \div 256 = q2 /\ q1 % 256 = r2
    BY LowByte
  <1>5. PICK q3 \in Nat, r3 \in 0..255 : q2 = 256 * q3 + r3 /\ q2 \div 256 = q3 /\ q2 % 256 = r3
    BY LowByte
  <1>6. v \div 65536 = q2
    <2>1. v = 65536 * q2 + (256 * r2 + r1) /\ 0 <= 256 * r2 + r1 /\ 256 * r2 + r1 < 65536
      BY <1>3, <1>4
    <2> QED BY <1>1, <2>1
  <1>7. v \div 16777216 = q3
    <2>1. v = 16777216 * q3 + (65536 * r3 + 256 * r2 + r1)
      BY <1>3, <1>4, <1>5
    <2>2. 0 <= 65536 * r3 + 256 * r2 + r1 /\ 65536 * r3 + 256 * r2 + r1 < 16777216
      OBVIOUS
    <2> QED BY <1>1, <2>1, <2>2
  <1>8. q3 \in 0..255
    BY <1>1, <1>7
  <1>9. b[1] = r1 /\ b[2] = r2 /\ b[3] = r3 /\ b[4] = q3
    BY <1>2, <1>3, <1>4, <1>5, <1>6, <1>7, <1>8
  <1>10. Unpack(b) = r1 + 256 * r2 + 65536 * r3 + 16777216 * q3
    BY <1>9 DEF Unpack
  <1> QED BY <1>3, <1>4, <1>5, <1>10

LEMMA UnpackIsWord ==
    ASSUME NEW b, \A i \in 1..4 : b[i] \in Byte
    PROVE  Unpack(b) \in Word32
  <1>1. b[1] \in 0..255 /\ b[2] \in 0..255 /\ b[3] \in 0..255 /\ b[4] \in 0..255
    BY DEF Byte
  <1>2. Unpack(b) = b[1] + 256 * b[2] + 65536 * b[3] + 16777216 * b[4]
    BY DEF Unpack
  <1> DEFINE r1 == b[1]  r2 == b[2]  r3 == b[3]  r4 == b[4]
             v == Unpack(b)
  <1> HIDE DEF r1, r2, r3, r4, v
  <1>3. /\ r1 \in 0..255 /\ r2 \in 0..255 /\ r3 \in 0..255 /\ r4 \in 0..255
        /\ v = 16777216 * r4 + (r1 + 256 * r2 + 65536 * r3)
    <2>1. /\ r1 \in 0..255 /\ r2 \in 0..255 /\ r3 \in 0..255 /\ r4 \in 0..255
          /\ v = r1 + 256 * r2 + 65536 * r3 + 16777216 * r4
      BY <1>1, <1>2 DEF r1, r2, r3, r4, v
    <2> QED BY <2>1
  <1>4. 0 <= r1 + 256 * r2 + 65536 * r3 /\ r1 + 256 * r2 + 65536 * r3 < 16777216
    BY <1>3
  <1>5. v \in Nat /\ v \div 16777216 = r4
    BY <1>3, <1>4
  <1>6. v \in Word32
    BY <1>3, <1>5 DEF Word32, Byte
  <1> QED BY <1>6 DEF v
------------------------------------------------------------------------------
(* Induction over the naturals, on a set of numbers: what the library's     *)
(* schemas say of an operator, for a set the provers can be given.          *)
LessThan == {ss \in Nat \X Nat : ss[1] < ss[2]}

LEMMA LessIsWellFounded == IsWellFoundedOn(LessThan, Nat)
  BY NatLessThanWellFounded DEF OpToRel, LessThan

LEMMA LeastNumber ==
    ASSUME NEW T, T \subseteq Nat, T # {}
    PROVE  \E x \in T : \A y \in T : x <= y
  <1>1. PICK x \in T : \A y \in T : ~(<<y, x>> \in LessThan)
    BY LessIsWellFounded, WFMin
  <1>2. \A y \in T : ~(y < x)
    BY <1>1 DEF LessThan
  <1> QED BY <1>2

LEMMA SetInduction ==
    ASSUME NEW S, 0 \in S, \A n \in Nat : n \in S => n + 1 \in S
    PROVE  Nat \subseteq S
  <1> SUFFICES ASSUME Nat \ S # {} PROVE FALSE
    OBVIOUS
  <1>1. PICK x \in Nat \ S : \A y \in Nat \ S : x <= y
    BY LeastNumber
  <1>2. x # 0 /\ x - 1 \in Nat
    BY <1>1
  <1>3. x - 1 \in S
    BY <1>1, <1>2
  <1> QED BY <1>1, <1>2, <1>3

(* The CRC register does follow the bytes: its recursion has a solution.    *)
Follows(crc, bytes, n) ==
    crc = [i \in 0..n |-> IF i = 0 THEN 0 ELSE CrcNext(crc[i - 1], bytes[i])]

LEMMA CrcFollows ==
    ASSUME NEW bytes, NEW n \in Nat
    PROVE  \E crc : Follows(crc, bytes, n)
  <1> DEFINE S == {k \in Nat : \E crc : Follows(crc, bytes, k)}
  <1>1. 0 \in S
    <2>1. Follows([i \in 0..0 |-> 0], bytes, 0)
      BY DEF Follows
    <2> QED BY <2>1
  <1>2. ASSUME NEW k \in Nat, k \in S
        PROVE  k + 1 \in S
    <2>1. PICK crc : Follows(crc, bytes, k)
      BY <1>2
    <2> DEFINE more == [i \in 0..(k + 1) |-> IF i <= k THEN crc[i] ELSE CrcNext(crc[k], bytes[k + 1])]
               next == [i \in 0..(k + 1) |-> IF i = 0 THEN 0 ELSE CrcNext(more[i - 1], bytes[i])]
    <2>2. ASSUME NEW i \in 0..(k + 1)
          PROVE  more[i] = next[i]
      <3>1. CASE i = 0
        BY <2>1, <3>1 DEF Follows
      <3>2. CASE i \in 1..k
        <4>1. more[i] = crc[i] /\ more[i - 1] = crc[i - 1]
          BY <3>2
        <4>2. crc[i] = CrcNext(crc[i - 1], bytes[i])
          BY <2>1, <3>2 DEF Follows
        <4>3. next[i] = CrcNext(more[i - 1], bytes[i])
          BY <3>2
        <4> QED BY <4>1, <4>2, <4>3
      <3>3. CASE i = k + 1
        <4>1. more[i] = CrcNext(crc[k], bytes[k + 1]) /\ more[i - 1] = crc[k]
          BY <3>3
        <4>2. next[i] = CrcNext(more[i - 1], bytes[i])
          BY <3>3
        <4> QED BY <3>3, <4>1, <4>2
      <3> QED BY <3>1, <3>2, <3>3
    <2>3. more = next
      BY <2>2
    <2>4. Follows(more, bytes, k + 1)
      BY <2>3 DEF Follows
    <2> QED BY <2>4
  <1> HIDE DEF S
  <1>3. Nat \subseteq S
    BY <1>1, <1>2, SetInduction
  <1> QED BY <1>3 DEF S

LEMMA CrcStep ==
    ASSUME NEW bytes, Len(bytes) \in Nat
    PROVE  /\ CrcRun(bytes)[0] = 0
           /\ \A i \in 1..Len(bytes) : CrcRun(bytes)[i] = CrcNext(CrcRun(bytes)[i - 1], bytes[i])
  <1>1. CrcRun(bytes) = CHOOSE crc : Follows(crc, bytes, Len(bytes))
    BY DEF CrcRun, Follows
  <1>2. Follows(CrcRun(bytes), bytes, Len(bytes))
    BY <1>1, CrcFollows
  <1> DEFINE crc == CrcRun(bytes)
  <1> HIDE DEF crc
  <1>3. Follows(crc, bytes, Len(bytes))
    BY <1>2 DEF crc
  <1>4. crc[0] = 0
    BY <1>3 DEF Follows
  <1>5. ASSUME NEW i \in 1..Len(bytes)
        PROVE  crc[i] = CrcNext(crc[i - 1], bytes[i])
    BY <1>3 DEF Follows
  <1> QED BY <1>4, <1>5 DEF crc

(* Only the bytes before it matter to the register.                         *)
LEMMA CrcPrefix ==
    ASSUME NEW b, NEW c, Len(b) \in Nat, Len(c) \in Nat, NEW n \in Nat, n <= Len(b), n <= Len(c),
           \A i \in 1..n : b[i] = c[i]
    PROVE  CrcRun(b)[n] = CrcRun(c)[n]
  <1> DEFINE S == {k \in Nat : k <= n => CrcRun(b)[k] = CrcRun(c)[k]}
  <1>1. 0 \in S
    <2>1. CrcRun(b)[0] = 0 /\ CrcRun(c)[0] = 0
      BY CrcStep
    <2> QED BY <2>1
  <1>2. ASSUME NEW k \in Nat, k \in S
        PROVE  k + 1 \in S
    <2> SUFFICES ASSUME k + 1 <= n PROVE CrcRun(b)[k + 1] = CrcRun(c)[k + 1]
      OBVIOUS
    <2>1. k + 1 \in 1..n /\ k + 1 \in 1..Len(b) /\ k + 1 \in 1..Len(c) /\ (k + 1) - 1 = k
      OBVIOUS
    <2>2. CrcRun(b)[k] = CrcRun(c)[k] /\ b[k + 1] = c[k + 1]
      BY <1>2, <2>1
    <2>3. /\ CrcRun(b)[k + 1] = CrcNext(CrcRun(b)[k], b[k + 1])
          /\ CrcRun(c)[k + 1] = CrcNext(CrcRun(c)[k], c[k + 1])
      BY <2>1, CrcStep
    <2> QED BY <2>2, <2>3
  <1> HIDE DEF S
  <1>3. n \in S
    BY <1>1, <1>2, SetInduction
  <1> QED BY <1>3 DEF S

(* Both CRC steps lead from bytes to bytes.                                  *)
LEMMA RegistersAreBytes ==
    ASSUME CrcsAgree, NEW bytes \in Seq(Byte), NEW crc, crc[0] = 0,
           \A i \in 1..Len(bytes) : \/ crc[i] = CrcNext(crc[i - 1], bytes[i])
                                    \/ crc[i] = HostCrcNext(crc[i - 1], bytes[i])
    PROVE  \A i \in 0..Len(bytes) : crc[i] \in Byte
  <1> DEFINE S == {k \in Nat : k <= Len(bytes) => crc[k] \in Byte}
  <1>1. 0 \in S
    BY DEF Byte
  <1>2. ASSUME NEW k \in Nat, k \in S
        PROVE  k + 1 \in S
    <2> SUFFICES ASSUME k + 1 <= Len(bytes) PROVE crc[k + 1] \in Byte
      OBVIOUS
    <2>1. k + 1 \in 1..Len(bytes) /\ (k + 1) - 1 = k /\ crc[k] \in Byte
      BY <1>2
    <2>2. bytes[k + 1] \in Byte
      BY <2>1, ElementOfSeq
    <2>3. CrcNext(crc[k], bytes[k + 1]) \in Byte
      BY <2>1, <2>2, CrcNextIsByte
    <2>4. HostCrcNext(crc[k], bytes[k + 1]) = CrcNext(crc[k], bytes[k + 1])
      BY <2>1, <2>2 DEF CrcsAgree
    <2>5. \/ crc[k + 1] = CrcNext(crc[k], bytes[k + 1])
          \/ crc[k + 1] = HostCrcNext(crc[k], bytes[k + 1])
      BY <2>1
    <2> QED BY <2>3, <2>4, <2>5
  <1> HIDE DEF S
  <1>3. Nat \subseteq S
    BY <1>1, <1>2, SetInduction
  <1>4. Len(bytes) \in Nat
    BY LenProperties
  <1> QED BY <1>3, <1>4 DEF S

LEMMA CrcIsByte ==
    ASSUME CrcsAgree, NEW bytes \in Seq(Byte)
    PROVE  \A i \in 0..Len(bytes) : CrcRun(bytes)[i] \in Byte
  <1>1. Len(bytes) \in Nat
    BY LenProperties
  <1> DEFINE crc == CrcRun(bytes)
  <1>2. crc[0] = 0 /\ \A i \in 1..Len(bytes) : crc[i] = CrcNext(crc[i - 1], bytes[i])
    BY <1>1, CrcStep
  <1> HIDE DEF crc
  <1>3. \A i \in 0..Len(bytes) : crc[i] \in Byte
    BY <1>2, RegistersAreBytes
  <1> QED BY <1>3 DEF crc

(* CRC8.calculate of protocol.py is the CRC of the bridge.                   *)
HostFollows(crc, bytes, n) ==
    crc = [i \in 0..n |-> IF i = 0 THEN 0 ELSE HostCrcNext(crc[i - 1], bytes[i])]

LEMMA OneCrc ==
    ASSUME CrcsAgree, NEW bytes \in Seq(Byte)
    PROVE  calculate(bytes) = CrcOf(bytes) /\ CrcOf(bytes) \in Byte
  <1> DEFINE n == Len(bytes)
  <1>1. n \in Nat
    BY LenProperties
  <1>2. ASSUME NEW crc, HostFollows(crc, bytes, n) \/ Follows(crc, bytes, n)
        PROVE  HostFollows(crc, bytes, n) /\ Follows(crc, bytes, n)
    <2> DEFINE host == [i \in 0..n |-> IF i = 0 THEN 0 ELSE HostCrcNext(crc[i - 1], bytes[i])]
               rtl  == [i \in 0..n |-> IF i = 0 THEN 0 ELSE CrcNext(crc[i - 1], bytes[i])]
    <2>1. crc[0] = 0
      BY <1>1, <1>2 DEF HostFollows, Follows
    <2>2. \A i \in 1..n : \/ crc[i] = CrcNext(crc[i - 1], bytes[i])
                          \/ crc[i] = HostCrcNext(crc[i - 1], bytes[i])
      <3>1. CASE HostFollows(crc, bytes, n)
        BY <3>1 DEF HostFollows
      <3>2. CASE Follows(crc, bytes, n)
        BY <3>2 DEF Follows
      <3> QED BY <1>2, <3>1, <3>2
    <2>3. \A i \in 0..n : crc[i] \in Byte
      BY <2>1, <2>2, RegistersAreBytes
    <2>4. ASSUME NEW i \in 0..n
          PROVE  host[i] = rtl[i]
      <3>1. CASE i = 0
        BY <3>1
      <3>2. CASE i \in 1..n
        <4>1. crc[i - 1] \in Byte /\ bytes[i] \in Byte
          BY <1>1, <2>3, <3>2, ElementOfSeq
        <4> QED BY <3>2, <4>1 DEF CrcsAgree
      <3> QED BY <1>1, <3>1, <3>2
    <2>5. host = rtl
      BY <2>4
    <2>6. crc = host \/ crc = rtl
      BY <1>2 DEF HostFollows, Follows
    <2> QED BY <2>5, <2>6 DEF HostFollows, Follows
  <1>3. calculate(bytes) = (CHOOSE crc : HostFollows(crc, bytes, n))[n]
    BY DEF calculate, HostFollows
  <1>4. CrcOf(bytes) = (CHOOSE crc : Follows(crc, bytes, n))[n]
    BY DEF CrcOf, CrcRun, Follows
  <1>5. \A crc : HostFollows(crc, bytes, n) <=> Follows(crc, bytes, n)
    BY <1>2
  <1>6. (CHOOSE crc : HostFollows(crc, bytes, n)) = (CHOOSE crc : Follows(crc, bytes, n))
    BY <1>5
  <1>7. CrcOf(bytes) \in Byte
    BY <1>1, CrcIsByte DEF CrcOf
  <1> QED BY <1>3, <1>4, <1>6, <1>7

(* Neither two bytes nor two registers lead to one CRC.                      *)
LEMMA CrcTellsApart ==
    ASSUME CrcsAgree, NEW x \in Byte, NEW y \in Byte, NEW z \in Byte
    PROVE  /\ CrcNext(x, y) = CrcNext(x, z) => y = z
           /\ CrcNext(y, x) = CrcNext(z, x) => y = z
  <1>1. IsFiniteSet(Byte)
    <2>1. 0 \in Int /\ 255 \in Int
      OBVIOUS
    <2>2. IsFiniteSet(0..255)
      BY <2>1, FS_Interval, Zenon
    <2> QED BY <2>2 DEF Byte
  <1> DEFINE of   == [b \in Byte |-> CrcNext(x, b)]
             from == [c \in Byte |-> CrcNext(c, x)]
  <1>2. {CrcNext(x, b) : b \in Byte} = Byte /\ {CrcNext(c, x) : c \in Byte} = Byte
    BY DEF CrcsAgree
  <1>3. of \in [Byte -> Byte] /\ from \in [Byte -> Byte]
    BY CrcNextIsByte
  <1>4. of \in Surjection(Byte, Byte) /\ from \in Surjection(Byte, Byte)
    <2>1. \A w \in Byte : (\E b \in Byte : of[b] = w) /\ (\E c \in Byte : from[c] = w)
      BY <1>2
    <2> HIDE DEF of, from
    <2> QED BY <1>3, <2>1, Zenon DEF Surjection
  <1>6. /\ \A b \in Byte : of[b] = CrcNext(x, b)
        /\ \A c \in Byte : from[c] = CrcNext(c, x)
    OBVIOUS
  <1> HIDE DEF of, from
  <1>5. of \in Injection(Byte, Byte) /\ from \in Injection(Byte, Byte)
    BY <1>1, <1>4, FS_SurjSameCardinalityImpliesInj
  <1>7. DOMAIN of = Byte /\ DOMAIN from = Byte
    BY <1>3
  <1>8. \A b \in Byte : \A c \in Byte : /\ of[b] = of[c] => b = c
                                        /\ from[b] = from[c] => b = c
    BY <1>5, <1>7, Zenon DEF Injection, IsInjective
  <1> QED BY <1>6, <1>8, Zenon

(* A byte that changes shows in the CRC, wherever it is.                     *)
LEMMA ChangedByteShows ==
    ASSUME CrcsAgree, NEW s \in Seq(Byte), NEW t \in Seq(Byte), Len(s) = Len(t),
           NEW i \in 1..Len(s), s[i] # t[i], \A j \in 1..Len(s) : j # i => s[j] = t[j]
    PROVE  CrcOf(s) # CrcOf(t)
  <1> DEFINE n == Len(s)
             S == {k \in Nat : i <= k /\ k <= n => CrcRun(s)[k] # CrcRun(t)[k]}
  <1>1. n \in Nat /\ Len(t) = n /\ i \in Nat /\ i - 1 \in Nat
    BY LenProperties
  <1>2. CrcRun(s)[i - 1] = CrcRun(t)[i - 1]
    BY <1>1, CrcPrefix
  <1>3. \A k \in 1..n : /\ CrcRun(s)[k] = CrcNext(CrcRun(s)[k - 1], s[k])
                        /\ CrcRun(t)[k] = CrcNext(CrcRun(t)[k - 1], t[k])
    BY <1>1, CrcStep
  <1>4. \A k \in 1..n : s[k] \in Byte /\ t[k] \in Byte
    BY <1>1, ElementOfSeq
  <1>5. \A k \in 0..n : CrcRun(s)[k] \in Byte /\ CrcRun(t)[k] \in Byte
    BY <1>1, CrcIsByte
  <1>6. 0 \in S
    BY <1>1
  <1>7. ASSUME NEW k \in Nat, k \in S
        PROVE  k + 1 \in S
    <2> SUFFICES ASSUME i <= k + 1, k + 1 <= n
                 PROVE  CrcRun(s)[k + 1] # CrcRun(t)[k + 1]
      OBVIOUS
    <2>1. k + 1 \in 1..n /\ k \in 0..n /\ (k + 1) - 1 = k
      BY <1>1
    <2>2. CASE i = k + 1
      <3>1. CrcRun(s)[k] = CrcRun(t)[k]
        BY <1>2, <2>1, <2>2
      <3> QED BY <1>3, <1>4, <1>5, <2>1, <2>2, <3>1, CrcTellsApart
    <2>3. CASE i # k + 1
      <3>1. CrcRun(s)[k] # CrcRun(t)[k] /\ s[k + 1] = t[k + 1]
        BY <1>1, <1>7, <2>1, <2>3
      <3> QED BY <1>3, <1>4, <1>5, <2>1, <3>1, CrcTellsApart
    <2> QED BY <2>2, <2>3
  <1> HIDE DEF S
  <1>8. n \in S
    BY <1>1, <1>6, <1>7, SetInduction
  <1> QED BY <1>1, <1>8 DEF S, CrcOf

(* So a frame closed by its CRC, with one byte changed, is refused.          *)
Closed(f, a) == f[Len(f)] = CrcOf(SubSeq(f, a, Len(f) - 1))

LEMMA DisturbedIsOpen ==
    ASSUME CrcsAgree, NEW f \in Seq(Byte), NEW a \in {1, 2}, Len(f) >= 2, Closed(f, a),
           NEW i \in a..Len(f), NEW b \in Byte, b # f[i]
    PROVE  ~Closed([f EXCEPT ![i] = b], a)
  <1> DEFINE n == Len(f)
             g == [f EXCEPT ![i] = b]
             s == SubSeq(f, a, n - 1)
             t == SubSeq(g, a, n - 1)
  <1>1. n \in Nat /\ n >= 2 /\ i \in 1..n
    BY LenProperties
  <1>2. /\ g \in Seq(Byte) /\ Len(g) = n /\ g[i] = b
        /\ \A j \in 1..n : j # i => g[j] = f[j]
    BY <1>1, ExceptSeq
  <1> HIDE DEF g
  <1>3. s \in Seq(Byte) /\ t \in Seq(Byte) /\ Len(s) = n - a /\ Len(t) = n - a
    BY <1>1, <1>2
  <1>4. \A k \in 1..(n - a) : s[k] = f[k + a - 1] /\ t[k] = g[k + a - 1]
    BY <1>1, <1>2, SMTT(60)
  <1>5. CASE i = n
    <2>1. \A k \in 1..(n - a) : k + a - 1 \in 1..n /\ k + a - 1 # i
      <3>1. a = 1 \/ a = 2
        OBVIOUS
      <3> HIDE DEF n
      <3> QED BY <1>1, <1>5, <3>1
    <2>2. \A k \in 1..(n - a) : s[k] = t[k]
      BY <1>2, <1>4, <2>1
    <2>3. s = t
      BY <1>3, <2>2, SeqEqual
    <2>4. g[n] # f[n]
      BY <1>2, <1>5
    <2> QED BY <1>2, <2>3, <2>4 DEF Closed, g
  <1>6. CASE i # n
    <2>1. i - a + 1 \in 1..(n - a) /\ (i - a + 1) + a - 1 = i
      BY <1>1, <1>6
    <2>2. s[i - a + 1] # t[i - a + 1]
      BY <1>2, <1>4, <2>1
    <2>3. ASSUME NEW j \in 1..(n - a), j # i - a + 1
          PROVE  s[j] = t[j]
      <3>1. j + a - 1 \in 1..n /\ j + a - 1 # i
        BY <1>1, <2>3
      <3> QED BY <1>2, <1>4, <3>1
    <2> HIDE DEF s, t
    <2>4. CrcOf(s) # CrcOf(t)
      BY <1>3, <2>1, <2>2, <2>3, ChangedByteShows
    <2>5. g[n] = f[n]
      BY <1>1, <1>2, <1>6
    <2> QED BY <1>2, <2>4, <2>5 DEF Closed, s, t, g
  <1> QED BY <1>5, <1>6
------------------------------------------------------------------------------
(* Sequences of bytes.                                                       *)
Joins(s, t, st) ==
    /\ st \in Seq(Byte) /\ Len(s) \in Nat /\ Len(t) \in Nat
    /\ Len(st) = Len(s) + Len(t)
    /\ \A i \in 1..Len(s) : st[i] = s[i]
    /\ \A k \in 1..Len(t) : st[Len(s) + k] = t[k]

LEMMA OneAfterAnother ==
    ASSUME NEW s \in Seq(Byte), NEW t \in Seq(Byte)
    PROVE  Joins(s, t, s \o t)
  <1>1. /\ s \o t \in Seq(Byte) /\ Len(s) \in Nat /\ Len(t) \in Nat
        /\ Len(s \o t) = Len(s) + Len(t)
    OBVIOUS
  <1>2. \A i \in 1..Len(s) : (s \o t)[i] = s[i]
    OBVIOUS
  <1>3. \A k \in 1..Len(t) : (s \o t)[Len(s) + k] = t[k]
    OBVIOUS
  <1> QED BY <1>1, <1>2, <1>3, Zenon DEF Joins

LEMMA FourBytes ==
    ASSUME NEW a \in [1..4 -> Byte]
    PROVE  a \in Seq(Byte) /\ Len(a) = 4
  <1>1. a \in Seq(Byte)
    <2>1. a \in UNION {[1..n -> Byte] : n \in Nat}
      OBVIOUS
    <2> QED BY <2>1, SeqDef, Zenon
  <1>2. 1..Len(a) = 1..4 /\ Len(a) \in Nat
    BY <1>1, LenProperties
  <1>3. 4 \in 1..Len(a) /\ Len(a) \in 1..4
    BY <1>2
  <1> QED BY <1>1, <1>3

(* FlattenSeq of pieces of four bytes: each piece in its place.              *)
Flows(flat, f, n) == flat = [i \in 1..n |-> IF i = 1 THEN f[i] ELSE flat[i - 1] \o f[i]]

Flattened(out, f, n) ==
    /\ out \in Seq(Byte) /\ Len(out) = 4 * n
    /\ \A k \in 1..n : \A i \in 1..4 : out[4 * (k - 1) + i] = f[k][i]

LEMMA FlatFlows ==
    ASSUME NEW f, NEW n \in Nat
    PROVE  \E flat : Flows(flat, f, n)
  <1> DEFINE S == {k \in Nat : \E flat : Flows(flat, f, k)}
  <1>1. 0 \in S
    <2>1. Flows([i \in 1..0 |-> 0], f, 0)
      BY DEF Flows
    <2> QED BY <2>1
  <1>2. ASSUME NEW k \in Nat, k \in S
        PROVE  k + 1 \in S
    <2>1. PICK flat : Flows(flat, f, k)
      BY <1>2
    <2> DEFINE last == IF k = 0 THEN f[1] ELSE flat[k] \o f[k + 1]
               more == [i \in 1..(k + 1) |-> IF i <= k THEN flat[i] ELSE last]
               next == [i \in 1..(k + 1) |-> IF i = 1 THEN f[i] ELSE more[i - 1] \o f[i]]
    <2>2. ASSUME NEW i \in 1..(k + 1)
          PROVE  more[i] = next[i]
      <3>1. CASE i \in 1..k /\ i = 1
        BY <2>1, <3>1 DEF Flows
      <3>2. CASE i \in 1..k /\ i # 1
        <4>1. more[i] = flat[i] /\ more[i - 1] = flat[i - 1]
          BY <3>2
        <4>2. flat[i] = flat[i - 1] \o f[i]
          BY <2>1, <3>2 DEF Flows
        <4>3. next[i] = more[i - 1] \o f[i]
          BY <3>2
        <4> QED BY <4>1, <4>2, <4>3
      <3>3. CASE i = k + 1
        <4>1. more[i] = last
          BY <3>3
        <4>2. CASE k = 0
          BY <3>3, <4>1, <4>2
        <4>3. CASE k # 0
          <5>1. i - 1 \in 1..(k + 1) /\ i - 1 <= k /\ i - 1 = k /\ i # 1
            BY <3>3, <4>3
          <5>2. more[i - 1] = flat[k]
            BY <5>1
          <5>3. next[i] = more[i - 1] \o f[i]
            BY <5>1
          <5> QED BY <3>3, <4>1, <4>3, <5>2, <5>3
        <4> QED BY <4>2, <4>3
      <3> QED BY <3>1, <3>2, <3>3
    <2>3. more = next
      BY <2>2
    <2>4. Flows(more, f, k + 1)
      BY <2>3 DEF Flows
    <2> QED BY <2>4
  <1> HIDE DEF S
  <1>3. Nat \subseteq S
    BY <1>1, <1>2, SetInduction
  <1> QED BY <1>3 DEF S

LEMMA FlattenFours ==
    ASSUME NEW n \in Nat \ {0}, NEW f \in [1..n -> [1..4 -> Byte]]
    PROVE  Flattened(FlattenSeq(f), f, n)
  <1>1. Len(f) = n
    OBVIOUS
  <1> DEFINE flat == CHOOSE g : Flows(g, f, n)
  <1>2. FlattenSeq(f) = flat[n]
    BY <1>1 DEF FlattenSeq, Flows
  <1>3. Flows(flat, f, n)
    BY FlatFlows
  <1> HIDE DEF flat
  <1>4. /\ flat[1] = f[1]
        /\ \A i \in 2..n : flat[i] = flat[i - 1] \o f[i]
    <2>1. ASSUME NEW i \in 1..n
          PROVE  flat[i] = IF i = 1 THEN f[i] ELSE flat[i - 1] \o f[i]
      BY <1>3, Zenon DEF Flows
    <2>2. 1 \in 1..n /\ \A i \in 2..n : i \in 1..n /\ i # 1
      OBVIOUS
    <2> QED BY <2>1, <2>2, Zenon
  <1> DEFINE S == {k \in Nat : k + 1 <= n => Flattened(flat[k + 1], f, k + 1)}
  <1>5. 0 \in S
    <2>1. f[1] \in Seq(Byte) /\ Len(f[1]) = 4
      BY FourBytes
    <2>2. flat[1] \in Seq(Byte) /\ Len(flat[1]) = 4 * 1
      BY <1>4, <2>1
    <2>3. ASSUME NEW k \in 1..1, NEW i \in 1..4
          PROVE  flat[1][4 * (k - 1) + i] = f[k][i]
      <3>1. k = 1 /\ 4 * (k - 1) + i = i
        OBVIOUS
      <3> QED BY <1>4, <3>1
    <2>4. Flattened(flat[1], f, 1)
      BY <2>2, <2>3, Zenon DEF Flattened
    <2> QED BY <2>4
  <1>6. ASSUME NEW k \in Nat, k \in S
        PROVE  k + 1 \in S
    <2> SUFFICES ASSUME k + 2 <= n PROVE Flattened(flat[k + 2], f, k + 2)
      OBVIOUS
    <2>1. /\ Flattened(flat[k + 1], f, k + 1) /\ k + 2 \in 2..n /\ (k + 2) - 1 = k + 1
          /\ k + 2 \in 1..n
      BY <1>6
    <2>2. flat[k + 2] = flat[k + 1] \o f[k + 2]
      BY <1>4, <2>1
    <2> DEFINE s == flat[k + 1]
               t == f[k + 2]
               st == flat[k + 2]
    <2>3. s \in Seq(Byte) /\ Len(s) = 4 * (k + 1)
      BY <2>1 DEF Flattened
    <2>4. t \in Seq(Byte) /\ Len(t) = 4
      BY <2>1, FourBytes
    <2>5. \A j \in 1..(k + 1) : \A i \in 1..4 : s[4 * (j - 1) + i] = f[j][i]
      BY <2>1 DEF Flattened
    <2> HIDE DEF s, t, st
    <2>6. Joins(s, t, st)
      BY <2>2, <2>3, <2>4, OneAfterAnother DEF s, t, st
    <2>7. st \in Seq(Byte) /\ Len(st) = 4 * (k + 2)
      BY <2>3, <2>4, <2>6 DEF Joins
    <2>8. ASSUME NEW j \in 1..(k + 2), NEW i \in 1..4
          PROVE  st[4 * (j - 1) + i] = f[j][i]
      <3>1. CASE j \in 1..(k + 1)
        <4>1. 4 * (j - 1) + i \in 1..Len(s)
          BY <2>3, <3>1
        <4>2. st[4 * (j - 1) + i] = s[4 * (j - 1) + i]
          BY <2>6, <4>1 DEF Joins
        <4> QED BY <2>5, <3>1, <4>2
      <3>2. CASE j = k + 2
        <4>1. 4 * (j - 1) + i = Len(s) + i /\ i \in 1..Len(t)
          BY <2>3, <2>4, <3>2
        <4>2. st[4 * (j - 1) + i] = t[i]
          BY <2>6, <4>1 DEF Joins
        <4> QED BY <3>2, <4>2 DEF t
      <3> QED BY <3>1, <3>2
    <2>9. Flattened(st, f, k + 2)
      BY <2>7, <2>8, Zenon DEF Flattened
    <2> QED BY <2>9 DEF st
  <1> HIDE DEF S
  <1>7. n - 1 \in S
    BY <1>5, <1>6, SetInduction
  <1>8. (n - 1) + 1 = n
    OBVIOUS
  <1> QED BY <1>2, <1>7, <1>8 DEF S

(* ... so of packed words.                                                   *)
Packed(out, w, n) ==
    /\ out \in Seq(Byte) /\ Len(out) = 4 * n
    /\ \A k \in 1..n : \A i \in 1..4 : out[4 * (k - 1) + i] = Pack(w[k])[i]

LEMMA PackedWords ==
    ASSUME NEW n \in Nat \ {0}, NEW w, \A k \in 1..n : w[k] \in Nat,
           NEW f, f = [k \in 1..n |-> Pack(w[k])]
    PROVE  Packed(FlattenSeq(f), w, n)
  <1>1. ASSUME NEW k \in 1..n
        PROVE  Pack(w[k]) \in [1..4 -> Byte]
    <2>1. w[k] \in Nat
      OBVIOUS
    <2> QED BY <2>1, PackIsFour, Zenon
  <1>2. f \in [1..n -> [1..4 -> Byte]] /\ \A k \in 1..n : f[k] = Pack(w[k])
    BY <1>1
  <1> DEFINE out == FlattenSeq(f)
  <1>3. Flattened(out, f, n)
    BY <1>2, FlattenFours
  <1> HIDE DEF out
  <1>4. /\ out \in Seq(Byte) /\ Len(out) = 4 * n
        /\ \A k \in 1..n : \A i \in 1..4 : out[4 * (k - 1) + i] = f[k][i]
    BY <1>3 DEF Flattened
  <1>5. \A k \in 1..n : \A i \in 1..4 : out[4 * (k - 1) + i] = Pack(w[k])[i]
    BY <1>2, <1>4
  <1>6. Packed(out, w, n)
    BY <1>4, <1>5 DEF Packed
  <1> QED BY <1>6 DEF out
------------------------------------------------------------------------------
(* The frames of the driver.  What a call holds, and what its command says.  *)
OpFields(op) ==
    /\ op.kind \in {"write", "read", "reset"} /\ op.burst \in BOOLEAN /\ op.addr \in Word32
    /\ op.values \in Seq(Word32) /\ op.count \in Nat /\ op.inc \in BOOLEAN
    /\ op.kind = "write" => op.count = Len(op.values)
    /\ op.kind # "reset" /\ ~op.burst => op.count = 1 /\ ~op.inc

LEMMA EveryOp == ASSUME NEW op \in Ops PROVE OpFields(op)
  BY ExchangeAssumption DEF OpFields

(* A register or burst call that the driver does not refuse.                 *)
Plain(op) == Sendable(op) /\ op.kind # "reset"

LEMMA PlainOp ==
    ASSUME NEW op, Plain(op)
    PROVE  OpFields(op) /\ op.kind \in {"read", "write"} /\ op.count \in 1..16 /\ op.addr \in Nat
  <1>1. OpFields(op) /\ FrameOf(op) # ValueError /\ op.kind \in {"read", "write"}
    BY EveryOp DEF Plain, Sendable, OpFields
  <1>2. op.addr \in Nat
    BY <1>1 DEF OpFields, Word32
  <1>3. CASE ~op.burst
    <2>1. op.count = 1
      BY <1>1, <1>3 DEF OpFields
    <2> QED BY <1>1, <1>2, <2>1
  <1>4. CASE op.burst /\ op.kind = "write"
    <2>1. FrameOf(op) = write_burst(op)
      BY <1>4 DEF FrameOf
    <2>2. Len(op.values) \in 1..16
      BY <1>1, <2>1 DEF write_burst
    <2> QED BY <1>1, <1>2, <1>4, <2>2 DEF OpFields
  <1>5. CASE op.burst /\ op.kind = "read"
    <2>1. FrameOf(op) = read_burst(op)
      BY <1>5 DEF FrameOf
    <2>2. op.count \in 1..16
      BY <1>1, <2>1 DEF read_burst
    <2> QED BY <1>1, <1>2, <2>2
  <1>6. op.burst \in BOOLEAN
    BY <1>1 DEF OpFields
  <1> QED BY <1>1, <1>3, <1>4, <1>5, <1>6

(* The fields of a command byte, as both sides read them.                    *)
Says(c, read, inc, n) ==
    /\ c \in Byte /\ c # CMD_RESET
    /\ IsRead(c) <=> read
    /\ IncBit(c) <=> inc
    /\ SizeField(c) = 2 /\ LenField(c) = n - 1 /\ BeatSize(c) = 4
    /\ decode(c).rw <=> read
    /\ PayloadLen(c) = 4 * n

LEMMA CommandSays ==
    ASSUME NEW h \in {32, 96, 160, 224}, NEW n \in 1..16, NEW c, c = h + (n - 1)
    PROVE  Says(c, h \in {160, 224}, h \in {96, 224}, n)
  <1>1. c \in Byte /\ c # CMD_RESET
    BY DEF Byte, CMD_RESET
  <1>2. (c >= 128) <=> h \in {160, 224}
    OBVIOUS
  <1>3. ((c \div 64) % 2 = 1) <=> h \in {96, 224}
    <2>1. CASE h = 32
      <3>1. c \div 64 = 0
        BY <2>1
      <3> QED BY <2>1, <3>1
    <2>2. CASE h = 96
      <3>1. c \div 64 = 1
        BY <2>2
      <3> QED BY <2>2, <3>1
    <2>3. CASE h = 160
      <3>1. c \div 64 = 2
        BY <2>3
      <3> QED BY <2>3, <3>1
    <2>4. CASE h = 224
      <3>1. c \div 64 = 3
        BY <2>4
      <3> QED BY <2>4, <3>1
    <2> QED BY <2>1, <2>2, <2>3, <2>4
  <1>4. (c \div 16) % 4 = 2
    <2>1. c \div 16 \in {2, 6, 10, 14}
      OBVIOUS
    <2> QED BY <2>1
  <1>5. c % 16 = n - 1
    OBVIOUS
  <1>6. PayloadLen(c) = 4 * n
    <2>1. decode(c).size = 2 /\ decode(c).length = n - 1
      BY <1>4, <1>5 DEF decode
    <2>2. get_beat_size(2) = 4
      BY DEF get_beat_size
    <2> QED BY <2>1, <2>2 DEF PayloadLen
  <1>7. BeatSize(c) = 4
    BY <1>4 DEF BeatSize, SizeField
  <1> QED BY <1>1, <1>2, <1>3, <1>4, <1>5, <1>6, <1>7
          DEF Says, IsRead, IncBit, SizeField, LenField, decode

LEMMA CodeSays ==
    ASSUME NEW op, Plain(op)
    PROVE  Says(Code(op), op.kind = "read", op.inc, op.count)
  <1>1. op.count \in 1..16 /\ op.inc \in BOOLEAN
    BY PlainOp DEF OpFields
  <1> DEFINE h == (IF op.kind = "read" THEN 128 ELSE 0) + (IF op.inc THEN 64 ELSE 0) + 32
  <1>2. /\ h \in {32, 96, 160, 224}
        /\ h \in {160, 224} <=> op.kind = "read"
        /\ h \in {96, 224} <=> op.inc
    BY <1>1
  <1>3. Code(op) = h + (op.count - 1)
    BY <1>1 DEF Code
  <1> HIDE DEF h
  <1>4. Says(Code(op), h \in {160, 224}, h \in {96, 224}, op.count)
    BY <1>1, <1>2, <1>3, CommandSays
  <1> QED BY <1>2, <1>4 DEF Says

(* One byte, and a sequence behind it.                                       *)
Leads(c, s, cs) ==
    /\ s \in Seq(Byte) /\ cs \in Seq(Byte) /\ Len(s) \in Nat /\ Len(cs) = 1 + Len(s)
    /\ cs[1] = c /\ \A i \in 1..Len(s) : cs[1 + i] = s[i]

LEMMA OneMore ==
    ASSUME NEW c \in Byte, NEW s \in Seq(Byte)
    PROVE  Leads(c, s, <<c>> \o s)
  <1> DEFINE one == <<c>>
             st == one \o s
  <1>1. one \in Seq(Byte) /\ Len(one) = 1 /\ one[1] = c
    OBVIOUS
  <1> HIDE DEF one
  <1>2. Joins(one, s, st)
    BY <1>1, OneAfterAnother
  <1> HIDE DEF st
  <1>3. /\ st \in Seq(Byte) /\ Len(st) = 1 + Len(s) /\ \A i \in 1..1 : st[i] = one[i]
        /\ \A k \in 1..Len(s) : st[1 + k] = s[k]
    BY <1>1, <1>2 DEF Joins
  <1>4. st[1] = c /\ Len(s) \in Nat
    BY <1>1, <1>3
  <1>5. Leads(c, s, st)
    BY <1>3, <1>4, Zenon DEF Leads
  <1> QED BY <1>5 DEF st, one

LEMMA AllButFirst ==
    ASSUME NEW s \in Seq(Byte), Len(s) >= 1
    PROVE  Leads(s[1], Tail(s), s)
  <1>1. s # <<>> /\ Len(s) \in Nat
    OBVIOUS
  <1> DEFINE t == Tail(s)
  <1>2. t \in Seq(Byte) /\ Len(s) = 1 + Len(t) /\ Len(t) \in Nat
    BY <1>1
  <1>3. ASSUME NEW i \in 1..Len(t)
        PROVE  s[1 + i] = t[i]
    BY <1>1, <1>2
  <1> HIDE DEF t
  <1>4. Leads(s[1], t, s)
    BY <1>2, <1>3, Zenon DEF Leads
  <1> QED BY <1>4 DEF t

(* What Sealed makes of a body.                                              *)
Seals(J, body) ==
    /\ J \in Seq(Byte) /\ Len(J) = Len(body) + 1 /\ Len(body) \in Nat
    /\ \A i \in 1..Len(body) : J[i] = body[i]
    /\ Closed(J, 1)

LEMMA SealedBody ==
    ASSUME CrcsAgree, NEW body \in Seq(Byte), body # <<>>
    PROVE  /\ Seals(Tail(Sealed(body)), body)
           /\ Leads(SOF_TO_DEVICE, Tail(Sealed(body)), Sealed(body))
  <1> DEFINE c == calculate(body)
             n == Len(body)
             marked == <<SOF_TO_DEVICE>> \o body
             frame == Sealed(body)
             J == Tail(frame)
  <1>1. c = CrcOf(body) /\ c \in Byte
    BY OneCrc
  <1>2. frame = marked \o <<c>>
    BY DEF Sealed
  <1>3. n \in Nat /\ n >= 1
    OBVIOUS
  <1>4. Leads(SOF_TO_DEVICE, body, marked)
    <2>1. SOF_TO_DEVICE \in Byte
      BY DEF SOF_TO_DEVICE, Byte
    <2> QED BY <2>1, OneMore
  <1> HIDE DEF c, frame, marked
  <1>5. Joins(marked, <<c>>, frame)
    <2>1. <<c>> \in Seq(Byte) /\ marked \in Seq(Byte)
      BY <1>1, <1>4 DEF Leads
    <2> QED BY <1>2, <2>1, OneAfterAnother
  <1>6. Len(<<c>>) = 1 /\ <<c>>[1] = c
    OBVIOUS
  <1>7. /\ frame \in Seq(Byte) /\ Len(frame) = n + 2 /\ frame[n + 2] = c
        /\ \A i \in 1..(n + 1) : frame[i] = marked[i]
    <2>1. Len(marked) = n + 1
      BY <1>3, <1>4 DEF Leads
    <2>2. frame \in Seq(Byte) /\ Len(frame) = n + 2
      BY <1>3, <1>5, <1>6, <2>1 DEF Joins
    <2>3. \A i \in 1..(n + 1) : frame[i] = marked[i]
      BY <1>5, <2>1 DEF Joins
    <2>4. frame[(n + 1) + 1] = c
      BY <1>5, <1>6, <2>1 DEF Joins
    <2>5. (n + 1) + 1 = n + 2
      BY <1>3
    <2> QED BY <2>2, <2>3, <2>4, <2>5
  <1>8. frame[1] = SOF_TO_DEVICE /\ \A i \in 1..n : frame[1 + i] = body[i]
    <2>1. 1 \in 1..(n + 1) /\ \A i \in 1..n : 1 + i \in 1..(n + 1)
      BY <1>3
    <2>2. marked[1] = SOF_TO_DEVICE /\ \A i \in 1..n : marked[1 + i] = body[i]
      BY <1>4, Zenon DEF Leads
    <2> QED BY <1>7, <2>1, <2>2, Zenon
  <1>9. Leads(SOF_TO_DEVICE, J, frame)
    <2>1. Len(frame) >= 1
      BY <1>3, <1>7
    <2> QED BY <1>7, <1>8, <2>1, AllButFirst
  <1> HIDE DEF J
  <1>10. /\ J \in Seq(Byte) /\ Len(J) = n + 1 /\ \A i \in 1..(n + 1) : J[i] = frame[1 + i]
    BY <1>3, <1>7, <1>9 DEF Leads
  <1>11. \A i \in 1..n : J[i] = body[i]
    <2>1. \A i \in 1..n : i \in 1..(n + 1)
      BY <1>3
    <2> QED BY <1>8, <1>10, <2>1, Zenon
  <1>12. SubSeq(J, 1, n) = body
    <2> DEFINE front == SubSeq(J, 1, n)
    <2>1. front \in Seq(Byte) /\ Len(front) = n /\ \A i \in 1..n : front[i] = J[i]
      BY <1>3, <1>10
    <2> HIDE DEF front
    <2>2. front = body
      BY <1>11, <2>1, SeqEqual
    <2> QED BY <2>2 DEF front
  <1>13. Closed(J, 1)
    <2>1. Len(J) - 1 = n /\ Len(J) = n + 1
      BY <1>3, <1>10
    <2>2. J[n + 1] = c
      <3>1. J[n + 1] = frame[1 + (n + 1)] /\ 1 + (n + 1) = n + 2
        BY <1>3, <1>10
      <3> QED BY <1>7, <3>1
    <2> QED BY <1>1, <1>12, <2>1, <2>2, Zenon DEF Closed
  <1>14. Seals(J, body)
    BY <1>3, <1>10, <1>11, <1>13, Zenon DEF Seals
  <1> QED BY <1>9, <1>14 DEF J, frame

(* Command, address and data make up the body.                               *)
Makes(body, c, a, data) ==
    /\ body \in Seq(Byte) /\ body # <<>> /\ Len(body) = 5 + Len(data) /\ Len(data) \in Nat
    /\ body[1] = c
    /\ \A i \in 1..4 : body[1 + i] = a[i]
    /\ \A i \in 1..Len(data) : body[5 + i] = data[i]

LEMMA BodyOfFrame ==
    ASSUME NEW c \in Byte, NEW a \in [1..4 -> Byte], NEW data \in Seq(Byte)
    PROVE  Makes(<<c>> \o a \o data, c, a, data)
  <1>1. a \in Seq(Byte) /\ Len(a) = 4 /\ Len(data) \in Nat
    BY FourBytes
  <1> DEFINE ca == <<c>> \o a
             body == ca \o data
  <1>2. Leads(c, a, ca)
    BY <1>1, OneMore
  <1> HIDE DEF ca
  <1>3. ca \in Seq(Byte) /\ Len(ca) = 5 /\ ca[1] = c /\ \A i \in 1..4 : ca[1 + i] = a[i]
    BY <1>1, <1>2 DEF Leads
  <1>4. Joins(ca, data, body)
    BY <1>3, OneAfterAnother
  <1> HIDE DEF body
  <1>5. /\ body \in Seq(Byte) /\ Len(body) = 5 + Len(data)
        /\ \A i \in 1..5 : body[i] = ca[i]
        /\ \A i \in 1..Len(data) : body[5 + i] = data[i]
    BY <1>1, <1>3, <1>4 DEF Joins
  <1>6. body # <<>>
    BY <1>1, <1>5
  <1>7. body[1] = c /\ \A i \in 1..4 : body[1 + i] = a[i]
    <2>1. 1 \in 1..5 /\ \A i \in 1..4 : 1 + i \in 1..5
      OBVIOUS
    <2> QED BY <1>3, <1>5, <2>1, Zenon
  <1>8. Makes(body, c, a, data)
    BY <1>1, <1>5, <1>6, <1>7, Zenon DEF Makes
  <1> QED BY <1>8 DEF body, ca

(* FrameBuilder, for the sizes a plain call has.                             *)
LEMMA CommandByte ==
    ASSUME NEW op, Plain(op)
    PROVE  /\ encode(op.kind = "read", op.inc, SIZE_32BIT, op.count - 1) = <<Code(op)>>
           /\ <<Code(op)>> # ValueError
  <1>1. op.count \in 1..16 /\ op.inc \in BOOLEAN
    BY PlainOp DEF OpFields
  <1>2. SIZE_32BIT \in 0..2 /\ op.count - 1 \in 0..15 /\ 16 * SIZE_32BIT = 32
    BY <1>1 DEF SIZE_32BIT
  <1>3. Bit(op.kind = "read", 128) + Bit(op.inc, 64) + 32 + (op.count - 1) = Code(op)
    BY <1>1 DEF Bit, Code
  <1>4. <<Code(op)>> # ValueError
    BY DEF ValueError
  <1> QED BY <1>2, <1>3, <1>4 DEF encode

WireData(op, data) ==
    /\ data \in Seq(Byte) /\ Len(data) = IF op.kind = "write" THEN 4 * op.count ELSE 0
    /\ op.kind = "write" => Packed(data, op.values, op.count)

LEMMA WriteData ==
    ASSUME NEW op, Plain(op), op.kind = "write"
    PROVE  LET data == IF op.burst THEN PackAll(op.values) ELSE Pack(op.values[1])
           IN WireData(op, data)
  <1>1. /\ op.values \in Seq(Word32) /\ Len(op.values) = op.count /\ op.count \in 1..16
        /\ ~op.burst => op.count = 1
    BY PlainOp DEF OpFields
  <1>2. \A k \in 1..op.count : op.values[k] \in Nat
    <2>1. ASSUME NEW k \in 1..op.count
          PROVE  op.values[k] \in Word32
      BY <1>1
    <2> QED BY <2>1 DEF Word32
  <1>3. CASE op.burst
    <2>1. DOMAIN op.values = 1..op.count
      BY <1>1
    <2>2. op.count \in Nat \ {0}
      BY <1>1
    <2> DEFINE f == [k \in DOMAIN op.values |-> Pack(op.values[k])]
    <2>3. f = [k \in 1..op.count |-> Pack(op.values[k])]
      BY <2>1
    <2>4. PackAll(op.values) = FlattenSeq(f)
      BY DEF PackAll
    <2> HIDE DEF f
    <2>5. Packed(FlattenSeq(f), op.values, op.count)
      BY <1>2, <2>2, <2>3, PackedWords
    <2>6. Packed(PackAll(op.values), op.values, op.count)
      BY <2>4, <2>5
    <2> QED BY <1>3, <2>6 DEF WireData, Packed
  <1>4. CASE ~op.burst
    <2> DEFINE data == Pack(op.values[1])
    <2>1. op.count = 1 /\ op.values[1] \in Nat
      BY <1>1, <1>2, <1>4
    <2>2. data \in [1..4 -> Byte]
      BY <2>1, PackIsFour, Zenon
    <2> HIDE DEF data
    <2>3. data \in Seq(Byte) /\ Len(data) = 4
      BY <2>2, FourBytes
    <2>4. ASSUME NEW k \in 1..1, NEW i \in 1..4
          PROVE  data[4 * (k - 1) + i] = Pack(op.values[k])[i]
      <3>1. k = 1 /\ 4 * (k - 1) + i = i
        OBVIOUS
      <3> QED BY <3>1 DEF data
    <2>5. Packed(data, op.values, 1)
      <3>1. Len(data) = 4 * 1
        BY <2>3
      <3> QED BY <2>3, <2>4, <3>1, Zenon DEF Packed
    <2>6. WireData(op, data)
      <3>1. Len(data) = 4 * op.count
        BY <2>1, <2>3
      <3> QED BY <2>1, <2>3, <2>5, <3>1 DEF WireData
    <2> QED BY <1>4, <2>6 DEF data
  <1>5. op.burst \in BOOLEAN
    BY PlainOp DEF OpFields
  <1> QED BY <1>3, <1>4, <1>5

LEMMA FourTimes ==
    ASSUME NEW n \in 1..16, NEW m, m = 4 * n
    PROVE  /\ m \div 4 = n /\ m % 4 = 0 /\ m \in 1..64
           /\ m \in Nat /\ 8 + m \in Nat /\ 8 + m >= 8 /\ 8 + m >= 4
  OBVIOUS

LEMMA FrameParts ==
    ASSUME NEW op, Plain(op)
    PROVE  \E data : /\ WireData(op, data)
                     /\ FrameOf(op) = Sealed(<<Code(op)>> \o Pack(op.addr) \o data)
  <1>1. /\ op.kind \in {"read", "write"} /\ op.count \in 1..16 /\ op.addr \in Nat
        /\ op.burst \in BOOLEAN /\ (~op.burst => op.count = 1 /\ op.inc = FALSE)
        /\ FrameOf(op) # ValueError
    BY PlainOp DEF OpFields, Plain, Sendable
  <1>2. /\ encode(op.kind = "read", op.inc, SIZE_32BIT, op.count - 1) = <<Code(op)>>
        /\ <<Code(op)>> # ValueError
    BY CommandByte
  <1>3. CASE op.kind = "write"
    <2> DEFINE data == IF op.burst THEN PackAll(op.values) ELSE Pack(op.values[1])
    <2>1. WireData(op, data)
      BY <1>3, WriteData
    <2>2. FrameOf(op) = build_write_frame(op.addr, data, SIZE_32BIT, op.inc)
      <3>1. CASE op.burst
        BY <1>1, <1>3, <3>1 DEF FrameOf, write_burst
      <3>2. CASE ~op.burst
        BY <1>1, <1>3, <3>2 DEF FrameOf, write_reg32
      <3> QED BY <3>1, <3>2
    <2> HIDE DEF data
    <2>3. Len(data) = 4 * op.count
      BY <1>3, <2>1 DEF WireData
    <2>4. get_beat_size(SIZE_32BIT) = 4
      BY DEF get_beat_size, SIZE_32BIT
    <2>5. Len(data) \div 4 = op.count /\ Len(data) % 4 = 0 /\ Len(data) \in 1..64
      <3>1. op.count \in 1..16
        BY <1>1
      <3> QED BY <2>3, <3>1, FourTimes, Zenon
    <2>6. encode(FALSE, op.inc, SIZE_32BIT, op.count - 1) = <<Code(op)>>
      BY <1>2, <1>3
    <2>7. build_write_frame(op.addr, data, SIZE_32BIT, op.inc)
            = Sealed(<<Code(op)>> \o Pack(op.addr) \o data)
      <3> DEFINE beat == get_beat_size(SIZE_32BIT)
                 beats == Len(data) \div beat
                 cmd == encode(FALSE, op.inc, SIZE_32BIT, beats - 1)
      <3>1. Len(data) % beat = 0 /\ beats = op.count
        BY <2>4, <2>5
      <3>2. beats <= 16 /\ cmd = <<Code(op)>>
        <4> HIDE DEF beats
        <4>1. beats <= 16
          BY <1>1, <3>1
        <4>2. cmd = <<Code(op)>>
          BY <2>6, <3>1, Zenon
        <4> QED BY <4>1, <4>2
      <3>3. build_write_frame(op.addr, data, SIZE_32BIT, op.inc) =
              IF Len(data) \in 1..64 /\ Len(data) % beat = 0 /\ beats <= 16 /\ cmd # ValueError
              THEN Sealed(cmd \o Pack(op.addr) \o data) ELSE ValueError
        BY DEF build_write_frame
      <3> HIDE DEF beat, beats, cmd
      <3> QED BY <1>2, <2>5, <3>1, <3>2, <3>3
    <2> QED BY <2>1, <2>2, <2>7
  <1>4. CASE op.kind = "read"
    <2>1. FrameOf(op) = build_read_frame(op.addr, op.count, SIZE_32BIT, op.inc)
      <3>1. CASE op.burst
        BY <1>1, <1>4, <3>1 DEF FrameOf, read_burst
      <3>2. CASE ~op.burst
        BY <1>1, <1>4, <3>2 DEF FrameOf, read_reg32
      <3> QED BY <1>1, <3>1, <3>2
    <2>2. encode(TRUE, op.inc, SIZE_32BIT, op.count - 1) = <<Code(op)>>
      BY <1>2, <1>4
    <2>3. build_read_frame(op.addr, op.count, SIZE_32BIT, op.inc)
            = Sealed(<<Code(op)>> \o Pack(op.addr))
      BY <1>1, <1>2, <2>2 DEF build_read_frame
    <2>4. <<Code(op)>> \o Pack(op.addr) = <<Code(op)>> \o Pack(op.addr) \o <<>>
      <3>1. Code(op) \in Byte
        BY CodeSays DEF Says
      <3>2. Pack(op.addr) \in Seq(Byte)
        BY <1>1, PackIsFour, FourBytes, Zenon
      <3> DEFINE s == <<Code(op)>> \o Pack(op.addr)
      <3>3. s \in Seq(Byte)
        BY <3>1, <3>2, OneMore DEF Leads
      <3> HIDE DEF s
      <3>4. s = s \o <<>>
        BY <3>3, ConcatEmptySeq
      <3> QED BY <3>4 DEF s
    <2>5. WireData(op, <<>>)
      BY <1>4 DEF WireData
    <2> QED BY <2>1, <2>3, <2>4, <2>5
  <1> QED BY <1>1, <1>3, <1>4

(* The frame of a plain call, as the host sends and the bridge hears it.     *)
IsFrame(J, op) ==
    /\ J \in Seq(Byte) /\ Len(J) = IF op.kind = "write" THEN 6 + 4 * op.count ELSE 6
    /\ J[1] = Code(op)
    /\ \A i \in 1..4 : J[1 + i] = Pack(op.addr)[i]
    /\ op.kind = "write" =>
         \A k \in 1..op.count : \A i \in 1..4 : J[4 * k + 1 + i] = Pack(op.values[k])[i]
    /\ Closed(J, 1)

LEMMA PlainFrame ==
    ASSUME CrcsAgree, NEW op, Plain(op)
    PROVE  IsFrame(Heard(op), op) /\ Leads(SOF_TO_DEVICE, Heard(op), FrameOf(op))
  <1>1. PICK data : /\ WireData(op, data)
                    /\ FrameOf(op) = Sealed(<<Code(op)>> \o Pack(op.addr) \o data)
    BY FrameParts
  <1>2. Code(op) \in Byte /\ Pack(op.addr) \in [1..4 -> Byte] /\ op.count \in 1..16
    <2>1. Code(op) \in Byte
      BY CodeSays DEF Says
    <2>2. op.addr \in Nat /\ op.count \in 1..16
      BY PlainOp
    <2>3. Pack(op.addr) \in [1..4 -> Byte]
      BY <2>2, PackIsFour, Zenon
    <2> QED BY <2>1, <2>2, <2>3
  <1> DEFINE body == <<Code(op)>> \o Pack(op.addr) \o data
             J == Heard(op)
  <1>3. Makes(body, Code(op), Pack(op.addr), data)
    BY <1>1, <1>2, BodyOfFrame DEF WireData
  <1>4. J = Tail(Sealed(body)) /\ FrameOf(op) = Sealed(body)
    BY <1>1 DEF Heard
  <1> HIDE DEF body, J
  <1>5. body \in Seq(Byte) /\ body # <<>>
    BY <1>3 DEF Makes
  <1>6. Seals(J, body) /\ Leads(SOF_TO_DEVICE, J, FrameOf(op))
    BY <1>4, <1>5, SealedBody
  <1> DEFINE m == Len(data)
  <1>7. /\ m \in Nat /\ Len(body) = 5 + m /\ J \in Seq(Byte) /\ Len(J) = 6 + m
        /\ \A i \in 1..(5 + m) : J[i] = body[i]
    BY <1>3, <1>6 DEF Makes, Seals
  <1>8. m = IF op.kind = "write" THEN 4 * op.count ELSE 0
    BY <1>1 DEF WireData
  <1>9. Len(J) = IF op.kind = "write" THEN 6 + 4 * op.count ELSE 6
    BY <1>2, <1>7, <1>8
  <1>10. J[1] = Code(op) /\ \A i \in 1..4 : J[1 + i] = Pack(op.addr)[i]
    <2>1. 1 \in 1..(5 + m) /\ \A i \in 1..4 : 1 + i \in 1..(5 + m)
      BY <1>7
    <2>2. body[1] = Code(op) /\ \A i \in 1..4 : body[1 + i] = Pack(op.addr)[i]
      BY <1>3 DEF Makes
    <2> QED BY <1>7, <2>1, <2>2, Zenon
  <1>11. ASSUME op.kind = "write", NEW k \in 1..op.count, NEW i \in 1..4
         PROVE  J[4 * k + 1 + i] = Pack(op.values[k])[i]
    <2>1. m = 4 * op.count /\ Packed(data, op.values, op.count)
      BY <1>1, <1>11 DEF WireData
    <2>2. data[4 * (k - 1) + i] = Pack(op.values[k])[i]
      BY <2>1 DEF Packed
    <2>3. /\ 4 * (k - 1) + i \in 1..m /\ 5 + (4 * (k - 1) + i) = 4 * k + 1 + i
          /\ 4 * k + 1 + i \in 1..(5 + m)
      <3> HIDE DEF m
      <3>1. k \in Int /\ i \in Int /\ m \in Int /\ 1 <= k /\ k <= op.count /\ 1 <= i /\ i <= 4
        BY <1>2, <1>7
      <3>2. m = 4 * op.count /\ op.count \in Int
        BY <1>2, <2>1
      <3> QED BY <3>1, <3>2
    <2>4. body[5 + (4 * (k - 1) + i)] = data[4 * (k - 1) + i]
      BY <1>3, <2>3 DEF Makes
    <2> QED BY <1>7, <2>2, <2>3, <2>4
  <1>12. IsFrame(J, op)
    <2>1. Closed(J, 1)
      BY <1>6 DEF Seals
    <2> QED BY <1>7, <1>9, <1>10, <1>11, <2>1, Zenon DEF IsFrame
  <1> QED BY <1>6, <1>12 DEF J

(* The second byte of a frame tells RESET from the rest.                     *)
LEMMA ResetFrame ==
    ASSUME CrcsAgree, NEW op \in Ops, op.kind = "reset"
    PROVE  FrameOf(op) \in Seq(Byte) /\ FrameOf(op)[2] = CMD_RESET
  <1> DEFINE body == <<RESET_COMMAND>>
             J == Tail(Sealed(body))
  <1>1. body \in Seq(Byte) /\ body # <<>> /\ Len(body) = 1 /\ body[1] = CMD_RESET
    BY DEF RESET_COMMAND, CMD_RESET, Byte
  <1>2. FrameOf(op) = Sealed(body)
    BY DEF FrameOf, build_reset_frame
  <1> HIDE DEF body
  <1>3. Seals(J, body) /\ Leads(SOF_TO_DEVICE, J, FrameOf(op))
    BY <1>1, <1>2, SealedBody
  <1> HIDE DEF J
  <1>4. J[1] = CMD_RESET /\ Len(J) = 2
    BY <1>1, <1>3 DEF Seals
  <1>5. FrameOf(op) \in Seq(Byte) /\ FrameOf(op)[1 + 1] = J[1]
    BY <1>3, <1>4 DEF Leads
  <1> QED BY <1>4, <1>5

LEMMA SecondByte ==
    ASSUME CrcsAgree, NEW op, Sendable(op)
    PROVE  FrameOf(op) \in Seq(Byte) /\ (FrameOf(op)[2] = CMD_RESET <=> op.kind = "reset")
  <1>1. CASE op.kind = "reset"
    BY <1>1, ResetFrame DEF Sendable
  <1>2. CASE op.kind # "reset"
    <2>1. Plain(op)
      BY <1>2 DEF Plain
    <2>2. IsFrame(Heard(op), op) /\ Leads(SOF_TO_DEVICE, Heard(op), FrameOf(op))
      BY <2>1, PlainFrame
    <2>3. Heard(op)[1] = Code(op) /\ Code(op) # CMD_RESET /\ Len(Heard(op)) >= 1
      <3>1. Says(Code(op), op.kind = "read", op.inc, op.count) /\ op.count \in 1..16
        BY <2>1, CodeSays, PlainOp
      <3>2. 4 * op.count \in Nat
        BY <3>1, FourTimes
      <3>3. Len(Heard(op)) = 6 + 4 * op.count \/ Len(Heard(op)) = 6
        BY <2>2 DEF IsFrame
      <3>4. Len(Heard(op)) >= 1
        <4> DEFINE m == 4 * op.count
                   h == Len(Heard(op))
        <4>1. m \in Nat /\ (h = 6 + m \/ h = 6)
          BY <3>2, <3>3
        <4> HIDE DEF m, h
        <4>2. h >= 1
          BY <4>1
        <4> QED BY <4>2 DEF h
      <3> QED BY <2>2, <3>1, <3>4 DEF IsFrame, Says
    <2>4. FrameOf(op) \in Seq(Byte) /\ FrameOf(op)[1 + 1] = Heard(op)[1]
      BY <2>2, <2>3 DEF Leads
    <2> QED BY <1>2, <2>3, <2>4
  <1> QED BY <1>1, <1>2

(* The bridge accepts the frame as it was sent, and no other byte in it.     *)
LEMMA AgreesIsClosed ==
    ASSUME NEW f \in Seq(Byte)
    PROVE  CrcAgrees(f) <=> Closed(f, 1)
  BY DEF CrcAgrees, Closed, Last, Front

LEMMA WholeLength ==
    ASSUME NEW op, Plain(op), NEW f, f \in Seq(Byte), f[1] = Code(op),
           Len(f) = IF op.kind = "write" THEN 6 + 4 * op.count ELSE 6
    PROVE  WholeFrame(f) /\ CmdValid(f[1]) /\ f[1] # CMD_RESET /\ Len(f) >= 6
  <1>1. /\ Says(Code(op), op.kind = "read", op.inc, op.count)
        /\ op.count \in 1..16 /\ op.kind \in {"read", "write"}
    BY CodeSays, PlainOp
  <1>2. CmdValid(f[1]) /\ f[1] # CMD_RESET
    BY <1>1 DEF Says, CmdValid
  <1>3. PayloadBytes(f[1]) = IF op.kind = "write" THEN 4 * op.count ELSE 0
    <2>1. LenField(f[1]) + 1 = op.count /\ BeatSize(f[1]) = 4 /\ (IsRead(f[1]) <=> op.kind = "read")
      BY <1>1 DEF Says
    <2>2. (LenField(f[1]) + 1) * BeatSize(f[1]) = 4 * op.count
      BY <1>1, <2>1
    <2> QED BY <1>1, <2>1, <2>2 DEF PayloadBytes
  <1>4. Len(f) = FrameLen(f[1]) /\ Len(f) >= 6
    <2>1. 4 * op.count \in Nat
      BY <1>1, FourTimes
    <2>2. FrameLen(f[1]) = 6 + PayloadBytes(f[1])
      BY <1>2 DEF FrameLen
    <2>3. CASE op.kind = "write"
      BY <1>3, <2>1, <2>2, <2>3
    <2>4. CASE op.kind # "write"
      BY <1>3, <2>2, <2>4
    <2> QED BY <2>3, <2>4
  <1>5. f # <<>>
    BY <1>4
  <1> QED BY <1>2, <1>4, <1>5 DEF WholeFrame

LEMMA HeardIsLegal ==
    ASSUME CrcsAgree, NEW op, Plain(op)
    PROVE  LegalFrame(Heard(op))
  <1> DEFINE J == Heard(op)
  <1>1. IsFrame(J, op)
    BY PlainFrame
  <1> HIDE DEF J
  <1>2. WholeFrame(J) /\ CmdValid(J[1]) /\ J[1] # CMD_RESET
    BY <1>1, WholeLength DEF IsFrame
  <1>3. CrcAgrees(J)
    BY <1>1, AgreesIsClosed DEF IsFrame
  <1>4. LegalFrame(J)
    BY <1>2, <1>3 DEF LegalFrame
  <1> QED BY <1>4 DEF J

IsRefused(g, op) == /\ g \in Seq(Byte) /\ Len(g) >= 6 /\ g[1] = Code(op)
                    /\ ~LegalFrame(g) /\ Refusal(g) = STATUS_CRC_ERR

LEMMA GarbledIsRefused ==
    ASSUME CrcsAgree, NEW op, Plain(op), NEW i \in 3..Len(FrameOf(op)), NEW b \in Byte,
           b # FrameOf(op)[i]
    PROVE  IsRefused(Tail([FrameOf(op) EXCEPT ![i] = b]), op)
  <1> DEFINE frame == FrameOf(op)
             J == Heard(op)
             bad == [frame EXCEPT ![i] = b]
             g == Tail(bad)
             n == Len(J)
  <1>1. IsFrame(J, op) /\ Leads(SOF_TO_DEVICE, J, frame)
    BY PlainFrame
  <1>2. WholeFrame(J) /\ CmdValid(J[1]) /\ J[1] # CMD_RESET /\ n >= 6
    BY <1>1, WholeLength DEF IsFrame
  <1> HIDE DEF frame, J
  <1>3. frame \in Seq(Byte) /\ J \in Seq(Byte) /\ n \in Nat /\ Len(frame) = 1 + n
    BY <1>1 DEF Leads
  <1>4. i \in 3..(n + 1) /\ b # frame[i]
    BY <1>3 DEF frame
  <1>5. /\ bad \in Seq(Byte) /\ Len(bad) = 1 + n /\ bad[i] = b
        /\ \A j \in 1..(1 + n) : j # i => bad[j] = frame[j]
    <2>1. i \in 1..Len(frame)
      BY <1>3, <1>4
    <2> QED BY <1>3, <2>1, ExceptSeq
  <1> HIDE DEF bad
  <1>6. Leads(bad[1], g, bad)
    <2>1. Len(bad) >= 1
      BY <1>3, <1>5
    <2> QED BY <1>5, <2>1, AllButFirst
  <1> HIDE DEF g
  <1>7. g \in Seq(Byte) /\ Len(g) = n /\ \A j \in 1..n : g[j] = bad[1 + j]
    BY <1>3, <1>5, <1>6 DEF Leads
  <1>8. \A j \in 1..n : J[j] = frame[1 + j]
    BY <1>1 DEF Leads
  <1>9. /\ i - 1 \in 1..n /\ i - 1 # 1
        /\ g[i - 1] = b /\ J[i - 1] # b
        /\ \A j \in 1..n : j # i - 1 => g[j] = J[j]
    <2>1. i - 1 \in 1..n /\ i - 1 # 1 /\ 1 + (i - 1) = i /\ i \in Int
      BY <1>4
    <2>2. g[i - 1] = b /\ J[i - 1] = frame[i]
      BY <1>5, <1>7, <1>8, <2>1
    <2>3. ASSUME NEW j \in 1..n, j # i - 1
          PROVE  g[j] = J[j]
      <3>1. 1 + j \in 1..(1 + n) /\ 1 + j # i
        BY <1>3, <2>1, <2>3
      <3> QED BY <1>5, <1>7, <1>8, <3>1
    <2> QED BY <1>4, <2>1, <2>2, <2>3
  <1>10. g = [J EXCEPT ![i - 1] = b]
    <2> DEFINE e == [J EXCEPT ![i - 1] = b]
    <2>1. /\ e \in Seq(Byte) /\ Len(e) = n /\ e[i - 1] = b
          /\ \A j \in 1..n : j # i - 1 => e[j] = J[j]
      BY <1>3, <1>9, ExceptSeq
    <2> HIDE DEF e
    <2>2. \A j \in 1..n : e[j] = g[j]
      BY <1>9, <2>1
    <2>3. e = g
      BY <1>7, <2>1, <2>2, SeqEqual
    <2> QED BY <2>3 DEF e
  <1>11. ~Closed(g, 1)
    <2>1. Closed(J, 1) /\ n >= 2
      BY <1>1, <1>2 DEF IsFrame
    <2> QED BY <1>3, <1>9, <1>10, <2>1, DisturbedIsOpen, ZenonT(60)
  <1>12. ~CrcAgrees(g)
    BY <1>7, <1>11, AgreesIsClosed
  <1>13. g[1] = Code(op) /\ Len(g) = IF op.kind = "write" THEN 6 + 4 * op.count ELSE 6
    <2>1. 1 \in 1..n
      BY <1>2, <1>3
    <2>2. g[1] = J[1]
      BY <1>9, <2>1
    <2> QED BY <1>1, <1>7, <2>2 DEF IsFrame
  <1>14. WholeFrame(g) /\ CmdValid(g[1]) /\ g[1] # CMD_RESET /\ Len(g) >= 6
    BY <1>7, <1>13, WholeLength
  <1>15. ~LegalFrame(g) /\ Refusal(g) = STATUS_CRC_ERR
    BY <1>12, <1>14 DEF LegalFrame, Refusal
  <1>16. IsRefused(g, op)
    BY <1>7, <1>13, <1>14, <1>15 DEF IsRefused
  <1> QED BY <1>16 DEF g, bad, frame
------------------------------------------------------------------------------
(* The replies of the bridge, and what the driver makes of them.             *)
Framed(r, body) ==
    /\ r \in Seq(Byte) /\ Len(r) = Len(body) + 2 /\ r[1] = SOF_FROM_DEVICE
    /\ \A i \in 1..Len(body) : r[1 + i] = body[i]
    /\ Closed(r, 2)

LEMMA FramedBody ==
    ASSUME CrcsAgree, NEW body \in Seq(Byte)
    PROVE  Framed(<<SOF_FROM_DEVICE>> \o body \o <<CrcOf(body)>>, body)
  <1> DEFINE c == CrcOf(body)
             n == Len(body)
             marked == <<SOF_FROM_DEVICE>> \o body
             r == marked \o <<c>>
  <1>1. c \in Byte /\ n \in Nat
    BY OneCrc
  <1>2. Leads(SOF_FROM_DEVICE, body, marked)
    <2>1. SOF_FROM_DEVICE \in Byte
      BY DEF SOF_FROM_DEVICE, Byte
    <2> QED BY <2>1, OneMore
  <1> HIDE DEF c, marked
  <1>3. Joins(marked, <<c>>, r)
    <2>1. <<c>> \in Seq(Byte) /\ marked \in Seq(Byte)
      BY <1>1, <1>2 DEF Leads
    <2> QED BY <2>1, OneAfterAnother
  <1> HIDE DEF r
  <1>4. Len(<<c>>) = 1 /\ <<c>>[1] = c
    OBVIOUS
  <1>5. Len(marked) = n + 1
    BY <1>1, <1>2 DEF Leads
  <1>6. r \in Seq(Byte) /\ Len(r) = n + 2
    BY <1>1, <1>3, <1>4, <1>5 DEF Joins
  <1>7. \A i \in 1..(n + 1) : r[i] = marked[i]
    BY <1>3, <1>5 DEF Joins
  <1>8. r[n + 2] = c
    <2>1. r[(n + 1) + 1] = c
      BY <1>3, <1>4, <1>5 DEF Joins
    <2>2. (n + 1) + 1 = n + 2
      BY <1>1
    <2> QED BY <2>1, <2>2
  <1>9. r[1] = SOF_FROM_DEVICE /\ \A i \in 1..n : r[1 + i] = body[i]
    <2>1. 1 \in 1..(n + 1) /\ \A i \in 1..n : 1 + i \in 1..(n + 1)
      BY <1>1
    <2>2. marked[1] = SOF_FROM_DEVICE /\ \A i \in 1..n : marked[1 + i] = body[i]
      BY <1>2, Zenon DEF Leads
    <2> QED BY <1>7, <2>1, <2>2, Zenon
  <1>10. SubSeq(r, 2, n + 1) = body
    <2> DEFINE mid == SubSeq(r, 2, n + 1)
    <2>1. mid \in Seq(Byte) /\ Len(mid) = n /\ \A i \in 1..n : mid[i] = r[1 + i]
      BY <1>1, <1>6
    <2> HIDE DEF mid
    <2>2. mid = body
      BY <1>9, <2>1, SeqEqual
    <2> QED BY <2>2 DEF mid
  <1>11. Closed(r, 2)
    <2>1. Len(r) = n + 2 /\ Len(r) - 1 = n + 1
      BY <1>1, <1>6
    <2> QED BY <1>8, <1>10, <2>1, Zenon DEF Closed, c
  <1>12. Framed(r, body)
    BY <1>6, <1>9, <1>11, Zenon DEF Framed
  <1> QED BY <1>12 DEF r, marked, c

(* A reply as long as the driver waits for it.                               *)
LEMMA ReplyLength ==
    ASSUME NEW op, Plain(op), NEW r, IsReply(r, op)
    PROVE  Len(r) >= 4 /\ Len(r) = 3 + TailLen(r[2], r[3])
  <1>1. Says(Code(op), op.kind = "read", op.inc, op.count) /\ op.count \in 1..16
    BY CodeSays, PlainOp
  <1>2. /\ Len(r) = IF told.ok /\ op.kind = "read" THEN 8 + 4 * op.count ELSE 4
        /\ r[3] = Code(op) /\ (r[2] = SUCCESS <=> told.ok)
    BY DEF IsReply, SUCCESS, STATUS_OK
  <1>3. (decode(r[3]).rw <=> op.kind = "read") /\ PayloadLen(r[3]) = 4 * op.count
    BY <1>1, <1>2 DEF Says
  <1> DEFINE long == 4 * op.count
             n == Len(r)
  <1>4. long \in Nat /\ 8 + long >= 4
    BY <1>1, FourTimes
  <1>5. PayloadLen(r[3]) = long /\ n = IF told.ok /\ op.kind = "read" THEN 8 + long ELSE 4
    BY <1>2, <1>3
  <1> HIDE DEF long, n
  <1>6. CASE told.ok /\ op.kind = "read"
    <2>1. n = 8 + long /\ TailLen(r[2], r[3]) = 4 + long + 1
      BY <1>2, <1>3, <1>5, <1>6 DEF TailLen
    <2>2. n >= 4 /\ n = 3 + (4 + long + 1)
      BY <1>4, <2>1
    <2> QED BY <2>1, <2>2 DEF n
  <1>7. CASE ~(told.ok /\ op.kind = "read")
    <2>1. n = 4 /\ TailLen(r[2], r[3]) = 1
      BY <1>2, <1>3, <1>5, <1>7 DEF TailLen
    <2>2. n >= 4 /\ n = 3 + 1
      BY <2>1
    <2> QED BY <2>1, <2>2 DEF n
  <1> QED BY <1>6, <1>7

LEMMA CalculateIs ==
    ASSUME CrcsAgree, NEW d \in Seq(Byte), NEW n \in Nat, n >= 3, n = Len(d)
    PROVE  d[n] = calculate(SubSeq(d, 2, n - 1)) <=> Closed(d, 2)
  <1> DEFINE s == SubSeq(d, 2, n - 1)
  <1>1. s \in Seq(Byte)
    OBVIOUS
  <1> HIDE DEF s
  <1>2. calculate(s) = CrcOf(s)
    BY <1>1, OneCrc
  <1>3. Closed(d, 2) <=> d[n] = CrcOf(s)
    BY Zenon DEF Closed, s
  <1>4. d[n] = calculate(s) <=> Closed(d, 2)
    BY <1>2, <1>3
  <1> QED BY <1>4 DEF s

(* The ways a response parses.                                               *)
LEMMA ParsedShort ==
    ASSUME CrcsAgree, NEW d \in Seq(Byte), Len(d) = 4, Closed(d, 2)
    PROVE  /\ ShortReply(d) = [status |-> d[2], cmd_echo |-> d[3], addr_echo |-> None, payload |-> None]
           /\ ShortReply(d) # ValueError
  <1>1. d[4] = calculate(SubSeq(d, 2, 3))
    <2>1. 4 \in Nat /\ 4 >= 3 /\ 4 = Len(d)
      OBVIOUS
    <2>2. d[4] = calculate(SubSeq(d, 2, 4 - 1))
      BY <2>1, CalculateIs, Zenon
    <2> QED BY <2>2
  <1>2. ShortReply(d) = [status |-> d[2], cmd_echo |-> d[3], addr_echo |-> None, payload |-> None]
    BY <1>1 DEF ShortReply
  <1>3. DOMAIN ShortReply(d) # DOMAIN ValueError
    BY <1>2 DEF ValueError
  <1> QED BY <1>2, <1>3

LEMMA ParsedLong ==
    ASSUME CrcsAgree, NEW d \in Seq(Byte), Len(d) >= 8, Len(d) = 8 + PayloadLen(d[3]), Closed(d, 2)
    PROVE  /\ ReadReply(d).status = SUCCESS
           /\ ReadReply(d).payload = SubSeq(d, 8, Len(d) - 1)
           /\ ReadReply(d) # ValueError
  <1>1. Len(d) \in Nat
    OBVIOUS
  <1>2. Last(d) = calculate(SubSeq(d, 2, Len(d) - 1))
    <2>1. d[Len(d)] = calculate(SubSeq(d, 2, Len(d) - 1))
      BY <1>1, CalculateIs
    <2> QED BY <2>1 DEF Last
  <1>3. ReadReply(d) = [status |-> SUCCESS, cmd_echo |-> d[3], addr_echo |-> SubSeq(d, 4, 7),
                        payload |-> SubSeq(d, 8, Len(d) - 1)]
    BY <1>2 DEF ReadReply
  <1>4. DOMAIN ReadReply(d) # DOMAIN ValueError
    BY <1>3 DEF ValueError
  <1> QED BY <1>3, <1>4

(* What the driver takes for a success.                                      *)
LEMMA OkReply ==
    ASSUME CrcsAgree, NEW op, Plain(op), NEW d \in Seq(Byte), Verdict(op, d).how = "ok"
    PROVE  /\ Len(d) >= 4 /\ d[1] = SOF_FROM_DEVICE /\ d[2] = SUCCESS /\ Closed(d, 2)
           /\ op.kind = "read" => /\ Len(d) = 8 + 4 * op.count
                                  /\ Verdict(op, d).values = Words(SubSeq(d, 8, Len(d) - 1))
           /\ op.kind = "write" => Verdict(op, d).values = <<>>
  <1> DEFINE p == parse_response(d)
             n == Len(d)
  <1>1. /\ op.kind \in {"read", "write"} /\ op.count \in 1..16 /\ op.burst \in BOOLEAN
        /\ ~op.burst => op.count = 1
    BY PlainOp DEF OpFields
  <1>2. n \in Nat
    OBVIOUS
  <1>3. p # ValueError /\ p.status = SUCCESS
    BY DEF Verdict, Ended, Raised
  <1>4. /\ n >= 4 /\ d[1] = SOF_FROM_DEVICE
        /\ p = IF decode(d[3]).rw /\ d[2] = SUCCESS THEN ReadReply(d) ELSE ShortReply(d)
    BY <1>2, <1>3 DEF parse_response
  <1>5. /\ op.kind = "write" => Verdict(op, d).values = <<>>
        /\ op.kind = "read" => Len(p.payload) = 4 * op.count /\ Verdict(op, d).values = Words(p.payload)
    <2>1. CASE op.kind = "write"
      <3>1. Verdict(op, d) = WriteEnds
        BY <1>3, <2>1 DEF Verdict
      <3> QED BY <2>1, <3>1 DEF WriteEnds, Ended
    <2>2. CASE op.kind = "read"
      <3>1. Verdict(op, d) = IF op.burst THEN BurstEnds(op, p) ELSE ReadEnds(p)
        BY <1>3, <2>2 DEF Verdict
      <3> HIDE DEF p
      <3>2. CASE op.burst
        BY <2>2, <3>1, <3>2 DEF BurstEnds, Ended, Raised
      <3>3. CASE ~op.burst
        <4>1. op.count = 1 /\ Verdict(op, d) = ReadEnds(p)
          BY <1>1, <3>1, <3>3
        <4>2. Len(p.payload) = 4
          BY <4>1 DEF ReadEnds, Ended, Raised
        <4>3. Verdict(op, d).values = Words(p.payload)
          BY <4>1, <4>2 DEF ReadEnds, Ended
        <4> QED BY <2>2, <4>1, <4>2, <4>3
      <3> QED BY <3>2, <3>3
    <2> QED BY <1>1, <2>1, <2>2
  <1>6. CASE decode(d[3]).rw /\ d[2] = SUCCESS
    <2>1. p = ReadReply(d)
      BY <1>4, <1>6
    <2> HIDE DEF p
    <2>2. /\ n >= 8 /\ d[n] = calculate(SubSeq(d, 2, n - 1))
          /\ p.payload = SubSeq(d, 8, n - 1)
      BY <1>3, <2>1 DEF ReadReply, Last
    <2>3. Closed(d, 2)
      BY <1>2, <2>2, CalculateIs
    <2>4. Len(p.payload) = n - 8
      <3>1. Len(SubSeq(d, 8, n - 1)) = n - 8
        <4>1. 8 \in 1..(n + 1) /\ n - 1 \in (8 - 1)..n /\ (n - 1) - 8 + 1 = n - 8
          BY <1>2, <2>2
        <4>2. Len(SubSeq(d, 8, n - 1)) = (n - 1) - 8 + 1
          BY <4>1, SubSeqProperties
        <4> QED BY <4>1, <4>2
      <3> QED BY <2>2, <3>1, Zenon
    <2>5. op.kind = "read" => n = 8 + 4 * op.count
      BY <1>1, <1>2, <1>5, <2>4
    <2>6. op.kind = "read" => Verdict(op, d).values = Words(SubSeq(d, 8, n - 1))
      BY <1>5, <2>2
    <2> QED BY <1>4, <1>5, <1>6, <2>3, <2>5, <2>6
  <1>7. CASE ~(decode(d[3]).rw /\ d[2] = SUCCESS)
    <2>1. p = ShortReply(d)
      BY <1>4, <1>7
    <2> HIDE DEF p
    <2>2. n = 4 /\ d[4] = calculate(SubSeq(d, 2, 3)) /\ p.status = d[2] /\ p.payload = <<>>
      BY <1>3, <2>1 DEF ShortReply, None
    <2>3. Closed(d, 2)
      <3>1. 4 \in Nat /\ 4 >= 3 /\ 4 = Len(d) /\ 4 - 1 = 3
        BY <2>2
      <3>2. d[4] = calculate(SubSeq(d, 2, 4 - 1))
        BY <2>2, <3>1
      <3> QED BY <3>1, <3>2, CalculateIs, Zenon
    <2>4. op.kind # "read"
      <3>1. Len(p.payload) = 0
        BY <2>2
      <3> QED BY <1>1, <1>5, <3>1, SMTT(60)
    <2> QED BY <1>3, <1>4, <1>5, <2>2, <2>3, <2>4
  <1> QED BY <1>6, <1>7

(* The words of a payload are the words that were packed.                    *)
HoldsPayload(payload, d, n) ==
    /\ payload \in Seq(Byte) /\ Len(payload) = 4 * n
    /\ \A j \in 1..(4 * n) : payload[j] = d[7 + j]

LEMMA PayloadOfReply ==
    ASSUME NEW n \in 1..16, NEW d \in Seq(Byte), Len(d) = 8 + 4 * n
    PROVE  HoldsPayload(SubSeq(d, 8, Len(d) - 1), d, n)
  <1> DEFINE m == Len(d)
             payload == SubSeq(d, 8, m - 1)
  <1>1. m = 8 + 4 * n /\ n \in Nat
    OBVIOUS
  <1>2. payload \in Seq(Byte) /\ Len(payload) = m - 8
    BY <1>1
  <1>3. ASSUME NEW j \in 1..(4 * n)
        PROVE  payload[j] = d[7 + j]
    <2>1. payload[j] = d[8 + j - 1] /\ 8 + j - 1 = 7 + j
      BY <1>1
    <2> QED BY <2>1
  <1> QED BY <1>1, <1>2, <1>3 DEF HoldsPayload

LEMMA WordsOfReply ==
    ASSUME NEW w \in Seq(Word32), NEW n \in 1..16, Len(w) = n, NEW d \in Seq(Byte),
           Len(d) = 8 + 4 * n,
           \A k \in 1..n : \A i \in 1..4 : d[3 + 4 * k + i] = Pack(w[k])[i]
    PROVE  Words(SubSeq(d, 8, Len(d) - 1)) = w
  <1> DEFINE m == Len(d)
             payload == SubSeq(d, 8, m - 1)
  <1>1. m = 8 + 4 * n /\ n \in Nat
    OBVIOUS
  <1>2. /\ payload \in Seq(Byte) /\ Len(payload) = 4 * n
        /\ \A j \in 1..(4 * n) : payload[j] = d[7 + j]
    BY PayloadOfReply DEF HoldsPayload
  <1> HIDE DEF payload, m
  <1>3. Len(payload) \div 4 = n
    BY <1>2
  <1>4. ASSUME NEW k \in 1..n
        PROVE  Unpack(SubSeq(payload, 4 * k - 3, 4 * k)) = w[k]
    <2> DEFINE b == SubSeq(payload, 4 * k - 3, 4 * k)
    <2>1. 4 * k - 3 \in 1..(4 * n) /\ 4 * k \in 1..(4 * n)
      BY <1>1
    <2>2. ASSUME NEW i \in 1..4
          PROVE  b[i] = Pack(w[k])[i]
      <3>1. Len(b) = 4 /\ b[i] = payload[4 * k - 3 + i - 1]
        BY <1>2, <2>1
      <3>2. 4 * k - 3 + i - 1 \in 1..(4 * n) /\ 7 + (4 * k - 3 + i - 1) = 3 + 4 * k + i
        BY <1>1
      <3>3. payload[4 * k - 3 + i - 1] = d[3 + 4 * k + i]
        BY <1>2, <3>2
      <3> QED BY <3>1, <3>3
    <2> HIDE DEF b
    <2>3. w[k] \in Word32
      OBVIOUS
    <2>4. Unpack(b) = w[k]
      BY <2>2, <2>3, UnpackPack, Zenon
    <2> QED BY <2>4 DEF b
  <1>5. Words(payload) = [k \in 1..n |-> w[k]]
    BY <1>3, <1>4 DEF Words
  <1>6. w = [k \in 1..n |-> w[k]]
    OBVIOUS
  <1> QED BY <1>5, <1>6 DEF payload, m

(* An undisturbed reply tells the driver what became of the call.            *)
LEMMA CleanVerdict ==
    ASSUME CrcsAgree, NEW op, Plain(op), NEW r, IsReply(r, op)
    PROVE  Verdict(op, r).how = "ok" <=> told.ok
  <1> DEFINE n == Len(r)
  <1>1. /\ op.kind \in {"read", "write"} /\ op.count \in 1..16 /\ op.burst \in BOOLEAN
        /\ ~op.burst => op.count = 1
        /\ Says(Code(op), op.kind = "read", op.inc, op.count)
    BY PlainOp, CodeSays DEF OpFields
  <1>2. /\ r \in Seq(Byte) /\ n \in Nat /\ n = IF told.ok /\ op.kind = "read" THEN 8 + 4 * op.count ELSE 4
        /\ r[1] = SOF_FROM_DEVICE /\ r[2] \in 0..6 /\ r[3] = Code(op)
        /\ (r[2] = SUCCESS <=> told.ok)
    BY DEF IsReply, SUCCESS, STATUS_OK, Status
  <1>3. Closed(r, 2)
    BY DEF IsReply, Closed
  <1>4. (decode(r[3]).rw <=> op.kind = "read") /\ PayloadLen(r[3]) = 4 * op.count
    BY <1>1, <1>2 DEF Says
  <1>5. parse_response(r) = IF decode(r[3]).rw /\ r[2] = SUCCESS THEN ReadReply(r) ELSE ShortReply(r)
    <2>1. r[2] \in StatusCode
      <3>1. \A x \in 0..6 : x \in 0..7
        OBVIOUS
      <3> QED BY <1>2, <3>1, Zenon DEF StatusCode
    <2>2. n >= 4
      <3>1. n = 8 + 4 * op.count \/ n = 4
        BY <1>2
      <3>2. 8 + 4 * op.count >= 4
        BY <1>1, FourTimes
      <3> HIDE DEF n
      <3> QED BY <3>1, <3>2
    <2> QED BY <1>2, <2>1, <2>2 DEF parse_response
  <1> DEFINE p == parse_response(r)
  <1>6. CASE told.ok /\ op.kind = "read"
    <2>1. p = ReadReply(r)
      BY <1>2, <1>4, <1>5, <1>6
    <2>2. n = 8 + 4 * op.count /\ n >= 8
      <3>1. n = 8 + 4 * op.count
        BY <1>2, <1>6
      <3>2. 8 + 4 * op.count >= 8
        BY <1>1, FourTimes
      <3> QED BY <3>1, <3>2
    <2>3. p.status = SUCCESS /\ p.payload = SubSeq(r, 8, n - 1) /\ p # ValueError
      BY <1>2, <1>3, <1>4, <2>1, <2>2, ParsedLong
    <2>4. Verdict(op, r) = IF op.burst THEN BurstEnds(op, p) ELSE ReadEnds(p)
      BY <1>6, <2>3 DEF Verdict
    <2> HIDE DEF p
    <2>5. Len(p.payload) = 4 * op.count
      <3>1. HoldsPayload(SubSeq(r, 8, n - 1), r, op.count)
        BY <1>1, <1>2, <2>2, PayloadOfReply
      <3> QED BY <2>3, <3>1 DEF HoldsPayload
    <2>6. Verdict(op, r).how = "ok"
      <3>1. CASE op.burst
        BY <2>4, <2>5, <3>1 DEF BurstEnds, Ended
      <3>2. CASE ~op.burst
        <4>1. Len(p.payload) = 4
          BY <1>1, <2>5, <3>2
        <4> QED BY <2>4, <3>2, <4>1 DEF ReadEnds, Ended
      <3> QED BY <3>1, <3>2
    <2> QED BY <1>6, <2>6
  <1>7. CASE ~(told.ok /\ op.kind = "read")
    <2>1. p = ShortReply(r) /\ n = 4
      BY <1>2, <1>4, <1>5, <1>7
    <2>2. p.status = r[2] /\ p # ValueError
      BY <1>2, <1>3, <2>1, ParsedShort
    <2> HIDE DEF p
    <2>3. CASE told.ok
      <3>1. op.kind = "write" /\ p.status = SUCCESS
        BY <1>1, <1>2, <1>7, <2>2, <2>3
      <3>2. Verdict(op, r) = WriteEnds
        BY <2>2, <3>1 DEF Verdict, p
      <3>3. Verdict(op, r).how = "ok"
        BY <3>2 DEF WriteEnds, Ended
      <3> QED BY <2>3, <3>3
    <2>4. CASE ~told.ok
      <3>1. p.status # SUCCESS
        BY <1>2, <2>2, <2>4
      <3>2. Verdict(op, r) = Raised
        BY <2>2, <3>1 DEF Verdict, p
      <3>3. Verdict(op, r).how # "ok"
        BY <3>2 DEF Raised, Ended
      <3> QED BY <2>4, <3>3
    <2> QED BY <2>3, <2>4
  <1> QED BY <1>6, <1>7

(* And of a reply with one byte wrong it believes nothing.                   *)
LEMMA HonestVerdict ==
    ASSUME CrcsAgree, NEW op, Plain(op), told.values \in Seq(Word32),
           NEW r, IsReply(r, op), NEW g \in Seq(Byte), Disturbed(r, g),
           NEW d \in Seq(Byte), Len(d) <= Len(g), \A i \in 1..Len(d) : d[i] = g[i],
           Verdict(op, d).how = "ok"
    PROVE  d = g /\ g = r /\ told.ok /\ Verdict(op, d).values = told.values
  <1>1. op.kind \in {"read", "write"} /\ op.count \in 1..16
    BY PlainOp
  <1>2. /\ Len(d) >= 4 /\ d[1] = SOF_FROM_DEVICE /\ d[2] = SUCCESS /\ Closed(d, 2)
        /\ op.kind = "read" => /\ Len(d) = 8 + 4 * op.count
                               /\ Verdict(op, d).values = Words(SubSeq(d, 8, Len(d) - 1))
        /\ op.kind = "write" => Verdict(op, d).values = <<>>
    BY OkReply
  <1>3. /\ r \in Seq(Byte) /\ Len(r) = IF told.ok /\ op.kind = "read" THEN 8 + 4 * op.count ELSE 4
        /\ r[1] = SOF_FROM_DEVICE /\ (r[2] = SUCCESS <=> told.ok) /\ Closed(r, 2)
    BY DEF IsReply, SUCCESS, STATUS_OK, Closed
  <1>4. Len(d) \in Nat /\ Len(g) \in Nat /\ Len(r) \in Nat
    OBVIOUS
  <1>5. Len(g) = Len(r)
    <2>1. CASE g = r
      BY <2>1
    <2>2. CASE \E i \in 1..Len(r) : \E b \in Byte : b # r[i] /\ g = [r EXCEPT ![i] = b]
      BY <1>3, <2>2
    <2> QED BY <2>1, <2>2 DEF Disturbed
  <1>6. Len(d) = Len(g)
    BY <1>1, <1>2, <1>3, <1>4, <1>5
  <1>7. d = g
    BY <1>6, SeqEqual
  <1>8. g = r
    <2> SUFFICES ASSUME NEW i \in 1..Len(r), NEW b \in Byte, b # r[i], g = [r EXCEPT ![i] = b]
                 PROVE  FALSE
      BY DEF Disturbed
    <2>1. CASE i = 1
      <3>1. g[1] = b
        BY <1>3, <2>1
      <3> QED BY <1>2, <1>3, <1>7, <2>1, <3>1
    <2>2. CASE i # 1
      <3>1. i \in 2..Len(r) /\ Len(r) >= 2
        BY <1>4, <2>2
      <3>2. ~Closed([r EXCEPT ![i] = b], 2)
        BY <1>3, <3>1, DisturbedIsOpen
      <3> QED BY <1>2, <1>7, <3>2
    <2> QED BY <2>1, <2>2
  <1>9. told.ok
    BY <1>2, <1>3, <1>7, <1>8
  <1>10. Verdict(op, d).values = told.values
    <2>1. CASE op.kind = "write"
      <3>1. told.values = <<>>
        BY <1>9, <2>1 DEF IsReply
      <3> QED BY <1>2, <2>1, <3>1
    <2>2. CASE op.kind = "read"
      <3>1. /\ Len(told.values) = op.count
            /\ \A k \in 1..op.count : \A i \in 1..4 : r[3 + 4 * k + i] = Pack(told.values[k])[i]
        BY <1>9, <2>2 DEF IsReply
      <3>2. Words(SubSeq(d, 8, Len(d) - 1)) = told.values
        BY <1>1, <1>2, <1>7, <1>8, <2>2, <3>1, WordsOfReply
      <3> QED BY <1>2, <2>2, <3>2
    <2> QED BY <1>1, <2>1, <2>2
  <1> QED BY <1>7, <1>8, <1>9, <1>10

(* What the bridge puts on the wire.                                         *)
Answerable == /\ job \in Seq(Byte) /\ Len(job) >= 6
              /\ outcome.status \in Status /\ outcome.data \in Seq(Byte)

Rest == IF IsRead(job[1]) /\ outcome.status = STATUS_OK THEN SubSeq(job, 2, 5) \o outcome.data
        ELSE <<>>

BodyHolds(body) ==
    /\ body \in Seq(Byte) /\ Rest \in Seq(Byte) /\ Len(Rest) \in Nat /\ Len(body) = 2 + Len(Rest)
    /\ body[1] = outcome.status /\ body[2] = job[1]
    /\ \A i \in 1..Len(Rest) : body[2 + i] = Rest[i]

LEMMA BodyIs ==
    ASSUME Answerable
    PROVE  BodyHolds(Body(job, outcome))
  <1> DEFINE two == <<outcome.status, job[1]>>
             body == two \o Rest
  <1>1. Body(job, outcome) = body
    BY DEF Body, Rest
  <1>2. two \in Seq(Byte) /\ Len(two) = 2 /\ two[1] = outcome.status /\ two[2] = job[1]
    <2>1. outcome.status \in Byte
      BY DEF Answerable, Status, Byte
    <2>2. job[1] \in Byte
      BY DEF Answerable
    <2> QED BY <2>1, <2>2
  <1> HIDE DEF two
  <1>3. Rest \in Seq(Byte) /\ Len(Rest) \in Nat
    <2>1. SubSeq(job, 2, 5) \in Seq(Byte)
      BY DEF Answerable
    <2>2. outcome.data \in Seq(Byte)
      BY DEF Answerable
    <2>3. SubSeq(job, 2, 5) \o outcome.data \in Seq(Byte)
      BY <2>1, <2>2
    <2>4. Rest \in Seq(Byte)
      BY <2>3 DEF Rest
    <2> QED BY <2>4, LenProperties
  <1>4. Joins(two, Rest, body)
    BY <1>2, <1>3, OneAfterAnother
  <1> HIDE DEF body
  <1>5. body \in Seq(Byte) /\ Len(body) = 2 + Len(Rest) /\ \A i \in 1..Len(Rest) : body[2 + i] = Rest[i]
    BY <1>2, <1>4 DEF Joins
  <1>6. body[1] = outcome.status /\ body[2] = job[1]
    <2>1. \A i \in 1..2 : body[i] = two[i]
      BY <1>2, <1>4 DEF Joins
    <2> QED BY <1>2, <2>1
  <1>7. BodyHolds(body)
    BY <1>3, <1>5, <1>6, Zenon DEF BodyHolds
  <1> QED BY <1>1, <1>7

LEMMA ReplyIsFramed ==
    ASSUME CrcsAgree, Answerable
    PROVE  Framed(ReplyBytes, Body(job, outcome)) /\ BodyHolds(Body(job, outcome))
  <1> DEFINE body == Body(job, outcome)
  <1>1. BodyHolds(body)
    BY BodyIs
  <1>2. ReplyBytes = <<SOF_FROM_DEVICE>> \o body \o <<CrcOf(body)>>
    BY DEF ReplyBytes
  <1> HIDE DEF body
  <1>3. body \in Seq(Byte)
    BY <1>1 DEF BodyHolds
  <1>4. Framed(ReplyBytes, body)
    BY <1>2, <1>3, FramedBody
  <1> QED BY <1>1, <1>4 DEF body

(* The reply the bridge owes a call is the one the driver is to read.        *)
LEMMA RestOfRead ==
    ASSUME Answerable, NEW op, Plain(op), Owes(op), told.ok, op.kind = "read",
           told.values \in Seq(Word32)
    PROVE  /\ Len(Rest) = 4 + 4 * op.count
           /\ \A k \in 1..op.count : \A i \in 1..4 : Rest[4 * k + i] = Pack(told.values[k])[i]
  <1> DEFINE n == op.count
             a == SubSeq(job, 2, 5)
             data == outcome.data
             f == [k \in DOMAIN told.values |-> Pack(told.values[k])]
  <1>1. n \in 1..16 /\ IsRead(job[1])
    <2>1. Says(Code(op), op.kind = "read", op.inc, op.count) /\ op.count \in 1..16
      BY CodeSays, PlainOp
    <2>2. job[1] = Code(op)
      BY DEF Owes
    <2> QED BY <2>1, <2>2 DEF Says
  <1>2. outcome.status = STATUS_OK /\ Len(told.values) = n /\ data = PackAll(told.values)
    BY DEF Owes
  <1>3. a \in Seq(Byte) /\ Len(a) = 4
    BY DEF Answerable
  <1>4. \A k \in 1..n : told.values[k] \in Nat
    <2>1. ASSUME NEW k \in 1..n
          PROVE  told.values[k] \in Word32
      BY <1>2
    <2> QED BY <2>1 DEF Word32
  <1>5. f = [k \in 1..n |-> Pack(told.values[k])]
    BY <1>2
  <1> HIDE DEF f
  <1>6. Packed(data, told.values, n)
    <2>1. n \in Nat \ {0}
      BY <1>1
    <2>2. Packed(FlattenSeq(f), told.values, n)
      BY <1>4, <1>5, <2>1, PackedWords
    <2>3. data = FlattenSeq(f)
      BY <1>2 DEF PackAll, f
    <2> QED BY <2>2, <2>3
  <1>7. Rest = a \o data
    BY <1>1, <1>2 DEF Rest
  <1> HIDE DEF a, data
  <1>8. Joins(a, data, Rest)
    BY <1>3, <1>6, <1>7, OneAfterAnother DEF Packed
  <1>9. Len(Rest) = 4 + 4 * n
    BY <1>3, <1>6, <1>8 DEF Joins, Packed
  <1>10. ASSUME NEW k \in 1..n, NEW i \in 1..4
         PROVE  Rest[4 * k + i] = Pack(told.values[k])[i]
    <2>1. data[4 * (k - 1) + i] = Pack(told.values[k])[i]
      BY <1>6 DEF Packed
    <2>2. Len(data) = 4 * n
      BY <1>6 DEF Packed
    <2>3. 4 * (k - 1) + i \in 1..Len(data) /\ 4 + (4 * (k - 1) + i) = 4 * k + i
      <3>1. k \in Int /\ i \in Int /\ n \in Int /\ 1 <= k /\ k <= n /\ 1 <= i /\ i <= 4
        BY <1>1
      <3> QED BY <2>2, <3>1
    <2>4. Rest[4 + (4 * (k - 1) + i)] = data[4 * (k - 1) + i]
      BY <1>3, <1>8, <2>3 DEF Joins
    <2> QED BY <2>1, <2>3, <2>4
  <1> QED BY <1>9, <1>10

LEMMA ReplyTells ==
    ASSUME CrcsAgree, Answerable, NEW op, Plain(op), Owes(op), told.values \in Seq(Word32)
    PROVE  IsReply(ReplyBytes, op)
  <1> DEFINE body == Body(job, outcome)
             r == ReplyBytes
             n == op.count
  <1>1. Framed(r, body) /\ BodyHolds(body)
    BY ReplyIsFramed
  <1>2. /\ op.kind \in {"read", "write"} /\ n \in 1..16
        /\ Says(Code(op), op.kind = "read", op.inc, op.count)
    BY PlainOp, CodeSays
  <1>3. /\ op.kind # "reset" /\ job[1] = Code(op) /\ (outcome.status = STATUS_OK <=> told.ok)
        /\ (told.ok /\ op.kind = "write" => told.values = <<>>)
        /\ (told.ok /\ op.kind = "read" => Len(told.values) = n)
    BY DEF Owes
  <1> HIDE DEF body, r
  <1>4. /\ r \in Seq(Byte) /\ r[1] = SOF_FROM_DEVICE /\ Len(Rest) \in Nat /\ Len(r) = 4 + Len(Rest)
        /\ Closed(r, 2)
    <2>1. Len(body) = 2 + Len(Rest) /\ Len(Rest) \in Nat /\ Len(r) = Len(body) + 2
      BY <1>1 DEF Framed, BodyHolds
    <2>2. r \in Seq(Byte) /\ r[1] = SOF_FROM_DEVICE /\ Closed(r, 2)
      BY <1>1 DEF Framed
    <2> QED BY <2>1, <2>2
  <1>5. r[2] = outcome.status /\ r[3] = job[1] /\ \A i \in 1..Len(Rest) : r[3 + i] = Rest[i]
    <2>1. /\ Len(body) = 2 + Len(Rest) /\ Len(Rest) \in Nat
          /\ body[1] = outcome.status /\ body[2] = job[1]
          /\ \A i \in 1..Len(Rest) : body[2 + i] = Rest[i]
      BY <1>1 DEF BodyHolds
    <2>2. \A i \in 1..Len(body) : r[1 + i] = body[i]
      BY <1>1 DEF Framed
    <2>3. 1 \in 1..Len(body) /\ 2 \in 1..Len(body) /\ 1 + 1 = 2 /\ 1 + 2 = 3
      BY <2>1
    <2>4. r[2] = body[1] /\ r[3] = body[2]
      BY <2>2, <2>3
    <2>5. ASSUME NEW i \in 1..Len(Rest)
          PROVE  r[3 + i] = Rest[i]
      <3>1. 2 + i \in 1..Len(body) /\ 1 + (2 + i) = 3 + i
        BY <2>1
      <3> QED BY <2>1, <2>2, <3>1
    <2> QED BY <2>1, <2>4, <2>5
  <1>6. ASSUME told.ok, op.kind = "read"
        PROVE  /\ Len(Rest) = 4 + 4 * n
               /\ \A k \in 1..n : \A i \in 1..4 : Rest[4 * k + i] = Pack(told.values[k])[i]
    BY <1>6, RestOfRead
  <1>7. Len(Rest) = IF told.ok /\ op.kind = "read" THEN 4 + 4 * n ELSE 0
    <2>1. CASE told.ok /\ op.kind = "read"
      BY <1>6, <2>1
    <2>2. CASE ~(told.ok /\ op.kind = "read")
      <3>1. IsRead(job[1]) <=> op.kind = "read"
        BY <1>2, <1>3 DEF Says
      <3>2. Rest = <<>>
        BY <1>3, <2>2, <3>1 DEF Rest
      <3> QED BY <2>2, <3>2
    <2> QED BY <2>1, <2>2
  <1>8. Len(r) = IF told.ok /\ op.kind = "read" THEN 8 + 4 * n ELSE 4
    <2>1. CASE told.ok /\ op.kind = "read"
      <3>1. Len(Rest) = 4 + 4 * n
        BY <1>7, <2>1
      <3>2. Len(r) = 8 + 4 * n
        <4>1. n \in Int /\ Len(r) = 4 + Len(Rest)
          BY <1>2, <1>4
        <4> HIDE DEF n
        <4> QED BY <3>1, <4>1
      <3> QED BY <2>1, <3>2
    <2>2. CASE ~(told.ok /\ op.kind = "read")
      <3>1. Len(Rest) = 0
        BY <1>7, <2>2
      <3> QED BY <1>4, <2>2, <3>1
    <2> QED BY <2>1, <2>2
  <1>9. ASSUME told.ok, op.kind = "read", NEW k \in 1..n, NEW i \in 1..4
        PROVE  r[3 + 4 * k + i] = Pack(told.values[k])[i]
    <2>1. Len(Rest) = 4 + 4 * n /\ Rest[4 * k + i] = Pack(told.values[k])[i]
      BY <1>6, <1>9
    <2>2. 4 * k + i \in 1..Len(Rest) /\ 3 + (4 * k + i) = 3 + 4 * k + i
      <3>1. k \in Int /\ i \in Int /\ n \in Int /\ 1 <= k /\ k <= n /\ 1 <= i /\ i <= 4
        BY <1>2
      <3> QED BY <2>1, <3>1
    <2> QED BY <1>5, <2>1, <2>2
  <1>10. r[2] \in Status /\ (r[2] = STATUS_OK <=> told.ok) /\ r[3] = Code(op)
    BY <1>3, <1>5 DEF Answerable
  <1>11. r[Len(r)] = CrcOf(SubSeq(r, 2, Len(r) - 1))
    BY <1>4 DEF Closed
  <1>12. IsReply(r, op)
    BY <1>3, <1>4, <1>8, <1>9, <1>10, <1>11, Zenon DEF IsReply
  <1> QED BY <1>12 DEF r
------------------------------------------------------------------------------
(* A command in the device's hands is the call the host made.                *)
LEMMA Greatest ==
    ASSUME NEW m \in Nat, NEW T, T \subseteq 1..m, T # {}
    PROVE  \E x \in T : \A y \in T : y <= x
  <1> DEFINE S == {m - k : k \in T}
  <1>1. S \subseteq Nat /\ S # {}
    <2>1. \A k \in T : m - k \in Nat
      OBVIOUS
    <2>2. PICK k \in T : TRUE
      OBVIOUS
    <2>3. m - k \in S
      OBVIOUS
    <2> QED BY <2>1, <2>3
  <1>2. PICK s \in S : \A t \in S : s <= t
    <2> HIDE DEF S
    <2> QED BY <1>1, LeastNumber
  <1>3. PICK x \in T : s = m - x
    OBVIOUS
  <1>4. ASSUME NEW y \in T
        PROVE  y <= x
    <2>1. m - y \in S
      OBVIOUS
    <2>2. m - x <= m - y /\ x \in Int /\ y \in Int
      BY <1>2, <1>3, <2>1
    <2> QED BY <2>2
  <1> QED BY <1>4

Understood(op) ==
    /\ Beats = 1..op.count
    /\ IsRead(job[1]) <=> op.kind = "read"
    /\ \A k \in 1..op.count : DeviceAddr(k) = Client!Target(op, k)
    /\ op.kind = "write" => \A k \in 1..op.count : DeviceWord(k) = op.values[k]

LEMMA DeviceUnderstands ==
    ASSUME NEW op, Plain(op), IsFrame(job, op)
    PROVE  Understood(op)
  <1>1. /\ Says(Code(op), op.kind = "read", op.inc, op.count)
        /\ op.count \in 1..16 /\ op.addr \in Word32 /\ op.values \in Seq(Word32)
        /\ (op.kind = "write" => Len(op.values) = op.count)
    BY CodeSays, PlainOp DEF OpFields
  <1>2. /\ job[1] = Code(op)
        /\ \A i \in 1..4 : job[1 + i] = Pack(op.addr)[i]
        /\ op.kind = "write" =>
             \A k \in 1..op.count : \A i \in 1..4 : job[4 * k + 1 + i] = Pack(op.values[k])[i]
        /\ job \in Seq(Byte)
    BY DEF IsFrame
  <1>3. Beats = 1..op.count /\ (IsRead(job[1]) <=> op.kind = "read") /\ (IncBit(job[1]) <=> op.inc)
    <2>1. /\ LenField(job[1]) = op.count - 1
          /\ (IsRead(job[1]) <=> op.kind = "read") /\ (IncBit(job[1]) <=> op.inc)
      <3>1. job[1] = Code(op)
        BY <1>2
      <3>2. Says(job[1], op.kind = "read", op.inc, op.count)
        BY <1>1, <3>1, Zenon
      <3> QED BY <3>2 DEF Says
    <2>2. op.count - 1 + 1 = op.count
      BY <1>1
    <2>3. Beats = 1..op.count
      BY <2>1, <2>2 DEF Beats
    <2> QED BY <2>1, <2>3, Zenon
  <1>4. Unpack(SubSeq(job, 2, 5)) = op.addr
    <2> DEFINE b == SubSeq(job, 2, 5)
    <2>1. ASSUME NEW i \in 1..4
          PROVE  b[i] = Pack(op.addr)[i]
      <3>1. b[i] = job[1 + i]
        BY <1>2
      <3> QED BY <1>2, <3>1
    <2> HIDE DEF b
    <2>2. Unpack(b) = op.addr
      BY <1>1, <2>1, UnpackPack, Zenon
    <2> QED BY <2>2 DEF b
  <1>5. ASSUME NEW k \in 1..op.count
        PROVE  DeviceAddr(k) = Client!Target(op, k)
    <2> DEFINE first == Unpack(SubSeq(job, 2, 5))
               inc == IncBit(job[1])
    <2>1. DeviceAddr(k) = (IF inc THEN first + 4 * (k - 1) ELSE first) % 4096
      BY DEF DeviceAddr
    <2>2. first = op.addr /\ (inc <=> op.inc)
      BY <1>3, <1>4
    <2> HIDE DEF first, inc
    <2>3. Client!Target(op, k) = (IF op.inc THEN op.addr + 4 * (k - 1) ELSE op.addr) % 4096
      BY DEF Client!Target
    <2> QED BY <2>1, <2>2, <2>3
  <1>6. ASSUME op.kind = "write", NEW k \in 1..op.count
        PROVE  DeviceWord(k) = op.values[k]
    <2> DEFINE b == SubSeq(job, 4 * k + 2, 4 * k + 5)
    <2>1. ASSUME NEW i \in 1..4
          PROVE  b[i] = Pack(op.values[k])[i]
      <3>1. b[i] = job[4 * k + 1 + i]
        <4>1. k \in Int /\ i \in Int
          BY <1>1
        <4>2. 1 + (4 * k + 5) - (4 * k + 2) = 4 /\ i + (4 * k + 2) - 1 = 4 * k + 1 + i
          BY <4>1
        <4> QED BY <1>2, <4>1, <4>2
      <3> QED BY <1>2, <1>6, <3>1
    <2> HIDE DEF b
    <2>2. op.values[k] \in Word32
      BY <1>1, <1>6
    <2>3. Unpack(b) = op.values[k]
      BY <2>1, <2>2, UnpackPack, Zenon
    <2> QED BY <2>3 DEF DeviceWord, b
  <1> QED BY <1>3, <1>5, <1>6 DEF Understood

(* What Perform makes of the call it carries out.                            *)
Carried(op) ==
    /\ regs' \in [Addresses -> Word32]
    /\ regs' = IF op.kind = "write" THEN Client!After(op) ELSE regs
    /\ \/ /\ ~Client!Known(op) /\ told' = Untold
          /\ outcome'.status = STATUS_SLVERR /\ outcome'.data = <<>>
       \/ /\ op.kind = "write" /\ Client!Known(op) /\ told' = [ok |-> TRUE, values |-> <<>>]
          /\ outcome'.status = STATUS_OK /\ outcome'.data = <<>>
       \/ /\ op.kind = "read" /\ Client!Known(op) /\ told' = [ok |-> TRUE, values |-> Client!Found(op)]
          /\ outcome'.status = STATUS_OK /\ outcome'.data = PackAll(Client!Found(op))
          /\ outcome'.data \in Seq(Byte)
          /\ Client!Found(op) \in Seq(Word32) /\ Len(Client!Found(op)) = op.count

(* The registers, every beat of a write carried out.                         *)
Written ==
    [a \in Addresses |->
        LET hits == {k \in Beats : DeviceAddr(k) = a}
        IN IF hits = {} THEN regs[a]
           ELSE DeviceWord(CHOOSE k \in hits : \A j \in hits : j <= k)]

LEMMA WrittenIs ==
    ASSUME NEW op, Plain(op), op.kind = "write", Understood(op),
           regs \in [Addresses -> Word32]
    PROVE  Written = Client!After(op) /\ Written \in [Addresses -> Word32]
  <1>1. /\ op.count \in 1..16 /\ op.values \in Seq(Word32) /\ Len(op.values) = op.count
    BY PlainOp DEF OpFields
  <1> DEFINE Stores(a) == {k \in Beats : DeviceAddr(k) = a}
             Hits(a) == {k \in 1..op.count : Client!Target(op, k) = a}
             Top(T)  == CHOOSE k \in T : \A j \in T : j <= k
  <1>2. Beats = 1..op.count
    BY DEF Understood
  <1>3. \A a \in Addresses : Stores(a) = Hits(a)
    BY <1>2 DEF Understood
  <1>4. ASSUME NEW a \in Addresses, Stores(a) # {}
        PROVE  Top(Stores(a)) \in 1..op.count
    <2> DEFINE T == Stores(a)
    <2>1. T \subseteq 1..op.count /\ T # {}
      BY <1>2, <1>4
    <2> HIDE DEF T
    <2>2. \E k \in T : \A j \in T : j <= k
      <3>1. op.count \in Nat
        BY <1>1
      <3> QED BY <2>1, <3>1, Greatest, Zenon
    <2>3. Top(T) \in T
      BY <2>2
    <2>4. Top(T) \in 1..op.count
      BY <2>1, <2>3
    <2> QED BY <2>4 DEF T
  <1>5. Written = [a \in Addresses |-> IF Stores(a) = {} THEN regs[a] ELSE DeviceWord(Top(Stores(a)))]
    BY DEF Written
  <1>6. Client!After(op) = [a \in Addresses |-> IF Hits(a) = {} THEN regs[a]
                                                    ELSE op.values[Top(Hits(a))]]
    BY DEF Client!After
  <1> HIDE DEF Stores, Hits, Top
  <1>7. \A k \in 1..op.count : DeviceWord(k) = op.values[k] /\ op.values[k] \in Word32
    BY <1>1 DEF Understood
  <1>8. ASSUME NEW a \in Addresses
        PROVE  /\ Written[a] = Client!After(op)[a]
               /\ Written[a] \in Word32
    <2>1. Written[a] = IF Stores(a) = {} THEN regs[a] ELSE DeviceWord(Top(Stores(a)))
      BY <1>5
    <2>2. Client!After(op)[a] = IF Stores(a) = {} THEN regs[a] ELSE op.values[Top(Stores(a))]
      BY <1>3, <1>6
    <2>3. CASE Stores(a) = {}
      BY <2>1, <2>2, <2>3
    <2>4. CASE Stores(a) # {}
      BY <1>4, <1>7, <2>1, <2>2, <2>4
    <2> QED BY <2>3, <2>4
  <1> DEFINE w == Written
             after == Client!After(op)
  <1>9. w = [a \in Addresses |-> w[a]] /\ after = [a \in Addresses |-> after[a]]
    BY <1>5, <1>6
  <1> HIDE DEF w, after
  <1>10. \A a \in Addresses : w[a] = after[a] /\ w[a] \in Word32
    BY <1>8 DEF w, after
  <1>11. w = after /\ w \in [Addresses -> Word32]
    BY <1>9, <1>10
  <1> QED BY <1>11 DEF w, after

LEMMA FoundIs ==
    ASSUME NEW op, Plain(op), Understood(op), regs \in [Addresses -> Word32],
           \A k \in 1..op.count : DeviceAddr(k) \in Addresses
    PROVE  /\ Client!Found(op) = [k \in Beats |-> regs[DeviceAddr(k)]]
           /\ Client!Found(op) \in Seq(Word32) /\ Len(Client!Found(op)) = op.count
           /\ FlattenSeq([k \in Beats |-> Pack(regs[DeviceAddr(k)])]) = PackAll(Client!Found(op))
           /\ PackAll(Client!Found(op)) \in Seq(Byte)
  <1> DEFINE n == op.count
             found == Client!Found(op)
             f == [k \in DOMAIN found |-> Pack(found[k])]
             h == [k \in Beats |-> Pack(regs[DeviceAddr(k)])]
  <1>1. n \in 1..16 /\ Beats = 1..n
    BY PlainOp DEF Understood
  <1>2. \A k \in 1..n : /\ DeviceAddr(k) = Client!Target(op, k)
                        /\ regs[DeviceAddr(k)] \in Word32
    BY DEF Understood
  <1>3. found = [k \in 1..n |-> regs[DeviceAddr(k)]]
    BY <1>2 DEF Client!Found
  <1>4. found \in [1..n -> Word32]
    BY <1>2, <1>3
  <1>5. DOMAIN found = 1..n /\ \A k \in 1..n : found[k] = regs[DeviceAddr(k)] /\ found[k] \in Word32
    BY <1>2, <1>3
  <1>6. found \in Seq(Word32) /\ Len(found) = n
    <2>1. n \in Nat
      BY <1>1
    <2> HIDE DEF found
    <2>2. found \in UNION {[1..j -> Word32] : j \in Nat}
      BY <1>4, <2>1
    <2>3. found \in Seq(Word32)
      BY <2>2, SeqDef, Zenon
    <2> QED BY <1>5, <2>1, <2>3, LenProperties
  <1>7. h = f
    <2> HIDE DEF found
    <2> QED BY <1>1, <1>5
  <1>8. f = [k \in 1..n |-> Pack(found[k])]
    <2> HIDE DEF found
    <2> QED BY <1>5
  <1>9. \A k \in 1..n : found[k] \in Nat
    <2> HIDE DEF found
    <2> QED BY <1>5 DEF Word32
  <1>10. PackAll(found) = FlattenSeq(f)
    BY DEF PackAll
  <1> HIDE DEF f, found, h
  <1>11. Packed(FlattenSeq(f), found, n)
    <2>1. n \in Nat \ {0}
      BY <1>1
    <2> QED BY <1>8, <1>9, <2>1, PackedWords
  <1>12. PackAll(found) \in Seq(Byte) /\ FlattenSeq(h) = PackAll(found)
    BY <1>7, <1>10, <1>11 DEF Packed
  <1>13. found = [k \in Beats |-> regs[DeviceAddr(k)]]
    BY <1>1, <1>3
  <1> QED BY <1>6, <1>12, <1>13 DEF found, h

LEMMA PerformCarriesOut ==
    ASSUME NEW op, Plain(op), IsFrame(job, op), regs \in [Addresses -> Word32], Perform
    PROVE  Carried(op)
  <1>1. Understood(op)
    BY DeviceUnderstands
  <1>2. op.count \in 1..16 /\ op.kind \in {"read", "write"} /\ Beats = 1..op.count
    BY <1>1, PlainOp DEF Understood
  <1>3. Client!Known(op) <=> Undecoded = {}
    <2>1. DOMAIN regs = Addresses /\ \A k \in 1..op.count : DeviceAddr(k) = Client!Target(op, k)
      BY <1>1 DEF Understood
    <2>2. Client!Known(op) <=> \A k \in 1..op.count : DeviceAddr(k) \in Addresses
      BY <2>1 DEF Client!Known
    <2>3. Undecoded = {k \in 1..op.count : DeviceAddr(k) \notin Addresses}
      BY <1>2 DEF Undecoded
    <2> QED BY <2>2, <2>3
  <1>4. regs' = [a \in Addresses |->
                   LET hits == {k \in Beats : DeviceAddr(k) = a}
                   IN IF IsRead(job[1]) \/ hits = {} THEN regs[a]
                      ELSE DeviceWord(CHOOSE k \in hits : \A j \in hits : j <= k)]
    BY DEF Perform
  <1>5. regs' = IF op.kind = "write" THEN Written ELSE regs
    <2>1. CASE op.kind = "write"
      <3>1. ~IsRead(job[1])
        BY <1>1, <2>1 DEF Understood
      <3> QED BY <1>4, <2>1, <3>1 DEF Written
    <2>2. CASE op.kind # "write"
      <3>1. IsRead(job[1])
        BY <1>1, <1>2, <2>2 DEF Understood
      <3>2. regs' = [a \in Addresses |-> regs[a]]
        BY <1>4, <3>1
      <3> QED BY <2>2, <3>2
    <2> QED BY <2>1, <2>2
  <1>6. regs' = (IF op.kind = "write" THEN Client!After(op) ELSE regs)
        /\ regs' \in [Addresses -> Word32]
    <2>1. CASE op.kind = "write"
      BY <1>1, <1>5, <2>1, WrittenIs
    <2>2. CASE op.kind # "write"
      BY <1>5, <2>2
    <2> QED BY <2>1, <2>2
  <1>7. CASE Undecoded # {}
    <2>1. outcome' = [status |-> STATUS_SLVERR, data |-> <<>>]
      BY <1>7 DEF Perform
    <2>2. told' = [ok |-> outcome'.status = STATUS_OK, values |-> <<>>]
      BY <1>7 DEF Perform
    <2>3. told' = Untold
      <3>1. outcome'.status = STATUS_SLVERR
        BY <2>1
      <3>2. (outcome'.status = STATUS_OK) = FALSE
        BY <3>1 DEF STATUS_SLVERR, STATUS_OK
      <3> QED BY <2>2, <3>2, Zenon DEF Untold
    <2> QED BY <1>3, <1>6, <1>7, <2>1, <2>3 DEF Carried
  <1>8. CASE Undecoded = {} /\ op.kind = "write"
    <2>1. ~IsRead(job[1])
      BY <1>1, <1>8 DEF Understood
    <2>2. outcome' = [status |-> STATUS_OK, data |-> <<>>]
      BY <1>8, <2>1 DEF Perform
    <2>3. told' = [ok |-> outcome'.status = STATUS_OK, values |-> <<>>]
      BY <1>8, <2>1 DEF Perform
    <2>4. told' = [ok |-> TRUE, values |-> <<>>]
      BY <2>2, <2>3
    <2> QED BY <1>3, <1>6, <1>8, <2>2, <2>4 DEF Carried
  <1>9. CASE Undecoded = {} /\ op.kind = "read"
    <2>1. IsRead(job[1]) /\ Undecoded = {}
      BY <1>1, <1>9 DEF Understood
    <2>2. \A k \in 1..op.count : DeviceAddr(k) \in Addresses
      BY <1>2, <1>9 DEF Undecoded
    <2>3. /\ Client!Found(op) = [k \in Beats |-> regs[DeviceAddr(k)]]
          /\ Client!Found(op) \in Seq(Word32) /\ Len(Client!Found(op)) = op.count
          /\ FlattenSeq([k \in Beats |-> Pack(regs[DeviceAddr(k)])]) = PackAll(Client!Found(op))
          /\ PackAll(Client!Found(op)) \in Seq(Byte)
      BY <1>1, <2>2, FoundIs
    <2>4. outcome' = [status |-> STATUS_OK,
                      data |-> FlattenSeq([k \in Beats |-> Pack(regs[DeviceAddr(k)])])]
      BY <2>1 DEF Perform
    <2>5. told' = [ok |-> outcome'.status = STATUS_OK,
                   values |-> [k \in Beats |-> regs[DeviceAddr(k)]]]
      BY <2>1 DEF Perform
    <2>6. outcome'.status = STATUS_OK /\ outcome'.data = PackAll(Client!Found(op))
      BY <2>3, <2>4
    <2>7. told' = [ok |-> TRUE, values |-> Client!Found(op)]
      BY <2>3, <2>5, <2>6
    <2> QED BY <1>3, <1>6, <1>9, <2>3, <2>6, <2>7 DEF Carried
  <1> QED BY <1>2, <1>7, <1>8, <1>9
------------------------------------------------------------------------------
(* What the steps do, while the exchange is in step.                         *)
LEMMA HeadOfLine ==
    ASSUME CrcsAgree, InFlight, toDevice # <<>>
    PROVE  /\ Sendable(toDevice[1].op) /\ toDevice[1].op \in Ops
           /\ toDevice[1].bytes = FrameOf(toDevice[1].op)
           /\ toDevice[1].bytes[2] = CMD_RESET <=> toDevice[1].op.kind = "reset"
           /\ toDevice \in Seq([op : Ops, bytes : Seq(Byte)])
           /\ Len(toDevice) \in Nat /\ 1 \in 1..Len(toDevice)
  <1>1. toDevice \in Seq([op : Ops, bytes : Seq(Byte)]) /\ Len(toDevice) \in Nat /\ 1 \in 1..Len(toDevice)
    BY DEF InFlight
  <1>2. Sendable(toDevice[1].op) /\ toDevice[1].bytes = FrameOf(toDevice[1].op)
    BY <1>1 DEF InFlight
  <1>3. FrameOf(toDevice[1].op)[2] = CMD_RESET <=> toDevice[1].op.kind = "reset"
    BY <1>2, SecondByte
  <1> QED BY <1>1, <1>2, <1>3 DEF Sendable

LEMMA FrameTaken ==
    ASSUME CrcsAgree, InFlight, toDevice # <<>>, Sent[2] # CMD_RESET, NEW op, op = toDevice[1].op
    PROVE  Plain(op) /\ Sent = FrameOf(op)
  <1>1. Sendable(op) /\ Sent = FrameOf(op) /\ op.kind # "reset"
    BY HeadOfLine DEF Sent
  <1> QED BY <1>1 DEF Plain

(* The bridge takes the frame up ...                                         *)
TakesUp(op) ==
    /\ alive /\ alive' = alive /\ toDevice # <<>> /\ toDevice' = Tail(toDevice)
    /\ phase = "listening" /\ working' = op
    /\ UNCHANGED <<hostVars, regs, mute, rx>>

LEMMA HearFrameAccepts ==
    ASSUME CrcsAgree, InFlight, HearFrame, NEW op, op = toDevice[1].op
    PROVE  /\ Plain(op) /\ TakesUp(op) /\ phase' = "executing" /\ job' = Heard(op)
           /\ told' = told /\ faults' = faults
  <1>1. /\ toDevice # <<>> /\ Sent[2] # CMD_RESET /\ Hear(Tail(Sent)) /\ faults' = faults
    BY DEF HearFrame
  <1>2. Plain(op) /\ Sent = FrameOf(op)
    BY <1>1, FrameTaken
  <1>3. job' = Heard(op)
    BY <1>1, <1>2 DEF Hear, Heard
  <1>4. LegalFrame(job')
    BY <1>2, <1>3, HeardIsLegal
  <1>5. Accept /\ told' = told
    BY <1>1, <1>4 DEF Hear, Refuse
  <1>6. phase = "listening" /\ phase' = "executing"
    BY <1>5 DEF Accept
  <1>7. TakesUp(op)
    BY <1>1, <1>6 DEF Hear, TakesUp
  <1> QED BY <1>1, <1>2, <1>3, <1>5, <1>6, <1>7

(* ... unless the line changed a byte of it.                                 *)
LEMMA HearGarbledRefuses ==
    ASSUME CrcsAgree, InFlight, HearGarbled, NEW op, op = toDevice[1].op
    PROVE  /\ Plain(op) /\ TakesUp(op) /\ phase' = "answering" /\ IsRefused(job', op)
           /\ outcome' = [status |-> STATUS_CRC_ERR, data |-> <<>>]
           /\ told' = Untold /\ Fault
  <1>1. toDevice # <<>> /\ Sent[2] # CMD_RESET /\ Fault
    BY DEF HearGarbled
  <1>2. Plain(op) /\ Sent = FrameOf(op)
    BY <1>1, FrameTaken
  <1>3. PICK i \in 3..Len(Sent), b \in NoiseBytes : b # Sent[i] /\ Hear(Tail([Sent EXCEPT ![i] = b]))
    BY DEF HearGarbled
  <1>4. b \in Byte /\ i \in 3..Len(FrameOf(op)) /\ b # FrameOf(op)[i]
    BY <1>2, <1>3, ExchangeAssumption
  <1>5. job' = Tail([FrameOf(op) EXCEPT ![i] = b])
    BY <1>2, <1>3 DEF Hear
  <1>6. IsRefused(job', op)
    BY <1>2, <1>4, <1>5, GarbledIsRefused
  <1>7. Refuse /\ told' = Untold
    BY <1>3, <1>6 DEF Hear, Accept, IsRefused
  <1>8. /\ phase = "listening" /\ phase' = "answering"
        /\ outcome' = [status |-> STATUS_CRC_ERR, data |-> <<>>]
    BY <1>6, <1>7 DEF Refuse, IsRefused
  <1>9. TakesUp(op)
    BY <1>1, <1>3, <1>8 DEF Hear, TakesUp
  <1> QED BY <1>1, <1>2, <1>6, <1>7, <1>8, <1>9

(* protocol.py and the RTL agree about every frame the driver builds.        *)
LEMMA OnlyNoiseIsRefused ==
    ASSUME CrcsAgree, InStep, Next, phase = "listening", phase' = "answering"
    PROVE  faults' # faults
  <1>0. InFlight /\ faults \in Int
    BY ExchangeAssumption DEF InStep, Bytes
  <1>1. CASE HearGarbled
    <2>1. Fault
      BY <1>1 DEF HearGarbled
    <2> QED BY <1>0, <2>1 DEF Fault
  <1>2. CASE HearFrame
    <2>1. phase' = "executing"
      BY <1>0, <1>2, HearFrameAccepts
    <2> QED BY <2>1
  <1>3. CASE Host
    <2>1. UNCHANGED serviceVars
      BY <1>3 DEF Host, Open, Close, Call, Reject, ReadSof, ReadHeader, ReadTail, TimeOut,
                  Interrupt, Take
    <2> QED BY <2>1 DEF serviceVars
  <1>4. CASE HearReset
    BY <1>4 DEF HearReset, serviceVars
  <1>5. CASE Perform
    BY <1>5 DEF Perform
  <1>6. CASE RespondClean \/ RespondGarbled
    BY <1>6 DEF RespondClean, RespondGarbled
  <1>7. CASE PowerCut
    BY <1>7 DEF PowerCut, serviceVars
  <1> QED BY <1>1, <1>2, <1>3, <1>4, <1>5, <1>6, <1>7 DEF Next, Device, Line
------------------------------------------------------------------------------
(* The exchange stays in step.  What the device and the line leave alone.    *)
LEMMA SameFlight == ASSUME InFlight, toDevice' = toDevice PROVE InFlight'
  BY DEF InFlight

LEMMA SameAtBridge ==
    ASSUME AtBridge, phase' = phase, working' = working, job' = job, outcome' = outcome
    PROVE  AtBridge'
  BY DEF AtBridge

LEMMA NextFlight ==
    ASSUME InFlight, toDevice # <<>>, toDevice' = Tail(toDevice)
    PROVE  InFlight'
  <1> DEFINE S == [op : Ops, bytes : Seq(Byte)]
  <1>1. toDevice \in Seq(S) /\ Len(toDevice) \in Nat
    BY DEF InFlight
  <1> HIDE DEF S
  <1>2. /\ toDevice' \in Seq(S) /\ Len(toDevice') = Len(toDevice) - 1
        /\ \A i \in 1..Len(toDevice') : toDevice'[i] = toDevice[i + 1]
    BY <1>1, HeadTailProperties
  <1>3. ASSUME NEW i \in 1..Len(toDevice')
        PROVE  Sendable(toDevice'[i].op) /\ toDevice'[i].bytes = FrameOf(toDevice'[i].op)
    <2>1. i + 1 \in 1..Len(toDevice)
      BY <1>1, <1>2
    <2> QED BY <1>2, <2>1 DEF InFlight
  <1> QED BY <1>2, <1>3 DEF InFlight, S

(* The host outside a call, and at the end of one.                           *)
LEMMA HostRests ==
    ASSUME InStep, UNCHANGED <<serviceVars, deviceVars, toDevice, alive, mute>>,
           pc' \in {"closed", "idle"}, call' = NoCall, got' = <<>>, rx' \in Seq(Byte),
           calls' = calls, faults' \in 0..MaxFaults
    PROVE  InStep'
  <1>1. InFlight' /\ AtBridge'
    BY SameFlight, SameAtBridge DEF InStep, serviceVars, deviceVars
  <1>2. pc' \notin Reads /\ pc' \in {"closed", "idle"} \cup Reads
    BY DEF Reads
  <1>3. Calling'
    BY <1>2 DEF InStep, Calling, deviceVars
  <1>4. Bytes'
    <2>1. Len(got') = CASE pc' = "header" -> 1 [] pc' = "tail" -> 3 [] OTHER -> 0
      OBVIOUS
    <2>2. got' \in Seq(Byte)
      OBVIOUS
    <2> QED BY <2>1, <2>2 DEF InStep, Bytes, deviceVars
  <1>5. Exchange'
    BY <1>2 DEF Exchange
  <1>6. Speaks'
    BY <1>2 DEF Speaks
  <1> QED BY <1>1, <1>3, <1>4, <1>5, <1>6 DEF InStep

(* How many bytes a read waits for.                                          *)
LEMMA TailLenIs ==
    ASSUME NEW x \in Byte, NEW c \in Byte
    PROVE  TailLen(x, c) \in Nat /\ TailLen(x, c) >= 1
  <1>1. PayloadLen(c) \in Nat
    <2> DEFINE z == (c \div 16) % 4
               l == c % 16
    <2>1. z \in 0..3 /\ l \in 0..15
      BY DEF Byte
    <2>2. decode(c).size = z /\ decode(c).length = l
      BY DEF decode
    <2> HIDE DEF z, l
    <2>3. get_beat_size(z) \in Nat
      <3>1. z = 0 \/ z = 1 \/ z = 2 \/ z = 3
        BY <2>1
      <3> QED BY <3>1 DEF get_beat_size
    <2>4. (l + 1) * get_beat_size(z) \in Nat
      BY <2>1, <2>3
    <2> QED BY <2>2, <2>4 DEF PayloadLen
  <1> QED BY <1>1 DEF TailLen

LEMMA WantedIs ==
    ASSUME Bytes, pc \in Reads
    PROVE  Wanted \in Nat /\ Wanted >= 1
  <1>1. CASE pc = "sof"
    BY <1>1 DEF Wanted
  <1>2. CASE pc = "header"
    BY <1>2 DEF Wanted
  <1>3. CASE pc = "tail"
    <2>1. got \in Seq(Byte) /\ Len(got) = 3
      BY <1>3 DEF Bytes
    <2>2. got[2] \in Byte /\ got[3] \in Byte
      <3>1. 2 \in 1..Len(got) /\ 3 \in 1..Len(got)
        BY <2>1
      <3> QED BY <2>1, <3>1, ElementOfSeq
    <2>3. Wanted = TailLen(got[2], got[3])
      BY <1>3 DEF Wanted
    <2> QED BY <2>2, <2>3, TailLenIs
  <1> QED BY <1>1, <1>2, <1>3 DEF Reads

LEMMA EndKeepsStep ==
    ASSUME InStep, Open \/ Close \/ (\E op \in Ops : Reject(op)) \/ TimeOut \/ Interrupt \/ ReadTail
                   \/ (ReadSof /\ pc' = "idle")
    PROVE  InStep'
  <1>1. /\ rx \in Seq(Byte) /\ got \in Seq(Byte) /\ Len(rx) \in Nat /\ faults \in 0..MaxFaults
        /\ MaxFaults \in Nat
        /\ \A k \in 0..Len(rx) : SubSeq(rx, k + 1, Len(rx)) \in Seq(Byte)
    <2>1. rx \in Seq(Byte) /\ got \in Seq(Byte) /\ Len(rx) \in Nat
      BY DEF InStep, Bytes
    <2>2. ASSUME NEW k \in 0..Len(rx)
          PROVE  SubSeq(rx, k + 1, Len(rx)) \in Seq(Byte)
      BY <2>1
    <2> QED BY <2>1, <2>2, ExchangeAssumption DEF InStep, Bytes
  <1>2. ASSUME pc \in {"closed", "idle"}
        PROVE  call = NoCall /\ got = <<>>
    <2>1. pc \notin Reads /\ pc # "header" /\ pc # "tail"
      BY <1>2 DEF Reads
    <2>2. call = NoCall /\ Len(got) = 0
      BY <2>1 DEF InStep, Calling, Bytes
    <2> QED BY <1>1, <2>2
  <1>3. CASE Open
    BY <1>1, <1>2, <1>3, HostRests DEF Open
  <1>4. CASE Close
    BY <1>1, <1>2, <1>4, HostRests DEF Close
  <1>5. CASE \E op \in Ops : Reject(op)
    BY <1>1, <1>2, <1>5, HostRests DEF Reject
  <1>6. CASE Interrupt
    <2>1. faults' \in 0..MaxFaults
      BY <1>1, <1>6 DEF Interrupt, Fault
    <2> QED BY <1>1, <1>6, <2>1, HostRests DEF Interrupt, Finish
  <1>7. CASE TimeOut
    <2>1. faults' \in 0..MaxFaults
      BY <1>1, <1>7 DEF TimeOut, Fault
    <2>2. rx' \in Seq(Byte)
      <3>1. CASE rx' = <<>>
        BY <3>1
      <3>2. CASE \E k \in 0..(Wanted - 1) : k <= Len(rx) /\ rx' = SubSeq(rx, k + 1, Len(rx))
        <4>1. PICK k \in 0..(Wanted - 1) : k <= Len(rx) /\ rx' = SubSeq(rx, k + 1, Len(rx))
          BY <3>2
        <4>2. k \in 0..Len(rx)
          BY <1>1, <4>1
        <4> QED BY <1>1, <4>1, <4>2
      <3> QED BY <1>7, <3>1, <3>2 DEF TimeOut
    <2> QED BY <1>7, <2>1, <2>2, HostRests DEF TimeOut, Finish
  <1>8. CASE ReadTail
    <2>1. rx' \in Seq(Byte)
      <3>1. rx' = SubSeq(rx, Wanted + 1, Len(rx))
        BY <1>8 DEF ReadTail, Take
      <3>2. Wanted \in Nat
        BY <1>8, WantedIs DEF InStep, ReadTail, Reads
      <3> QED BY <1>1, <3>1, <3>2
    <2> QED BY <1>1, <1>8, <2>1, HostRests DEF ReadTail, Take, Finish
  <1>9. CASE ReadSof /\ pc' = "idle"
    <2>1. Take(1) /\ Finish(Raised)
      BY <1>9 DEF ReadSof
    <2>2. rx' \in Seq(Byte)
      BY <1>1, <2>1 DEF Take
    <2> QED BY <1>1, <2>1, <2>2, HostRests DEF Take, Finish
  <1> QED BY <1>3, <1>4, <1>5, <1>6, <1>7, <1>8, <1>9

(* A read that gets its bytes and goes on moves them from rx to got.         *)
LEMMA MovedBytes ==
    ASSUME NEW s \in Seq(Byte), NEW t \in Seq(Byte), NEW n \in Nat, n <= Len(t)
    PROVE  /\ s \o SubSeq(t, 1, n) \in Seq(Byte) /\ SubSeq(t, n + 1, Len(t)) \in Seq(Byte)
           /\ Len(s \o SubSeq(t, 1, n)) = Len(s) + n
           /\ (s \o SubSeq(t, 1, n)) \o SubSeq(t, n + 1, Len(t)) = s \o t
  <1> DEFINE a == SubSeq(t, 1, n)
             b == SubSeq(t, n + 1, Len(t))
  <1>1. Len(t) \in Nat /\ Len(s) \in Nat
    BY LenProperties
  <1>2. a \in Seq(Byte) /\ Len(a) = n /\ \A i \in 1..n : a[i] = t[i]
    BY <1>1
  <1>3. b \in Seq(Byte) /\ Len(b) = Len(t) - n /\ \A i \in 1..(Len(t) - n) : b[i] = t[n + i]
    BY <1>1
  <1> HIDE DEF a, b
  <1>4. a \o b = t
    <2>1. Joins(a, b, a \o b)
      BY <1>2, <1>3, OneAfterAnother
    <2> DEFINE ab == a \o b
    <2>2. /\ ab \in Seq(Byte) /\ Len(ab) = Len(t)
          /\ (\A i \in 1..n : ab[i] = t[i]) /\ \A i \in 1..(Len(t) - n) : ab[n + i] = t[n + i]
      <3> HIDE DEF ab
      <3>1. Joins(a, b, ab)
        BY <2>1 DEF ab
      <3>2. Len(ab) = Len(t)
        BY <1>1, <1>2, <1>3, <3>1 DEF Joins
      <3> QED BY <1>1, <1>2, <1>3, <3>1, <3>2 DEF Joins
    <2> HIDE DEF ab
    <2>3. ASSUME NEW i \in 1..Len(t)
          PROVE  ab[i] = t[i]
      <3>1. CASE i <= n
        BY <2>2, <3>1
      <3>2. CASE i > n
        <4>1. i - n \in 1..(Len(t) - n) /\ n + (i - n) = i
          BY <1>1, <3>2
        <4> QED BY <2>2, <4>1
      <3> QED BY <1>1, <3>1, <3>2
    <2>4. ab = t
      BY <2>2, <2>3, SeqEqual
    <2> QED BY <2>4 DEF ab
  <1>5. s \o a \in Seq(Byte) /\ Len(s \o a) = Len(s) + n
    BY <1>1, <1>2, SMTT(60)
  <1>6. (s \o a) \o b = s \o (a \o b)
    BY <1>2, <1>3, ConcatAssociative, SMTT(60)
  <1> QED BY <1>3, <1>4, <1>5, <1>6 DEF a, b

(* A reply that nobody touches stays the reply.                              *)
LEMMA StillAnswered ==
    ASSUME Answered, call' = call, told' = told, toDevice' = toDevice, phase' = phase,
           got' \o rx' = got \o rx, faults' = faults \/ faults' # call.faults
    PROVE  Answered'
  <1>1. PICK r : /\ IsReply(r, call.op) /\ Disturbed(r, got \o rx)
                 /\ faults = call.faults => got \o rx = r
    BY DEF Answered
  <1>2. IsReply(r, call.op)'
    BY <1>1, Zenon DEF IsReply
  <1>3. Disturbed(r, got' \o rx') /\ (faults' = call'.faults => got' \o rx' = r)
    BY <1>1, Zenon
  <1>4. toDevice' = <<>> /\ phase' = "listening"
    BY DEF Answered
  <1> QED BY <1>2, <1>3, <1>4 DEF Answered

LEMMA ReadKeepsStep ==
    ASSUME InStep, NEW n \in Nat, n >= 1, n <= Len(rx), Take(n), pc \in Reads,
           got' = got \o SubSeq(rx, 1, n),
           pc' \in {"header", "tail"}, Len(got) + n = (IF pc' = "header" THEN 1 ELSE 3),
           call' = call, calls' = calls
    PROVE  InStep'
  <1>1. rx \in Seq(Byte) /\ got \in Seq(Byte) /\ rx' = SubSeq(rx, n + 1, Len(rx))
    BY DEF InStep, Bytes, Take
  <1>2. got' \in Seq(Byte) /\ rx' \in Seq(Byte) /\ Len(got') = Len(got) + n /\ got' \o rx' = got \o rx
    BY <1>1, MovedBytes
  <1>3. /\ UNCHANGED <<serviceVars, deviceVars, toDevice, alive, mute, faults>> /\ pc' \in Reads
        /\ pc' # "closed" /\ pc' # "idle"
    BY DEF Take, Reads
  <1>4. InFlight' /\ AtBridge'
    BY <1>3, SameFlight, SameAtBridge DEF InStep, serviceVars, deviceVars
  <1>5. Calling'
    BY <1>3 DEF InStep, Calling, deviceVars
  <1>6. Bytes'
    <2>1. Len(got') = CASE pc' = "header" -> 1 [] pc' = "tail" -> 3 [] OTHER -> 0
      BY <1>2
    <2> QED BY <1>2, <1>3, <2>1 DEF InStep, Bytes, deviceVars
  <1>7. Exchange'
    <2> SUFFICES ASSUME call.quiet PROVE Answered'
      BY <1>3 DEF Exchange
    <2>1. Unanswered \/ Answered
      BY DEF InStep, Exchange
    <2>2. rx # <<>>
      BY <1>1
    <2>3. Answered
      BY <2>1, <2>2 DEF Unanswered
    <2>4. call' = call /\ told' = told /\ phase' = phase /\ toDevice' = toDevice /\ faults' = faults
      BY <1>3 DEF serviceVars, deviceVars
    <2> QED BY <1>2, <2>3, <2>4, StillAnswered
  <1>8. Speaks'
    BY <1>3 DEF InStep, Speaks
  <1> QED BY <1>4, <1>5, <1>6, <1>7, <1>8 DEF InStep

LEMMA ReadsKeepStep ==
    ASSUME InStep, (ReadSof /\ pc' # "idle") \/ ReadHeader
    PROVE  InStep'
  <1>1. rx \in Seq(Byte) /\ got \in Seq(Byte) /\ Len(rx) \in Nat
    BY DEF InStep, Bytes
  <1>2. CASE ReadSof /\ pc' # "idle"
    <2>1. /\ pc = "sof" /\ Take(1) /\ pc' = "header" /\ got' = <<rx[1]>>
          /\ call' = call /\ calls' = calls
      BY <1>2 DEF ReadSof, Finish
    <2>2. Len(rx) >= 1
      BY <2>1 DEF Take
    <2>3. Len(got) = 0
      BY <2>1 DEF InStep, Bytes
    <2>4. got' = got \o SubSeq(rx, 1, 1)
      <3>1. got = <<>>
        BY <1>1, <2>3
      <3>2. SubSeq(rx, 1, 1) = <<rx[1]>>
        <4> DEFINE a == SubSeq(rx, 1, 1)
                   b == <<rx[1]>>
        <4>1. 1 \in 1..Len(rx)
          BY <1>1, <2>2
        <4>2. rx[1] \in Byte
          BY <1>1, <4>1, ElementOfSeq
        <4>3. a \in Seq(Byte) /\ Len(a) = 1 /\ a[1] = rx[1]
          BY <1>1, <4>1
        <4>4. b \in Seq(Byte) /\ Len(b) = 1 /\ b[1] = rx[1]
          BY <4>2
        <4> HIDE DEF a, b
        <4>5. \A i \in 1..Len(a) : a[i] = b[i]
          BY <4>3, <4>4
        <4>6. a = b
          BY <4>3, <4>4, <4>5, SeqEqual
        <4> QED BY <4>6 DEF a, b
      <3>3. <<>> \o SubSeq(rx, 1, 1) = SubSeq(rx, 1, 1)
        BY <1>1, <2>2
      <3> QED BY <2>1, <3>1, <3>2, <3>3
    <2>5. pc \in Reads /\ pc' \in {"header", "tail"} /\ Len(got) + 1 = (IF pc' = "header" THEN 1 ELSE 3)
      BY <2>1, <2>3 DEF Reads
    <2> QED BY <1>1, <2>1, <2>2, <2>4, <2>5, ReadKeepsStep
  <1>3. CASE ReadHeader
    <2>1. /\ pc = "header" /\ Take(2) /\ pc' = "tail" /\ got' = got \o SubSeq(rx, 1, 2)
          /\ call' = call /\ calls' = calls
      BY <1>3 DEF ReadHeader
    <2>2. Len(rx) >= 2
      BY <2>1 DEF Take
    <2>3. Len(got) = 1
      BY <2>1 DEF InStep, Bytes
    <2>4. pc \in Reads /\ pc' \in {"header", "tail"} /\ Len(got) + 2 = (IF pc' = "header" THEN 1 ELSE 3)
      BY <2>1, <2>3 DEF Reads
    <2> QED BY <1>1, <2>1, <2>2, <2>4, ReadKeepsStep, SMTT(60)
  <1> QED BY <1>2, <1>3
------------------------------------------------------------------------------
LEMMA CallKeepsStep ==
    ASSUME CrcsAgree, InStep, NEW op \in Ops, Call(op)
    PROVE  InStep'
  <1> DEFINE S == [op : Ops, bytes : Seq(Byte)]
             frame == [op |-> op, bytes |-> FrameOf(op)]
             begun == [op |-> op, quiet |-> Quiet, faults |-> faults]
  <1>1. /\ pc' = "sof" /\ got' = <<>> /\ told' = Untold /\ calls < MaxCalls /\ calls' = calls + 1
        /\ UNCHANGED <<serviceVars, regs, working, alive, mute, rx, faults>>
        /\ toDevice' = Append(toDevice, frame) /\ call' = begun
    BY DEF Call
  <1>2. Sendable(op) /\ FrameOf(op) \in Seq(Byte)
    BY SecondByte DEF Call, Sendable
  <1>3. frame \in S /\ frame.op = op /\ frame.bytes = FrameOf(op)
    BY <1>2
  <1>4. toDevice \in Seq(S) /\ Len(toDevice) \in Nat
    BY DEF InStep, InFlight
  <1>5. call'.op = op /\ call'.quiet = Quiet /\ call'.faults = faults
    BY <1>1
  <1> HIDE DEF S, frame, begun
  <1>6. /\ toDevice' \in Seq(S) /\ Len(toDevice') = Len(toDevice) + 1
        /\ \A i \in 1..Len(toDevice) : toDevice'[i] = toDevice[i]
        /\ toDevice'[Len(toDevice) + 1] = frame
    BY <1>1, <1>3, <1>4, AppendProperties
  <1>7. InFlight'
    <2>1. ASSUME NEW i \in 1..Len(toDevice')
          PROVE  Sendable(toDevice'[i].op) /\ toDevice'[i].bytes = FrameOf(toDevice'[i].op)
      <3>1. CASE i \in 1..Len(toDevice)
        BY <1>6, <3>1 DEF InStep, InFlight
      <3>2. CASE i = Len(toDevice) + 1
        BY <1>2, <1>3, <1>6, <3>2
      <3> QED BY <1>4, <1>6, <3>1, <3>2
    <2> QED BY <1>6, <2>1 DEF InFlight, S
  <1>8. AtBridge'
    BY <1>1, SameAtBridge DEF InStep, serviceVars
  <1>9. pc' \in Reads /\ faults \in 0..MaxFaults /\ MaxFaults \in Nat /\ calls \in 0..MaxCalls
        /\ MaxCalls \in Nat
    BY <1>1, ExchangeAssumption DEF InStep, Bytes, Reads
  <1>10. Calling'
    <2>1. Quiet \in BOOLEAN
      BY DEF Quiet, DeviceSilent
    <2>2. told'.ok \in BOOLEAN /\ told'.values \in Seq(Word32)
      BY <1>1 DEF Untold
    <2> QED BY <1>1, <1>2, <1>5, <1>9, <2>1, <2>2 DEF Calling
  <1>11. Bytes'
    <2>1. Len(got') = CASE pc' = "header" -> 1 [] pc' = "tail" -> 3 [] OTHER -> 0
      BY <1>1
    <2>2. got' \in Seq(Byte)
      BY <1>1
    <2> QED BY <1>1, <1>9, <2>1, <2>2 DEF InStep, Bytes
  <1>12. Exchange'
    <2> SUFFICES ASSUME Quiet PROVE Unanswered'
      BY <1>5 DEF Exchange
    <2>1. rx = <<>> /\ (~alive \/ (alive /\ phase = "listening" /\ toDevice = <<>>))
      BY DEF Quiet, DeviceSilent
    <2>2. CASE ~alive
      BY <1>1, <2>1, <2>2 DEF Unanswered, Dead
    <2>3. CASE alive /\ phase = "listening" /\ toDevice = <<>>
      <3>1. toDevice' = <<frame>>
        BY <1>1, <2>3
      <3>2. toDevice' = <<[op |-> call'.op, bytes |-> FrameOf(call'.op)]>>
        BY <1>5, <3>1 DEF frame
      <3>3. alive' /\ phase' = "listening"
        BY <1>1, <2>3 DEF serviceVars
      <3>4. Unheard'
        BY <1>1, <3>2, <3>3 DEF Unheard
      <3> QED BY <1>1, <2>1, <3>4 DEF Unanswered
    <2> QED BY <2>1, <2>2, <2>3
  <1>13. Speaks'
    BY <1>1, <1>5 DEF Speaks, Quiet
  <1> QED BY <1>7, <1>8, <1>10, <1>11, <1>12, <1>13 DEF InStep

(* What a step of the device or the line leaves of the host.                 *)
LEMMA HostWaits ==
    ASSUME InStep, UNCHANGED hostVars, faults' \in 0..MaxFaults, faults <= faults',
           told'.ok \in BOOLEAN, told'.values \in Seq(Word32),
           rx' \in Seq(Byte), regs' \in [Addresses -> Word32], alive' \in BOOLEAN,
           mute' \in BOOLEAN
    PROVE  Calling' /\ Bytes'
  <1>1. UNCHANGED <<pc, call, got, calls>>
    BY DEF hostVars
  <1>2. Calling'
    <2>1. faults \in Nat /\ faults' \in Nat
      BY ExchangeAssumption DEF InStep, Bytes
    <2>2. ASSUME pc \in Reads PROVE call.faults \in Nat /\ call.faults <= faults'
      <3>1. call.faults \in Nat /\ call.faults <= faults
        BY <2>2 DEF InStep, Calling
      <3> QED BY <2>1, <3>1
    <2> QED BY <1>1, <2>2 DEF InStep, Calling
  <1>3. Bytes'
    BY <1>1 DEF InStep, Bytes
  <1> QED BY <1>2, <1>3

(* Where a call was heard of: only one that waits for its frame's fate.      *)
LEMMA StillUnheard ==
    ASSUME InStep, pc \in Reads, call.quiet, toDevice # <<>>, alive
    PROVE  /\ Unheard /\ pc = "sof" /\ rx = <<>>
           /\ toDevice[1].op = call.op /\ Tail(toDevice) = <<>>
  <1>1. Unanswered
    BY DEF InStep, Exchange, Answered
  <1>2. Unheard /\ pc = "sof" /\ rx = <<>>
    BY <1>1 DEF Unanswered, UnderWay, Reset, CarriedOut, Dead
  <1>3. toDevice[1].op = call.op /\ Tail(toDevice) = <<>>
    BY <1>2 DEF Unheard
  <1> QED BY <1>2, <1>3

LEMMA HearFrameKeepsStep ==
    ASSUME CrcsAgree, InStep, HearFrame
    PROVE  InStep'
  <1> DEFINE op == toDevice[1].op
  <1> HIDE DEF op
  <1>1. /\ Plain(op) /\ TakesUp(op) /\ phase' = "executing" /\ job' = Heard(op)
        /\ told' = told /\ faults' = faults
    BY HearFrameAccepts DEF InStep, op
  <1>2. /\ alive /\ alive' = alive /\ toDevice # <<>> /\ toDevice' = Tail(toDevice)
        /\ working' = op /\ UNCHANGED <<hostVars, regs, mute, rx>>
    BY <1>1 DEF TakesUp
  <1>3. InFlight'
    BY <1>2, NextFlight DEF InStep
  <1>4. AtBridge'
    BY <1>1, <1>2 DEF AtBridge, Plain
  <1>5. Calling' /\ Bytes'
    <2>1. faults \in 0..MaxFaults /\ faults \in Int
      BY ExchangeAssumption DEF InStep, Bytes
    <2>2. /\ told.ok \in BOOLEAN /\ told.values \in Seq(Word32) /\ rx \in Seq(Byte)
          /\ regs \in [Addresses -> Word32] /\ alive \in BOOLEAN /\ mute \in BOOLEAN
      BY DEF InStep, Calling, Bytes
    <2> QED BY <1>1, <1>2, <2>1, <2>2, HostWaits
  <1>6. Exchange'
    <2> SUFFICES ASSUME pc \in Reads, call.quiet PROVE Unanswered'
      BY <1>2 DEF Exchange, hostVars
    <2>1. Unheard /\ pc = "sof" /\ rx = <<>> /\ op = call.op /\ Tail(toDevice) = <<>>
      BY <1>2, StillUnheard DEF op
    <2>2. UnderWay'
      BY <1>1, <1>2, <2>1 DEF UnderWay, Unheard, hostVars
    <2> QED BY <1>2, <2>1, <2>2 DEF Unanswered, hostVars
  <1>7. Speaks'
    BY <1>2 DEF InStep, Speaks, hostVars
  <1> QED BY <1>3, <1>4, <1>5, <1>6, <1>7 DEF InStep

LEMMA FaultCounts ==
    ASSUME InStep, Fault
    PROVE  /\ faults' \in 0..MaxFaults /\ faults <= faults'
           /\ pc \in Reads => faults' # call.faults
  <1>1. faults \in 0..MaxFaults /\ MaxFaults \in Nat /\ faults < MaxFaults /\ faults' = faults + 1
    BY ExchangeAssumption DEF InStep, Bytes, Fault
  <1>2. ASSUME pc \in Reads PROVE call.faults \in Nat /\ call.faults <= faults
    BY <1>2 DEF InStep, Calling
  <1>3. ASSUME pc \in Reads PROVE faults' # call.faults
    BY <1>1, <1>2, <1>3
  <1> QED BY <1>1, <1>3

LEMMA HearGarbledKeepsStep ==
    ASSUME CrcsAgree, InStep, HearGarbled
    PROVE  InStep'
  <1> DEFINE op == toDevice[1].op
  <1> HIDE DEF op
  <1>1. /\ Plain(op) /\ TakesUp(op) /\ phase' = "answering" /\ IsRefused(job', op)
        /\ outcome' = [status |-> STATUS_CRC_ERR, data |-> <<>>]
        /\ told' = Untold /\ Fault
    BY HearGarbledRefuses DEF InStep, op
  <1>2. /\ alive /\ alive' = alive /\ toDevice # <<>> /\ toDevice' = Tail(toDevice)
        /\ working' = op /\ UNCHANGED <<hostVars, regs, mute, rx>>
    BY <1>1 DEF TakesUp
  <1>3. InFlight'
    BY <1>2, NextFlight DEF InStep
  <1>4. job' \in Seq(Byte) /\ Len(job') >= 6 /\ job'[1] = Code(op)
    BY <1>1 DEF IsRefused
  <1>5. outcome'.status = STATUS_CRC_ERR /\ outcome'.data = <<>> /\ told'.ok = FALSE /\ told'.values = <<>>
    BY <1>1 DEF Untold
  <1>6. STATUS_CRC_ERR \in Status /\ STATUS_CRC_ERR # STATUS_OK
    BY DEF STATUS_CRC_ERR, STATUS_OK, Status
  <1>7. AtBridge'
    BY <1>1, <1>4, <1>5, <1>6 DEF AtBridge
  <1>8. Calling' /\ Bytes'
    <2>1. faults' \in 0..MaxFaults /\ faults <= faults'
      BY <1>1, FaultCounts
    <2>2. /\ rx \in Seq(Byte) /\ regs \in [Addresses -> Word32] /\ alive \in BOOLEAN /\ mute \in BOOLEAN
      BY DEF InStep, Bytes
    <2>3. told'.ok \in BOOLEAN /\ told'.values \in Seq(Word32)
      BY <1>1 DEF Untold
    <2> QED BY <1>2, <2>1, <2>2, <2>3, HostWaits
  <1>9. Exchange'
    <2> SUFFICES ASSUME pc \in Reads, call.quiet PROVE Unanswered'
      BY <1>2 DEF Exchange, hostVars
    <2>1. pc = "sof" /\ rx = <<>> /\ op = call.op /\ Tail(toDevice) = <<>>
      BY <1>2, StillUnheard DEF op
    <2>2. Owes(call.op)'
      <3>1. call' = call /\ op.kind # "reset"
        BY <1>1, <1>2 DEF hostVars, Plain
      <3> QED BY <1>4, <1>5, <1>6, <2>1, <3>1 DEF Owes
    <2>3. CarriedOut'
      BY <1>1, <1>2, <2>1, <2>2 DEF CarriedOut, hostVars
    <2> QED BY <1>2, <2>1, <2>3 DEF Unanswered, hostVars
  <1>10. Speaks'
    BY <1>2 DEF InStep, Speaks, hostVars
  <1> QED BY <1>3, <1>7, <1>8, <1>9, <1>10 DEF InStep

(* A byte cut short is a byte, if anything.                                  *)
LEMMA RemainsAreBytes ==
    ASSUME NEW x \in Byte, NEW rest \in Remains(x)
    PROVE  rest \in Seq(Byte)
  <1>1. CASE rest = <<>>
    BY <1>1
  <1>2. CASE \E n \in 0..8 : rest = <<(x % 2^n) + 256 - 2^n>>
    <2>1. PICK n \in 0..8 : rest = <<(x % 2^n) + 256 - 2^n>>
      BY <1>2
    <2> DEFINE y == (x % 2^n) + 256 - 2^n
               Fits(m) == (x % 2^m) + 256 - 2^m \in Byte
    <2>2. Fits(0) /\ Fits(1) /\ Fits(2) /\ Fits(3) /\ Fits(4) /\ Fits(5) /\ Fits(6) /\ Fits(7) /\ Fits(8)
      BY DEF Byte
    <2>3. y \in Byte
      <3>1. n = 0 \/ n = 1 \/ n = 2 \/ n = 3 \/ n = 4 \/ n = 5 \/ n = 6 \/ n = 7 \/ n = 8
        OBVIOUS
      <3> HIDE DEF Fits
      <3>2. Fits(n)
        BY <2>2, <3>1, Zenon
      <3> QED BY <3>2 DEF Fits
    <2>4. rest = <<y>>
      BY <2>1
    <2> HIDE DEF y
    <2> QED BY <2>3, <2>4
  <1>3. rest = <<>> \/ \E n \in 0..8 : rest = <<(x % 2^n) + 256 - 2^n>>
    BY DEF Remains
  <1> QED BY <1>1, <1>2, <1>3

LEMMA CutKeepsBytes ==
    ASSUME rx \in Seq(Byte), NEW k \in 1..Len(rx), NEW rest \in Remains(rx[k])
    PROVE  SubSeq(rx, 1, k - 1) \o rest \in Seq(Byte)
  <1>1. rx[k] \in Byte /\ Len(rx) \in Nat
    BY ElementOfSeq
  <1>2. rest \in Seq(Byte)
    BY <1>1, RemainsAreBytes
  <1>3. SubSeq(rx, 1, k - 1) \in Seq(Byte)
    BY <1>1
  <1> QED BY <1>2, <1>3

LEMMA HearResetKeepsStep ==
    ASSUME CrcsAgree, InStep, HearReset
    PROVE  InStep'
  <1>1. /\ alive /\ phase = "listening" /\ toDevice # <<>> /\ Sent[2] = CMD_RESET
        /\ toDevice' = Tail(toDevice) /\ told' = Untold
        /\ regs' = [a \in Addresses |-> IF a \in Cleared THEN 0 ELSE regs[a]]
        /\ UNCHANGED <<serviceVars, hostVars, working, alive, faults>>
    BY DEF HearReset
  <1>2. \/ UNCHANGED <<rx, mute>>
        \/ /\ mute' = TRUE
           /\ \E k \in 1..Len(rx) : \E rest \in Remains(rx[k]) :
                  rx' = SubSeq(rx, 1, k - 1) \o rest
    BY DEF HearReset
  <1>3. InFlight'
    BY <1>1, NextFlight DEF InStep
  <1>4. AtBridge'
    BY <1>1, SameAtBridge DEF InStep, serviceVars
  <1>5. /\ rx \in Seq(Byte) /\ mute \in BOOLEAN /\ regs \in [Addresses -> Word32]
        /\ alive \in BOOLEAN
    BY DEF InStep, Bytes
  <1>6. rx' \in Seq(Byte) /\ mute' \in BOOLEAN
    BY <1>2, <1>5, CutKeepsBytes
  <1>7. regs' \in [Addresses -> Word32]
    <2>1. 0 \in Word32
      BY DEF Word32, Byte
    <2>2. \A a \in Addresses : regs[a] \in Word32
      BY <1>5
    <2> QED BY <1>1, <2>1, <2>2, Zenon
  <1>8. Calling' /\ Bytes'
    <2>1. faults \in 0..MaxFaults /\ faults \in Int
      BY ExchangeAssumption DEF InStep, Bytes
    <2>2. told'.ok \in BOOLEAN /\ told'.values \in Seq(Word32)
      BY <1>1 DEF Untold
    <2> QED BY <1>1, <1>5, <1>6, <1>7, <2>1, <2>2, HostWaits
  <1>9. ASSUME pc \in Reads, call.quiet
        PROVE  /\ pc = "sof" /\ toDevice[1].op = call.op /\ Tail(toDevice) = <<>>
               /\ rx' = <<>> /\ mute' = mute
    <2>1. pc = "sof" /\ rx = <<>> /\ toDevice[1].op = call.op /\ Tail(toDevice) = <<>>
      BY <1>1, <1>9, StillUnheard
    <2>2. 1..Len(rx) = {}
      BY <2>1
    <2> QED BY <1>2, <2>1, <2>2
  <1>10. Exchange'
    <2> SUFFICES ASSUME pc \in Reads, call.quiet PROVE Unanswered'
      BY <1>1 DEF Exchange, hostVars
    <2>1. toDevice[1].op.kind = "reset"
      BY <1>1, HeadOfLine DEF InStep, Sent
    <2>2. Reset'
      BY <1>1, <1>9, <2>1 DEF Reset, hostVars, serviceVars
    <2> QED BY <1>1, <1>9, <2>2 DEF Unanswered, hostVars
  <1>11. Speaks'
    BY <1>1, <1>9 DEF InStep, Speaks, hostVars
  <1> QED BY <1>3, <1>4, <1>8, <1>10, <1>11 DEF InStep

LEMMA PerformKeepsStep ==
    ASSUME CrcsAgree, InStep, Perform
    PROVE  InStep'
  <1>1. /\ alive /\ phase = "executing" /\ phase' = "answering" /\ working' = working /\ job' = job
        /\ UNCHANGED <<hostVars, toDevice, alive, mute, rx, faults>>
    BY DEF Perform, Execute
  <1>2. Plain(working) /\ job = Heard(working)
    BY <1>1 DEF InStep, AtBridge, Plain
  <1>3. IsFrame(job, working)
    BY <1>2, PlainFrame
  <1>4. /\ regs \in [Addresses -> Word32] /\ rx \in Seq(Byte) /\ alive \in BOOLEAN /\ mute \in BOOLEAN
        /\ faults \in 0..MaxFaults /\ faults \in Int
    BY ExchangeAssumption DEF InStep, Bytes
  <1>5. Carried(working)
    BY <1>2, <1>3, <1>4, PerformCarriesOut
  <1>6. /\ regs' \in [Addresses -> Word32]
        /\ \/ told' = Untold /\ outcome'.status = STATUS_SLVERR /\ outcome'.data = <<>>
           \/ /\ working.kind = "write" /\ told' = [ok |-> TRUE, values |-> <<>>]
              /\ outcome'.status = STATUS_OK /\ outcome'.data = <<>>
           \/ /\ working.kind = "read" /\ told' = [ok |-> TRUE, values |-> Client!Found(working)]
              /\ outcome'.status = STATUS_OK /\ outcome'.data = PackAll(Client!Found(working))
              /\ outcome'.data \in Seq(Byte)
              /\ Client!Found(working) \in Seq(Word32) /\ Len(Client!Found(working)) = working.count
    BY <1>5, Zenon DEF Carried
  <1>7. STATUS_SLVERR \in Status /\ STATUS_OK \in Status /\ STATUS_SLVERR # STATUS_OK
    BY DEF STATUS_SLVERR, STATUS_OK, Status
  <1>8. /\ outcome'.status \in Status /\ outcome'.data \in Seq(Byte)
        /\ told'.ok \in BOOLEAN /\ told'.values \in Seq(Word32)
    <2>0. <<>> \in Seq(Byte) /\ <<>> \in Seq(Word32)
      OBVIOUS
    <2>1. CASE told' = Untold /\ outcome'.status = STATUS_SLVERR /\ outcome'.data = <<>>
      BY <1>7, <2>0, <2>1 DEF Untold
    <2>2. CASE /\ told' = [ok |-> TRUE, values |-> <<>>]
               /\ outcome'.status = STATUS_OK /\ outcome'.data = <<>>
      BY <1>7, <2>0, <2>2
    <2>3. CASE /\ told' = [ok |-> TRUE, values |-> Client!Found(working)]
               /\ outcome'.status = STATUS_OK /\ outcome'.data \in Seq(Byte)
               /\ Client!Found(working) \in Seq(Word32)
      BY <1>7, <2>3
    <2> QED BY <1>6, <2>1, <2>2, <2>3
  <1>9. job \in Seq(Byte) /\ Len(job) >= 6 /\ job[1] = Code(working)
    <2>1. OpFields(working) /\ working.kind \in {"read", "write"}
      BY <1>2, PlainOp
    <2>2. working.count \in Nat
      BY <2>1 DEF OpFields
    <2> QED BY <1>3, <2>2 DEF IsFrame
  <1>10. InFlight' /\ AtBridge'
    BY <1>1, <1>8, <1>9, SameFlight DEF InStep, AtBridge
  <1>11. Calling' /\ Bytes'
    BY <1>1, <1>4, <1>6, <1>8, HostWaits
  <1>12. Exchange'
    <2> SUFFICES ASSUME pc \in Reads, call.quiet PROVE Unanswered'
      BY <1>1 DEF Exchange, hostVars
    <2>1. Unanswered
      BY <1>1 DEF InStep, Exchange, Answered
    <2>2. pc = "sof" /\ rx = <<>> /\ toDevice = <<>> /\ working = call.op
      BY <1>1, <2>1 DEF Unanswered, Unheard, UnderWay, Reset, CarriedOut, Dead
    <2>3. Owes(call.op)'
      <3>1. call' = call /\ working.kind # "reset" /\ job'[1] = Code(working)
        BY <1>1, <1>2, <1>9 DEF hostVars, Plain
      <3>2. outcome'.status = STATUS_OK <=> told'.ok
        BY <1>6, <1>7 DEF Untold
      <3>3. told'.ok /\ working.kind = "write" => told'.values = <<>>
        BY <1>6 DEF Untold
      <3>4. told'.ok /\ working.kind = "read" => /\ Len(told'.values) = working.count
                                                 /\ outcome'.data = PackAll(told'.values)
        BY <1>6 DEF Untold
      <3> QED BY <2>2, <3>1, <3>2, <3>3, <3>4 DEF Owes
    <2>4. CarriedOut'
      BY <1>1, <2>2, <2>3 DEF CarriedOut, hostVars
    <2> QED BY <1>1, <2>2, <2>4 DEF Unanswered, hostVars
  <1>13. Speaks'
    BY <1>1 DEF InStep, Speaks, hostVars
  <1> QED BY <1>10, <1>11, <1>12, <1>13 DEF InStep

(* The reply goes out, as it is or with one byte of it changed.              *)
LEMMA RespondKeepsStep ==
    ASSUME CrcsAgree, InStep, NEW wire, wire \in Seq(Byte), phase = "answering", Respond(wire),
           Disturbed(ReplyBytes, wire), faults' \in 0..MaxFaults, faults <= faults',
           pc \in Reads /\ faults' = call.faults => wire = ReplyBytes
    PROVE  InStep'
  <1>1. /\ alive /\ phase' = "listening" /\ rx' = (IF mute THEN rx ELSE rx \o wire)
        /\ UNCHANGED <<hostVars, regs, toDevice, alive, mute, told>>
    BY DEF Respond, Answer
  <1>2. Answerable
    BY DEF InStep, AtBridge, Answerable
  <1>3. InFlight' /\ AtBridge'
    BY <1>1, SameFlight DEF InStep, AtBridge
  <1>4. Calling' /\ Bytes'
    <2>1. /\ told.ok \in BOOLEAN /\ told.values \in Seq(Word32) /\ rx \in Seq(Byte)
          /\ regs \in [Addresses -> Word32] /\ alive \in BOOLEAN /\ mute \in BOOLEAN
      BY DEF InStep, Calling, Bytes
    <2>2. rx' \in Seq(Byte)
      <3>1. rx \o wire \in Seq(Byte)
        BY <2>1
      <3> QED BY <1>1, <2>1, <3>1
    <2> QED BY <1>1, <2>1, <2>2, HostWaits
  <1>5. Exchange'
    <2> SUFFICES ASSUME pc \in Reads, call.quiet PROVE Answered'
      BY <1>1 DEF Exchange, hostVars
    <2>1. Unanswered
      BY DEF InStep, Exchange, Answered
    <2>2. pc = "sof" /\ rx = <<>> /\ toDevice = <<>> /\ Owes(call.op)
      BY <1>1, <2>1 DEF Unanswered, Unheard, UnderWay, Reset, CarriedOut, Dead
    <2>3. got = <<>>
      <3>1. got \in Seq(Byte) /\ Len(got) = 0
        BY <2>2 DEF InStep, Bytes
      <3> QED BY <3>1
    <2>4. Plain(call.op) /\ told.values \in Seq(Word32)
      BY <2>2 DEF InStep, Calling, Owes, Plain
    <2>5. PICK r : /\ IsReply(r, call.op) /\ Disturbed(r, wire)
                   /\ faults' = call.faults => wire = r
      <3>1. IsReply(ReplyBytes, call.op)
        BY <1>2, <2>2, <2>4, ReplyTells
      <3> QED BY <3>1, Zenon
    <2>6. IsReply(r, call.op)'
      <3>1. told' = told /\ call' = call
        BY <1>1 DEF hostVars
      <3> QED BY <2>5, <3>1, Zenon DEF IsReply
    <2>7. got' \o rx' = wire
      <3>1. got' = <<>> /\ rx' = <<>> \o wire
        <4>1. ~mute
          BY DEF InStep, Speaks
        <4> QED BY <1>1, <2>2, <2>3, <4>1 DEF hostVars
      <3>2. <<>> \o wire = wire
        OBVIOUS
      <3> QED BY <3>1, <3>2
    <2>8. Disturbed(r, got' \o rx') /\ (faults' = call'.faults => got' \o rx' = r)
      <3>1. call' = call
        BY <1>1 DEF hostVars
      <3> QED BY <2>5, <2>7, <3>1, Zenon
    <2>9. toDevice' = <<>> /\ phase' = "listening"
      BY <1>1, <2>2
    <2> QED BY <2>6, <2>8, <2>9 DEF Answered
  <1>6. Speaks'
    BY <1>1 DEF InStep, Speaks, hostVars
  <1> QED BY <1>3, <1>4, <1>5, <1>6 DEF InStep
------------------------------------------------------------------------------
LEMMA RepliesKeepStep ==
    ASSUME CrcsAgree, InStep, RespondClean \/ RespondGarbled
    PROVE  InStep'
  <1>1. phase = "answering"
    BY DEF RespondClean, RespondGarbled
  <1>2. ReplyBytes \in Seq(Byte)
    <2>1. Answerable
      BY <1>1 DEF InStep, AtBridge, Answerable
    <2> QED BY <2>1, ReplyIsFramed DEF Framed
  <1>3. CASE RespondClean
    <2>1. Respond(ReplyBytes) /\ faults' = faults
      BY <1>3 DEF RespondClean
    <2>2. faults' \in 0..MaxFaults /\ faults <= faults'
      <3>1. faults \in 0..MaxFaults /\ faults \in Int
        BY ExchangeAssumption DEF InStep, Bytes
      <3> QED BY <2>1, <3>1
    <2>3. Disturbed(ReplyBytes, ReplyBytes)
      BY Zenon DEF Disturbed
    <2> QED BY <1>1, <1>2, <2>1, <2>2, <2>3, RespondKeepsStep
  <1>4. CASE RespondGarbled
    <2> DEFINE r == ReplyBytes
    <2>1. PICK i \in DOMAIN r, b \in NoiseBytes : b # r[i] /\ Respond([r EXCEPT ![i] = b])
      BY <1>4 DEF RespondGarbled
    <2>2. Fault
      BY <1>4 DEF RespondGarbled
    <2> DEFINE wire == [r EXCEPT ![i] = b]
    <2>3. r \in Seq(Byte)
      BY <1>2
    <2> HIDE DEF r
    <2>4. b \in Byte /\ i \in 1..Len(r)
      BY <2>1, <2>3, ExchangeAssumption
    <2>5. wire \in Seq(Byte) /\ Disturbed(r, wire)
      <3>1. wire \in Seq(Byte)
        BY <2>3, <2>4
      <3>2. Disturbed(r, wire)
        BY <2>1, <2>4, Zenon DEF Disturbed
      <3> QED BY <3>1, <3>2
    <2>6. Respond(wire)
      BY <2>1
    <2> HIDE DEF wire
    <2>7. /\ faults' \in 0..MaxFaults /\ faults <= faults'
          /\ pc \in Reads => faults' # call.faults
      BY <2>2, FaultCounts
    <2>8. Disturbed(ReplyBytes, wire)
      BY <2>5 DEF r
    <2> QED BY <1>1, <2>5, <2>6, <2>7, <2>8, RespondKeepsStep
  <1> QED BY <1>3, <1>4

LEMMA PowerCutKeepsStep ==
    ASSUME InStep, PowerCut
    PROVE  InStep'
  <1>1. /\ alive' = FALSE /\ Fault
        /\ UNCHANGED <<serviceVars, hostVars, deviceVars, toDevice, mute, rx>>
    BY DEF PowerCut
  <1>2. InFlight' /\ AtBridge'
    BY <1>1, SameFlight, SameAtBridge DEF InStep, serviceVars, deviceVars
  <1>3. /\ faults' \in 0..MaxFaults /\ faults <= faults'
        /\ pc \in Reads => faults' # call.faults
    BY <1>1, FaultCounts
  <1>4. Calling' /\ Bytes'
    <2>1. /\ told.ok \in BOOLEAN /\ told.values \in Seq(Word32) /\ rx \in Seq(Byte)
          /\ regs \in [Addresses -> Word32] /\ mute \in BOOLEAN
      BY DEF InStep, Calling, Bytes
    <2>2. alive' \in BOOLEAN /\ regs' = regs /\ told' = told
      BY <1>1 DEF deviceVars
    <2> QED BY <1>1, <1>3, <2>1, <2>2, HostWaits
  <1>5. Exchange'
    <2> SUFFICES ASSUME pc \in Reads, call.quiet PROVE Unanswered' \/ Answered'
      BY <1>1 DEF Exchange, hostVars
    <2>0. /\ call' = call /\ pc' = pc /\ got' = got /\ told' = told /\ phase' = phase
      BY <1>1 DEF hostVars, serviceVars, deviceVars
    <2>1. CASE Unanswered
      <3>1. Dead'
        BY <1>1, <1>3, <2>0 DEF Dead
      <3>2. pc' = "sof" /\ rx' = <<>>
        BY <1>1, <2>0, <2>1 DEF Unanswered
      <3> QED BY <3>1, <3>2 DEF Unanswered
    <2>2. CASE Answered
      <3>1. rx' = rx /\ toDevice' = toDevice
        BY <1>1
      <3> QED BY <1>3, <2>0, <2>2, <3>1, StillAnswered
    <2> QED BY <2>1, <2>2 DEF InStep, Exchange
  <1>6. Speaks'
    BY <1>1 DEF InStep, Speaks, hostVars
  <1> QED BY <1>2, <1>4, <1>5, <1>6 DEF InStep

LEMMA InitInStep == ASSUME Init PROVE InStep
  <1>1. InFlight
    BY DEF Init, InFlight
  <1>2. AtBridge
    BY DEF Init, ServiceInit, AtBridge
  <1>3. Calling
    BY DEF Init, Calling, Reads, Untold
  <1>4. Bytes
    <2>1. Len(got) = CASE pc = "header" -> 1 [] pc = "tail" -> 3 [] OTHER -> 0
      BY DEF Init
    <2>2. /\ regs \in [Addresses -> Word32] /\ alive \in BOOLEAN /\ mute \in BOOLEAN
          /\ calls \in 0..MaxCalls /\ faults \in 0..MaxFaults
      <3>1. InitialRegs \in [Addresses -> Word32] /\ MaxCalls \in Nat /\ MaxFaults \in Nat
        BY ExchangeAssumption
      <3>2. regs = InitialRegs /\ alive = TRUE /\ mute = FALSE /\ calls = 0 /\ faults = 0
        BY DEF Init
      <3>3. regs \in [Addresses -> Word32] /\ alive \in BOOLEAN /\ mute \in BOOLEAN
        BY <3>1, <3>2, Zenon
      <3> QED BY <3>1, <3>2, <3>3
    <2>3. rx \in Seq(Byte) /\ got \in Seq(Byte)
      BY DEF Init
    <2> QED BY <2>1, <2>2, <2>3 DEF Bytes
  <1>5. Exchange
    BY DEF Init, Exchange, Reads
  <1>6. Speaks
    BY DEF Init, Speaks
  <1> QED BY <1>1, <1>2, <1>3, <1>4, <1>5, <1>6 DEF InStep

LEMMA StutterKeepsStep == ASSUME InStep, UNCHANGED vars PROVE InStep'
  <1>1. /\ UNCHANGED <<phase, job, outcome, pc, call, got, calls, regs, working, told, toDevice>>
        /\ UNCHANGED <<alive, mute, rx, faults>>
    BY DEF vars, serviceVars, hostVars, deviceVars
  <1>2. InFlight' /\ AtBridge'
    BY <1>1, SameFlight, SameAtBridge DEF InStep
  <1>3. Calling' /\ Bytes'
    BY <1>1 DEF InStep, Calling, Bytes
  <1>4. Exchange'
    <2>1. Exchange
      BY DEF InStep
    <2>2. Unanswered => Unanswered'
      BY <1>1 DEF Unanswered, Unheard, UnderWay, Reset, CarriedOut, Dead, Owes
    <2>3. Answered => Answered'
      BY <1>1, StillAnswered
    <2> QED BY <1>1, <2>1, <2>2, <2>3 DEF Exchange
  <1>5. Speaks'
    BY <1>1 DEF InStep, Speaks
  <1> QED BY <1>2, <1>3, <1>4, <1>5 DEF InStep

LEMMA NextKeepsStep ==
    ASSUME CrcsAgree, InStep, Next
    PROVE  InStep'
  <1>1. CASE \E op \in Ops : Call(op)
    BY <1>1, CallKeepsStep
  <1>2. CASE ReadSof \/ ReadHeader
    <2>1. pc' = "idle" \/ pc' # "idle"
      OBVIOUS
    <2> QED BY <1>2, <2>1, EndKeepsStep, ReadsKeepStep
  <1>3. CASE Open \/ Close \/ (\E op \in Ops : Reject(op)) \/ ReadTail \/ TimeOut \/ Interrupt
    BY <1>3, EndKeepsStep
  <1>4. CASE HearFrame
    BY <1>4, HearFrameKeepsStep
  <1>5. CASE HearReset
    BY <1>5, HearResetKeepsStep
  <1>6. CASE Perform
    BY <1>6, PerformKeepsStep
  <1>7. CASE RespondClean \/ RespondGarbled
    BY <1>7, RepliesKeepStep
  <1>8. CASE HearGarbled
    BY <1>8, HearGarbledKeepsStep
  <1>9. CASE PowerCut
    BY <1>9, PowerCutKeepsStep
  <1> QED BY <1>1, <1>2, <1>3, <1>4, <1>5, <1>6, <1>7, <1>8, <1>9 DEF Next, Host, Device, Line

(* At every moment of a call that found the line quiet, its frame is on the   *)
(* way, at the bridge, carried out, or answered with the one reply that says *)
(* what became of it, and nothing else is under way.                         *)
THEOREM StaysInStep == ASSUME CrcsAgree PROVE Spec => []InStep
  <1>1. Init => InStep
    BY InitInStep
  <1>2. InStep /\ [Next]_vars => InStep'
    BY NextKeepsStep, StutterKeepsStep
  <1> QED BY <1>1, <1>2, PTL DEF Spec

(* The state of the driver and of the bridge is well formed, and the driver *)
(* has as many bytes of the response in hand as the read it is blocked in   *)
(* presumes (AXIUARTDriver._receive_response).                              *)
THEOREM ExchangeIsTypeCorrect == ASSUME CrcsAgree PROVE Spec => []ExchangeTypeOK
  <1>1. InStep => ExchangeTypeOK
    <2> SUFFICES ASSUME InStep PROVE ExchangeTypeOK
      OBVIOUS
    <2>1. call = NoCall <=> pc \notin Reads
      <3>1. ASSUME pc \in Reads PROVE call # NoCall
        <4>1. call.op \in Ops
          BY <3>1 DEF InStep, Calling, Sendable
        <4>2. NoCall.op \notin Ops
          BY ExchangeAssumption DEF NoCall
        <4> QED BY <4>1, <4>2
      <3> QED BY <3>1 DEF InStep, Calling
    <2> QED BY <2>1 DEF InStep, Calling, Bytes, ExchangeTypeOK
  <1> QED BY <1>1, StaysInStep, PTL

(* protocol.py and the RTL agree about every frame there is: the bridge      *)
(* refuses what the driver built only if the line changed a byte of it.      *)
THEOREM DriverFramesAccepted == ASSUME CrcsAgree PROVE Spec => HostFramesAccepted
  <1>1. InStep /\ [Next]_vars => [phase = "listening" /\ phase' = "answering" => faults' # faults]_vars
    BY OnlyNoiseIsRefused
  <1> QED BY <1>1, StaysInStep, PTL DEF Spec, HostFramesAccepted
------------------------------------------------------------------------------
(* Of an undisturbed reply every read gets all it waits for, and the last    *)
(* one gets the rest.                                                        *)
LEMMA ReplyIsRead ==
    ASSUME InStep, pc \in Reads, Answered, faults = call.faults
    PROVE  /\ Plain(call.op) /\ IsReply(got \o rx, call.op)
           /\ Len(rx) >= Wanted
           /\ pc = "sof" => rx[1] = SOF_FROM_DEVICE
           /\ pc = "tail" => Len(rx) = Wanted
  <1>1. IsReply(got \o rx, call.op)
    <2>1. PICK r : IsReply(r, call.op) /\ got \o rx = r
      BY DEF Answered
    <2> QED BY <2>1
  <1>2. Plain(call.op)
    BY <1>1 DEF InStep, Calling, Plain, IsReply
  <1> DEFINE r == got \o rx
  <1>3. got \in Seq(Byte) /\ rx \in Seq(Byte)
        /\ Len(got) = CASE pc = "header" -> 1 [] pc = "tail" -> 3 [] OTHER -> 0
    BY DEF InStep, Bytes
  <1>4. Joins(got, rx, r)
    BY <1>3, OneAfterAnother
  <1>5. Len(r) >= 4 /\ Len(r) = 3 + TailLen(r[2], r[3]) /\ r[1] = SOF_FROM_DEVICE
    <2>1. r[1] = SOF_FROM_DEVICE
      BY <1>1 DEF IsReply
    <2> QED BY <1>1, <1>2, <2>1, ReplyLength
  <1> HIDE DEF r
  <1>6. Len(got) \in Nat /\ Len(rx) \in Nat /\ Len(r) = Len(got) + Len(rx)
    BY <1>4 DEF Joins
  <1>7. CASE pc = "sof"
    <2>1. Len(got) = 0 /\ Wanted = 1
      BY <1>3, <1>7 DEF Wanted
    <2>2. 1 \in 1..Len(rx) /\ Len(got) + 1 = 1
      BY <1>5, <1>6, <2>1
    <2>3. r[1] = rx[1]
      BY <1>4, <2>2 DEF Joins
    <2>4. Len(rx) >= Wanted
      BY <1>5, <1>6, <2>1
    <2> QED BY <1>1, <1>2, <1>5, <1>7, <2>3, <2>4
  <1>8. CASE pc = "header"
    <2>1. Len(got) = 1 /\ Wanted = 2
      BY <1>3, <1>8 DEF Wanted
    <2>2. Len(rx) >= Wanted
      BY <1>5, <1>6, <2>1
    <2> QED BY <1>1, <1>2, <1>8, <2>2
  <1>9. CASE pc = "tail"
    <2>1. Len(got) = 3 /\ Wanted = TailLen(got[2], got[3])
      BY <1>3, <1>9 DEF Wanted
    <2>2. 2 \in 1..Len(got) /\ 3 \in 1..Len(got)
      BY <2>1
    <2>3. r[2] = got[2] /\ r[3] = got[3]
      BY <1>4, <2>2 DEF Joins
    <2>4. Len(r) = 3 + Wanted
      BY <1>5, <2>1, <2>3
    <2> DEFINE n == Wanted
    <2>5. n \in Nat
      BY WantedIs DEF InStep
    <2>6. Len(r) = 3 + n
      BY <2>4
    <2> HIDE DEF n
    <2>7. Len(rx) = n
      BY <1>6, <2>1, <2>5, <2>6
    <2>8. Len(rx) = Wanted /\ Len(rx) >= Wanted
      BY <1>6, <2>7 DEF n
    <2> QED BY <1>1, <1>2, <1>9, <2>8
  <1> QED BY <1>7, <1>8, <1>9 DEF Reads

(* How a call returns.                                                       *)
LEMMA WaysToReturn ==
    ASSUME InStep, Next, CallReturns, faults' = call.faults
    PROVE  /\ faults = call.faults /\ UNCHANGED <<serviceVars, deviceVars, toDevice, alive, mute>>
           /\ \/ pc = "sof" /\ Take(1) /\ rx[1] # SOF_FROM_DEVICE
              \/ ReadTail
              \/ DeviceSilent /\ Len(rx) < Wanted /\ rx' = <<>> /\ result' = Raised
  <1>1. pc \in Reads /\ pc' = "idle" /\ pc # "idle" /\ pc # "closed"
    BY DEF CallReturns, Reads
  <1>2. ~Fault
    <2> SUFFICES ASSUME Fault PROVE FALSE
      OBVIOUS
    <2> QED BY <1>1, FaultCounts
  <1>3. CASE ReadSof
    BY <1>1, <1>3 DEF ReadSof, Take
  <1>4. CASE ReadTail
    BY <1>4 DEF ReadTail, Take
  <1>5. CASE TimeOut
    BY <1>2, <1>5 DEF TimeOut, Finish
  <1>6. ~(Open \/ Close \/ (\E op \in Ops : Call(op) \/ Reject(op)) \/ ReadHeader \/ Interrupt)
    BY <1>1, <1>2 DEF Open, Close, Call, Reject, ReadHeader, Interrupt
  <1>7. ~(Device \/ Line)
    <2>1. Device \/ Line => UNCHANGED hostVars
      BY DEF Device, Line, HearFrame, HearGarbled, Hear, HearReset, Perform, RespondClean,
             RespondGarbled, Respond, PowerCut
    <2> QED BY <1>1, <2>1 DEF hostVars
  <1> QED BY <1>3, <1>4, <1>5, <1>6, <1>7 DEF Next, Host

LEMMA UndisturbedEndsTruly ==
    ASSUME CrcsAgree, InStep, Next, CallReturns, call.quiet, faults' = call.faults
    PROVE  EndsTruly
  <1>1. /\ faults = call.faults /\ UNCHANGED <<serviceVars, deviceVars, toDevice, alive, mute>>
        /\ \/ pc = "sof" /\ Take(1) /\ rx[1] # SOF_FROM_DEVICE
           \/ ReadTail
           \/ DeviceSilent /\ Len(rx) < Wanted /\ rx' = <<>> /\ result' = Raised
    BY WaysToReturn
  <1>2. pc \in Reads /\ (Unanswered \/ Answered) /\ ~mute
    BY DEF CallReturns, InStep, Exchange, Speaks
  <1>3. rx \in Seq(Byte) /\ Len(rx) \in Nat /\ got \in Seq(Byte)
    BY DEF InStep, Bytes
  <1>4. Wanted \in Nat /\ Wanted >= 1
    BY <1>2, WantedIs DEF InStep
  <1>5. CASE Unanswered
    <2>1. rx = <<>> /\ pc = "sof"
      BY <1>5 DEF Unanswered
    <2>2. DeviceSilent /\ rx' = <<>> /\ result' = Raised
      <3>1. ~Take(1)
        BY <2>1 DEF Take
      <3>2. ~ReadTail
        BY <2>1 DEF ReadTail
      <3> QED BY <1>1, <3>1, <3>2
    <2>3. told = Untold
      BY <1>1, <1>2, <1>5, <2>2 DEF Unanswered, Unheard, UnderWay, Reset, CarriedOut, Dead, DeviceSilent
    <2>4. Quiet'
      BY <1>1, <1>2, <2>2 DEF Quiet, DeviceSilent, serviceVars
    <2>5. ~(result'.how = "ok") /\ ~told.ok
      BY <2>2, <2>3 DEF Raised, Ended, Untold
    <2> QED BY <2>4, <2>5 DEF EndsTruly
  <1>6. CASE Answered
    <2>1. /\ Plain(call.op) /\ IsReply(got \o rx, call.op) /\ Len(rx) >= Wanted
          /\ pc = "sof" => rx[1] = SOF_FROM_DEVICE
          /\ pc = "tail" => Len(rx) = Wanted
      BY <1>1, <1>2, <1>6, ReplyIsRead
    <2>2. ReadTail
      <3>1. ~(Len(rx) < Wanted)
        BY <1>3, <1>4, <2>1
      <3> QED BY <1>1, <2>1, <3>1
    <2>3. pc = "tail" /\ Take(Wanted) /\ Finish(Verdict(call.op, got \o SubSeq(rx, 1, Wanted)))
      BY <2>2 DEF ReadTail
    <2>4. SubSeq(rx, 1, Wanted) = rx /\ rx' = <<>>
      <3>1. Wanted = Len(rx)
        BY <2>1, <2>3
      <3>2. SubSeq(rx, 1, Len(rx)) = rx
        BY <1>3, Zenon, SubSeqFull
      <3>3. SubSeq(rx, Len(rx) + 1, Len(rx)) = <<>>
        BY <1>3
      <3> QED BY <2>3, <3>1, <3>2, <3>3 DEF Take
    <2>5. result' = Verdict(call.op, got \o rx)
      BY <2>3, <2>4 DEF Finish
    <2>6. result'.how = "ok" <=> told.ok
      BY <2>1, <2>5, CleanVerdict
    <2>7. Quiet'
      BY <1>1, <1>2, <1>6, <2>4 DEF Quiet, DeviceSilent, Answered, serviceVars
    <2> QED BY <2>6, <2>7 DEF EndsTruly
  <1> QED BY <1>2, <1>5, <1>6

(* A call that found the line quiet, and a bridge no RESET had made mute,    *)
(* and was left alone returns normally exactly when the device reported it   *)
(* done, and leaves the line quiet and the bridge speaking behind it,        *)
(* whichever of write_reg32, read_burst and the rest it was: no byte of its  *)
(* reply is left for _receive_response to take for the next one's.           *)
THEOREM QuietCallsStayInStep == ASSUME CrcsAgree PROVE Spec => CallsStayInStep
  <1>1. InStep /\ [Next]_vars
          => [CallReturns /\ call.quiet /\ faults' = call.faults => EndsTruly]_vars
    BY UndisturbedEndsTruly
  <1> QED BY <1>1, StaysInStep, PTL DEF Spec, CallsStayInStep
------------------------------------------------------------------------------
(* What RegisterClient sees of the exchange.                                 *)
OpsOf(line) == [i \in DOMAIN line |-> line[i].op]
Waits   == (IF phase = "executing" THEN <<working>> ELSE <<>>) \o OpsOf(toDevice)
Trusted == IF call = NoCall THEN Quiet ELSE call.quiet

LEMMA OpsAre ==
    ASSUME NEW line \in Seq([op : Ops, bytes : Seq(Byte)])
    PROVE  /\ OpsOf(line) \in Seq(Ops) /\ Len(line) \in Nat /\ Len(OpsOf(line)) = Len(line)
           /\ \A i \in 1..Len(line) : OpsOf(line)[i] = line[i].op
  <1>1. Len(line) \in Nat /\ DOMAIN line = 1..Len(line)
    OBVIOUS
  <1>2. ASSUME NEW i \in 1..Len(line) PROVE line[i].op \in Ops
    <2>1. line[i] \in [op : Ops, bytes : Seq(Byte)]
      BY ElementOfSeq
    <2> QED BY <2>1
  <1>3. OpsOf(line) = [i \in 1..Len(line) |-> line[i].op]
    BY <1>1 DEF OpsOf
  <1>4. /\ OpsOf(line) \in Seq(Ops)
    BY <1>1, <1>2, <1>3, IsASeq
  <1>5. DOMAIN OpsOf(line) = 1..Len(line)
    BY <1>3
  <1>6. Len(OpsOf(line)) = Len(line)
    BY <1>1, <1>4, <1>5, LenProperties
  <1>7. \A i \in 1..Len(line) : OpsOf(line)[i] = line[i].op
    BY <1>3
  <1> QED BY <1>1, <1>4, <1>6, <1>7

LEMMA OpsOfTail ==
    ASSUME NEW line \in Seq([op : Ops, bytes : Seq(Byte)]), line # <<>>
    PROVE  /\ OpsOf(line) = <<line[1].op>> \o OpsOf(Tail(line))
           /\ Tail(OpsOf(line)) = OpsOf(Tail(line))
           /\ OpsOf(line) # <<>> /\ Head(OpsOf(line)) = line[1].op
           /\ OpsOf(Tail(line)) \in Seq(Ops) /\ line[1].op \in Ops
  <1> DEFINE S == [op : Ops, bytes : Seq(Byte)]
             rest == Tail(line)
             all == OpsOf(line)
             less == OpsOf(rest)
             x == line[1].op
  <1>1. /\ line \in Seq(S) /\ Len(line) \in Nat /\ Len(line) >= 1
        /\ rest \in Seq(S) /\ Len(rest) = Len(line) - 1
        /\ \A i \in 1..Len(rest) : rest[i] = line[i + 1]
    OBVIOUS
  <1>2. /\ all \in Seq(Ops) /\ Len(all) = Len(line) /\ \A i \in 1..Len(line) : all[i] = line[i].op
    BY OpsAre
  <1>3. /\ less \in Seq(Ops) /\ Len(less) = Len(rest) /\ \A i \in 1..Len(rest) : less[i] = rest[i].op
    BY <1>1, OpsAre
  <1>4. x \in Ops /\ all[1] = x
    <2>1. 1 \in 1..Len(line)
      BY <1>1
    <2>2. all[1] = x
      BY <1>2, <2>1
    <2>3. 1 \in 1..Len(all)
      BY <1>2, <2>1
    <2> QED BY <1>2, <2>2, <2>3, ElementOfSeq
  <1> HIDE DEF S, rest, all, less, x
  <1>5. \A i \in 1..Len(less) : less[i] = all[i + 1]
    <2> SUFFICES ASSUME NEW i \in 1..Len(less) PROVE less[i] = all[i + 1]
      OBVIOUS
    <2>1. i \in 1..Len(rest) /\ i + 1 \in 1..Len(line)
      BY <1>1, <1>3
    <2>2. less[i] = rest[i].op /\ rest[i] = line[i + 1] /\ all[i + 1] = line[i + 1].op
      BY <1>1, <1>2, <1>3, <2>1
    <2> QED BY <2>2
  <1>6. all # <<>> /\ Head(all) = x
    BY <1>1, <1>2, <1>4
  <1>7. /\ Tail(all) \in Seq(Ops) /\ Len(Tail(all)) = Len(all) - 1
        /\ \A i \in 1..Len(Tail(all)) : Tail(all)[i] = all[i + 1]
    BY <1>2, <1>6
  <1>8. Tail(all) = less
    <2> DEFINE t == Tail(all)
    <2>1. t \in Seq(Ops) /\ Len(t) = Len(less) /\ Len(t) \in Nat
      BY <1>1, <1>2, <1>3, <1>7
    <2>2. \A i \in 1..Len(t) : t[i] = less[i]
      <3> HIDE DEF t
      <3>1. \A i \in 1..Len(t) : t[i] = all[i + 1]
        BY <1>7 DEF t
      <3> QED BY <1>5, <2>1, <3>1
    <2> HIDE DEF t
    <2>3. t = less
      BY <1>3, <2>1, <2>2, SeqEqual, SMTT(60)
    <2> QED BY <2>3 DEF t
  <1>9. all = <<x>> \o less
    <2>1. all = <<Head(all)>> \o Tail(all)
      BY <1>2, <1>6
    <2> QED BY <1>6, <1>8, <2>1
  <1> QED BY <1>3, <1>4, <1>6, <1>8, <1>9 DEF rest, all, less, x

LEMMA OpsOfAppend ==
    ASSUME NEW line \in Seq([op : Ops, bytes : Seq(Byte)]), NEW x \in [op : Ops, bytes : Seq(Byte)],
           NEW s \in Seq(Ops)
    PROVE  s \o OpsOf(Append(line, x)) = Append(s \o OpsOf(line), x.op)
  <1> DEFINE S == [op : Ops, bytes : Seq(Byte)]
             more == Append(line, x)
             a == OpsOf(line)
             b == OpsOf(more)
             y == x.op
  <1>1. /\ more \in Seq(S) /\ Len(more) = Len(line) + 1 /\ more[Len(line) + 1] = x
        /\ \A i \in 1..Len(line) : more[i] = line[i]
    BY AppendProperties
  <1>2. a \in Seq(Ops) /\ Len(line) \in Nat /\ Len(a) = Len(line) /\ \A i \in 1..Len(line) : a[i] = line[i].op
    BY OpsAre
  <1>3. b \in Seq(Ops) /\ Len(b) = Len(more) /\ \A i \in 1..Len(more) : b[i] = more[i].op
    BY <1>1, OpsAre
  <1>4. y \in Ops
    OBVIOUS
  <1> HIDE DEF S, more, a, b, y
  <1>5. /\ Append(a, y) \in Seq(Ops) /\ Len(Append(a, y)) = Len(a) + 1 /\ Append(a, y)[Len(a) + 1] = y
        /\ \A i \in 1..Len(a) : Append(a, y)[i] = a[i]
    BY <1>2, <1>4, AppendProperties
  <1> DEFINE c == Append(a, y)
  <1> HIDE DEF c
  <1>6. c \in Seq(Ops) /\ Len(c) = Len(a) + 1 /\ c[Len(a) + 1] = y /\ \A i \in 1..Len(a) : c[i] = a[i]
    BY <1>5 DEF c
  <1>7. ASSUME NEW i \in 1..Len(b) PROVE b[i] = c[i]
    <2>1. i \in 1..Len(more) /\ (i \in 1..Len(line) \/ i = Len(line) + 1)
      BY <1>1, <1>2, <1>3
    <2>2. CASE i \in 1..Len(line)
      <3>1. b[i] = more[i].op /\ more[i] = line[i] /\ a[i] = line[i].op /\ i \in 1..Len(a)
        BY <1>1, <1>2, <1>3, <2>1, <2>2
      <3> QED BY <1>6, <3>1
    <2>3. CASE i = Len(line) + 1
      <3>1. b[i] = more[i].op /\ more[i] = x /\ c[i] = y
        BY <1>1, <1>2, <1>3, <1>6, <2>1, <2>3
      <3> QED BY <3>1 DEF y
    <2> QED BY <2>1, <2>2, <2>3
  <1>8. b = c
    BY <1>1, <1>2, <1>3, <1>6, <1>7, SeqEqual
  <1>9. s \o Append(a, y) = Append(s \o a, y)
    BY <1>2, <1>4
  <1> QED BY <1>8, <1>9 DEF more, a, b, c, y

(* The line as RegisterClient sees it, step by step.                         *)
LEMMA WaitsSame ==
    ASSUME toDevice' = toDevice, phase' = "executing" <=> phase = "executing",
           phase = "executing" => working' = working
    PROVE  Waits' = Waits
  <1>1. CASE phase = "executing"
    BY <1>1 DEF Waits
  <1>2. CASE phase # "executing"
    BY <1>2 DEF Waits
  <1> QED BY <1>1, <1>2

LEMMA WaitsShorter ==
    ASSUME InFlight, toDevice # <<>>, toDevice' = Tail(toDevice), phase = "listening"
    PROVE  /\ Waits # <<>> /\ Head(Waits) = toDevice[1].op
           /\ phase' # "executing" => Waits' = Tail(Waits)
           /\ phase' = "executing" /\ working' = toDevice[1].op => Waits' = Waits
  <1> DEFINE a == OpsOf(toDevice)
             b == OpsOf(Tail(toDevice))
  <1>1. /\ a = <<toDevice[1].op>> \o b /\ Tail(a) = b /\ a # <<>> /\ Head(a) = toDevice[1].op
        /\ a \in Seq(Ops) /\ b \in Seq(Ops)
    BY OpsOfTail, OpsAre DEF InFlight
  <1>2. a' = b
    BY DEF OpsOf
  <1> HIDE DEF a, b
  <1>3. <<>> \o a = a /\ <<>> \o b = b
    BY <1>1
  <1>4. Waits = a
    BY <1>3 DEF Waits, a
  <1>5. Waits' = (IF phase' = "executing" THEN <<working'>> ELSE <<>>) \o b
    BY <1>2 DEF Waits, a
  <1>6. ASSUME phase' # "executing" PROVE Waits' = Tail(Waits)
    BY <1>1, <1>3, <1>4, <1>5, <1>6
  <1>7. ASSUME phase' = "executing", working' = toDevice[1].op PROVE Waits' = Waits
    BY <1>1, <1>4, <1>5, <1>7
  <1> QED BY <1>1, <1>4, <1>6, <1>7

LEMMA WaitsDone ==
    ASSUME InStep, toDevice' = toDevice, phase = "executing", phase' # "executing"
    PROVE  Waits # <<>> /\ Head(Waits) = working /\ Waits' = Tail(Waits)
  <1> DEFINE a == OpsOf(toDevice)
  <1>1. a \in Seq(Ops) /\ a' = a
    BY OpsAre DEF InStep, InFlight
  <1>2. working \in Ops
    BY DEF InStep, AtBridge, Sendable
  <1> HIDE DEF a
  <1>3. Waits = <<working>> \o a /\ Waits' = <<>> \o a
    BY <1>1 DEF Waits, a
  <1>4. /\ <<working>> \o a # <<>> /\ Head(<<working>> \o a) = working
        /\ Tail(<<working>> \o a) = a /\ <<>> \o a = a
    BY <1>1, <1>2
  <1> QED BY <1>3, <1>4

LEMMA WaitsLonger ==
    ASSUME InStep, NEW x \in [op : Ops, bytes : Seq(Byte)], toDevice' = Append(toDevice, x),
           phase' = phase, working' = working
    PROVE  Waits' = Append(Waits, x.op)
  <1> DEFINE s == IF phase = "executing" THEN <<working>> ELSE <<>>
  <1>1. s \in Seq(Ops) /\ s' = s
    <2>1. CASE phase = "executing"
      <3>1. working \in Ops
        BY <2>1 DEF InStep, AtBridge, Sendable
      <3> QED BY <2>1, <3>1
    <2>2. CASE phase # "executing"
      BY <2>2
    <2> QED BY <2>1, <2>2
  <1>2. Waits = s \o OpsOf(toDevice) /\ Waits' = s' \o OpsOf(toDevice')
    BY DEF Waits
  <1> HIDE DEF s
  <1>3. toDevice \in Seq([op : Ops, bytes : Seq(Byte)])
    BY DEF InStep, InFlight
  <1>4. s \o OpsOf(Append(toDevice, x)) = Append(s \o OpsOf(toDevice), x.op)
    BY <1>1, <1>3, OpsOfAppend
  <1>5. OpsOf(toDevice') = OpsOf(Append(toDevice, x))
    BY Zenon
  <1> QED BY <1>1, <1>2, <1>4, <1>5, Zenon
------------------------------------------------------------------------------
(* RegisterClient's actions, in the terms of the exchange.                   *)
ClientStep == Client!ClientNext \/ UNCHANGED Client!clientVars

LEMMA AsBegin ==
    ASSUME call.op = NoOp, call'.op # NoOp, Waits' = Append(Waits, call'.op),
           told' = Untold, result' = NoResult, regs' = regs, Trusted' = Trusted
    PROVE  ClientStep
  <1>1. Client!Begin
    BY Zenon DEF Client!Begin, Client!Nothing2Tell, Untold, Waits, OpsOf, Trusted
  <1> QED BY <1>1 DEF ClientStep, Client!ClientNext

LEMMA AsCarryOut ==
    ASSUME NEW op, Waits # <<>>, Head(Waits) = op, Waits' = Tail(Waits), Client!Done(op),
           Trusted => Trusted', call' = call, result' = result
    PROVE  ClientStep
  <1>1. Client!CarryOut
    BY Zenon DEF Client!CarryOut, Waits, OpsOf, Trusted
  <1> QED BY <1>1 DEF ClientStep, Client!ClientNext

LEMMA AsReturn ==
    ASSUME call.op # NoOp, call' = NoCall, regs' = regs, told' = told, Waits' = Waits,
           result'.how = "ok" /\ Trusted =>
               Waits = <<>> /\ told.ok /\ result'.values = told.values /\ Trusted'
    PROVE  ClientStep
  <1>1. call'.op = NoOp
    BY DEF NoCall
  <1>2. Client!Return
    BY <1>1, Zenon DEF Client!Return, Waits, OpsOf, Trusted
  <1> QED BY <1>2 DEF ClientStep, Client!ClientNext

LEMMA AsNothing ==
    ASSUME regs' = regs, told' = told, Waits' = Waits, call' = call,
           call = NoCall => (Quiet => Quiet'), call # NoCall => result' = result
    PROVE  ClientStep
  <1>1. CASE call = NoCall
    <2>1. Trusted => Trusted'
      BY <1>1 DEF Trusted
    <2>2. call.op = NoOp /\ call'.op = NoOp
      BY <1>1 DEF NoCall
    <2>3. Client!Between
      BY <2>1, <2>2, Zenon DEF Client!Between, Waits, OpsOf, Trusted
    <2> QED BY <2>3 DEF ClientStep, Client!ClientNext
  <1>2. CASE call # NoCall
    <2>1. Trusted' = Trusted
      BY <1>2 DEF Trusted
    <2>2. result' = result /\ call'.op = call.op
      BY <1>2
    <2>3. UNCHANGED Client!clientVars
      BY <2>1, <2>2, Zenon DEF Client!clientVars, Waits, OpsOf, Trusted
    <2> QED BY <2>3 DEF ClientStep
  <1> QED BY <1>1, <1>2

(* A frame that is refused leaves no trace, and one of a RESET no answer.     *)
LEMMA DoneUntold ==
    ASSUME NEW op, op.kind # "reset", told' = Untold, regs' = regs
    PROVE  Client!Done(op)
  BY Zenon DEF Client!Done, Client!Nothing2Tell, Untold

LEMMA DoneReset ==
    ASSUME NEW op, op.kind = "reset", told' = Untold, regs \in [Addresses -> Word32],
           regs' = [a \in Addresses |-> IF a \in Cleared THEN 0 ELSE regs[a]]
    PROVE  Client!Done(op)
  <1>1. DOMAIN regs = Addresses
    OBVIOUS
  <1>2. regs' = [a \in DOMAIN regs |-> IF a \in Cleared THEN 0 ELSE regs[a]]
    BY <1>1, Zenon
  <1> QED BY <1>2, Zenon DEF Client!Done, Client!Nothing2Tell, Untold

(* A call that is under way has an operation; outside one there is none.     *)
LEMMA InACall ==
    ASSUME InStep
    PROVE  /\ pc \in Reads => call.op \in Ops /\ call.op # NoOp /\ call # NoCall /\ Trusted = call.quiet
           /\ pc \notin Reads => call = NoCall /\ call.op = NoOp /\ Trusted = Quiet
  <1>1. ASSUME pc \in Reads
        PROVE  call.op \in Ops /\ call.op # NoOp /\ call # NoCall /\ Trusted = call.quiet
    <2>1. call.op \in Ops
      BY <1>1 DEF InStep, Calling, Sendable
    <2>2. call.op # NoOp
      BY <2>1, ExchangeAssumption
    <2>3. call # NoCall
      BY <2>2 DEF NoCall
    <2> QED BY <2>1, <2>2, <2>3 DEF Trusted
  <1>2. ASSUME pc \notin Reads
        PROVE  call = NoCall /\ call.op = NoOp /\ Trusted = Quiet
    <2>1. call = NoCall
      BY <1>2 DEF InStep, Calling
    <2> QED BY <2>1 DEF NoCall, Trusted
  <1> QED BY <1>1, <1>2

LEMMA CallIsBegin ==
    ASSUME CrcsAgree, InStep, NEW op \in Ops, Call(op)
    PROVE  ClientStep
  <1> DEFINE frame == [op |-> op, bytes |-> FrameOf(op)]
  <1>1. /\ pc = "idle" /\ told' = Untold /\ result' = NoResult
        /\ toDevice' = Append(toDevice, frame)
        /\ call' = [op |-> op, quiet |-> Quiet, faults |-> faults]
        /\ UNCHANGED <<serviceVars, regs, working>>
    BY DEF Call
  <1>2. frame \in [op : Ops, bytes : Seq(Byte)] /\ frame.op = op
    <2>1. FrameOf(op) \in Seq(Byte)
      BY SecondByte DEF Call, Sendable
    <2> QED BY <2>1
  <1>3. call'.op = op /\ call'.quiet = Quiet
    BY <1>1
  <1> HIDE DEF frame
  <1>4. Waits' = Append(Waits, op)
    <2>1. phase' = phase /\ working' = working
      BY <1>1 DEF serviceVars
    <2>2. Waits' = Append(Waits, frame.op)
      BY <1>1, <1>2, <2>1, WaitsLonger
    <2> QED BY <1>2, <2>2
  <1>5. call.op = NoOp /\ Trusted = Quiet
    BY <1>1, InACall DEF Reads
  <1>6. op # NoOp /\ call' # NoCall
    <2>1. op # NoOp
      BY ExchangeAssumption
    <2> QED BY <1>3, <2>1 DEF NoCall
  <1>7. Trusted' = Trusted
    BY <1>3, <1>5, <1>6 DEF Trusted
  <1> QED BY <1>1, <1>3, <1>4, <1>5, <1>6, <1>7, AsBegin

LEMMA HearingIsClient ==
    ASSUME CrcsAgree, InStep, HearFrame \/ HearGarbled \/ HearReset
    PROVE  ClientStep
  <1> DEFINE op == toDevice[1].op
  <1>0. InFlight /\ regs \in [Addresses -> Word32]
    BY DEF InStep, Bytes
  <1>1. /\ alive /\ alive' /\ toDevice # <<>> /\ toDevice' = Tail(toDevice) /\ phase = "listening"
        /\ UNCHANGED hostVars
    BY <1>0, HearFrameAccepts, HearGarbledRefuses DEF TakesUp, HearReset
  <1>2. ~Quiet /\ call' = call /\ result' = result
    BY <1>1 DEF Quiet, DeviceSilent, hostVars
  <1>5. Trusted => Trusted'
    BY <1>2 DEF Trusted
  <1> HIDE DEF op
  <1>6. CASE HearFrame
    <2>1. phase' = "executing" /\ working' = op /\ told' = told /\ regs' = regs
      BY <1>0, <1>6, HearFrameAccepts DEF TakesUp, op
    <2>2. Waits' = Waits
      BY <1>0, <1>1, <2>1, WaitsShorter DEF op
    <2> QED BY <1>2, <2>1, <2>2, AsNothing
  <1>7. CASE HearGarbled \/ HearReset
    <2>1. phase' # "executing" /\ told' = Untold
      BY <1>0, <1>1, <1>7, HearGarbledRefuses DEF HearReset, serviceVars
    <2>2. Waits # <<>> /\ Head(Waits) = op /\ Waits' = Tail(Waits)
      BY <1>0, <1>1, <2>1, WaitsShorter DEF op
    <2>3. Client!Done(op)
      <3>1. CASE HearGarbled
        <4>1. op.kind # "reset" /\ regs' = regs
          BY <1>0, <3>1, HearGarbledRefuses DEF TakesUp, Plain, op
        <4> QED BY <2>1, <4>1, DoneUntold
      <3>2. CASE HearReset
        <4>1. /\ toDevice[1].bytes[2] = CMD_RESET
              /\ regs' = [a \in Addresses |-> IF a \in Cleared THEN 0 ELSE regs[a]]
          BY <3>2 DEF HearReset, Sent
        <4>2. op.kind = "reset"
          BY <1>0, <1>1, <4>1, HeadOfLine DEF op
        <4> QED BY <1>0, <2>1, <4>1, <4>2, DoneReset
      <3> QED BY <1>7, <3>1, <3>2
    <2> QED BY <1>2, <1>5, <2>2, <2>3, AsCarryOut
  <1> QED BY <1>6, <1>7

LEMMA PerformIsCarryOut ==
    ASSUME CrcsAgree, InStep, Perform
    PROVE  ClientStep
  <1>1. /\ alive /\ phase = "executing" /\ phase' = "answering" /\ working' = working
        /\ UNCHANGED <<hostVars, toDevice, alive, mute, rx, faults>>
    BY DEF Perform, Execute
  <1>2. Plain(working) /\ job = Heard(working) /\ regs \in [Addresses -> Word32]
    BY <1>1 DEF InStep, AtBridge, Bytes, Plain
  <1>3. Carried(working)
    BY <1>2, PlainFrame, PerformCarriesOut
  <1>4. Client!Done(working)
    <2>1. working.kind \in {"read", "write"}
      BY <1>2, PlainOp
    <2>2. CASE working.kind = "write"
      <3>1. regs' = Client!After(working) /\ told' = [ok |-> Client!Known(working), values |-> <<>>]
        <4>1. CASE Client!Known(working)
          <5>1. Client!Known(working) = TRUE
            BY <4>1, Zenon
          <5>2. regs' = Client!After(working) /\ told' = [ok |-> TRUE, values |-> <<>>]
            BY <1>3, <2>2, <4>1 DEF Carried
          <5> QED BY <5>1, <5>2, Zenon
        <4>2. CASE ~Client!Known(working)
          <5>1. Client!Known(working) = FALSE
            BY <4>2 DEF Client!Known
          <5>2. regs' = Client!After(working) /\ told' = [ok |-> FALSE, values |-> <<>>]
            BY <1>3, <2>2, <4>2 DEF Carried, Untold
          <5> QED BY <5>1, <5>2, Zenon
        <4> QED BY <4>1, <4>2
      <3> QED BY <2>2, <3>1, Zenon DEF Client!Done
    <2>3. CASE working.kind = "read"
      <3>1. /\ regs' = regs
            /\ told' = IF Client!Known(working) THEN [ok |-> TRUE, values |-> Client!Found(working)]
                       ELSE Untold
        BY <1>3, <2>3 DEF Carried
      <3> QED BY <2>3, <3>1, Zenon DEF Client!Done, Client!Nothing2Tell, Untold
    <2> QED BY <2>1, <2>2, <2>3
  <1>5. Waits # <<>> /\ Head(Waits) = working /\ Waits' = Tail(Waits)
    BY <1>1, WaitsDone
  <1>6. ~Quiet /\ call' = call /\ result' = result
    BY <1>1 DEF Quiet, DeviceSilent, hostVars
  <1>7. Trusted => Trusted'
    BY <1>6 DEF Trusted
  <1> QED BY <1>4, <1>5, <1>6, <1>7, AsCarryOut
------------------------------------------------------------------------------
LEMMA RestIsNothing ==
    ASSUME InStep, \/ RespondClean \/ RespondGarbled \/ PowerCut \/ Open \/ Close
                   \/ \E op \in Ops : Reject(op)
                   \/ ReadHeader
                   \/ ReadSof /\ pc' # "idle"
    PROVE  ClientStep
  <1>1. CASE RespondClean \/ RespondGarbled
    <2>1. PICK wire : Respond(wire)
      BY <1>1 DEF RespondClean, RespondGarbled
    <2>2. phase = "answering" /\ phase' = "listening" /\ UNCHANGED <<hostVars, regs, toDevice, told>>
          /\ alive
      BY <2>1 DEF Respond, Answer
    <2>3. ~Quiet
      BY <2>2 DEF Quiet, DeviceSilent
    <2>4. Waits' = Waits
      BY <2>2, WaitsSame
    <2>5. call' = call /\ result' = result
      BY <2>2 DEF hostVars
    <2> QED BY <2>2, <2>3, <2>4, <2>5, AsNothing
  <1>2. CASE PowerCut
    <2>1. ~alive' /\ UNCHANGED <<serviceVars, hostVars, deviceVars, toDevice, mute, rx>>
      BY <1>2 DEF PowerCut
    <2>2. Quiet => Quiet'
      BY <2>1 DEF Quiet, DeviceSilent
    <2>3. Waits' = Waits
      BY <2>1, WaitsSame DEF serviceVars, deviceVars
    <2> QED BY <2>1, <2>2, <2>3, AsNothing DEF hostVars, deviceVars
  <1>3. CASE Open \/ Close \/ \E op \in Ops : Reject(op)
    <2>1. /\ pc \in {"closed", "idle"} /\ UNCHANGED <<serviceVars, deviceVars, toDevice, alive, mute, call>>
      BY <1>3 DEF Open, Close, Reject
    <2>2. rx = <<>> => rx' = <<>>
      <3>1. CASE Open
        <4>1. PICK k \in 0..Len(rx) : rx' = SubSeq(rx, k + 1, Len(rx))
          BY <3>1 DEF Open
        <4>2. ASSUME rx = <<>> PROVE rx' = <<>>
          <5>1. k = 0 /\ Len(rx) = 0
            BY <4>2
          <5> QED BY <4>1, <4>2, <5>1
        <4> QED BY <4>2
      <3>2. CASE Close \/ \E op \in Ops : Reject(op)
        BY <3>2 DEF Close, Reject
      <3> QED BY <1>3, <3>1, <3>2
    <2>3. Quiet => Quiet'
      BY <2>1, <2>2 DEF Quiet, DeviceSilent, serviceVars
    <2>4. Waits' = Waits
      BY <2>1, WaitsSame DEF serviceVars, deviceVars
    <2>5. call = NoCall
      BY <2>1, InACall DEF Reads
    <2> QED BY <2>1, <2>3, <2>4, <2>5, AsNothing DEF deviceVars
  <1>4. CASE ReadHeader \/ (ReadSof /\ pc' # "idle")
    <2>1. pc \in Reads /\ UNCHANGED <<serviceVars, deviceVars, toDevice, call, result>>
      BY <1>4 DEF ReadHeader, ReadSof, Take, Finish, Reads
    <2>2. Waits' = Waits
      BY <2>1, WaitsSame DEF serviceVars, deviceVars
    <2>3. call # NoCall
      BY <2>1, InACall
    <2> QED BY <2>1, <2>2, <2>3, AsNothing DEF deviceVars
  <1> QED BY <1>1, <1>2, <1>3, <1>4

(* What a call takes for a success is one, if it began on a quiet line.      *)
LEMMA OkIsTrue ==
    ASSUME CrcsAgree, InStep, ReadTail, call.quiet, result'.how = "ok"
    PROVE  /\ toDevice = <<>> /\ phase = "listening" /\ rx' = <<>>
           /\ told.ok /\ result'.values = told.values
  <1>1. /\ pc = "tail" /\ pc \in Reads /\ Len(rx) >= Wanted /\ rx' = SubSeq(rx, Wanted + 1, Len(rx))
        /\ result' = Verdict(call.op, got \o SubSeq(rx, 1, Wanted))
    BY DEF ReadTail, Take, Finish, Reads
  <1>2. got \in Seq(Byte) /\ rx \in Seq(Byte) /\ Wanted \in Nat /\ Wanted >= 1
    BY <1>1, WantedIs DEF InStep, Bytes
  <1>3. Answered
    BY <1>1 DEF InStep, Exchange, Unanswered
  <1>4. PICK r : IsReply(r, call.op) /\ Disturbed(r, got \o rx)
    BY <1>3 DEF Answered
  <1> DEFINE n == Wanted
             d == got \o SubSeq(rx, 1, n)
             left == SubSeq(rx, n + 1, Len(rx))
             g == got \o rx
  <1>5. d \in Seq(Byte) /\ left \in Seq(Byte) /\ d \o left = g
    <2>1. n \in Nat /\ n <= Len(rx)
      BY <1>1, <1>2
    <2> HIDE DEF n
    <2> QED BY <1>2, <2>1, MovedBytes
  <1>6. g \in Seq(Byte)
    BY <1>2
  <1>7. result' = Verdict(call.op, d) /\ rx' = left /\ Disturbed(r, g)
    BY <1>1, <1>4
  <1> HIDE DEF d, left, g
  <1>8. Joins(d, left, g)
    BY <1>5, OneAfterAnother
  <1>9. Len(d) <= Len(g) /\ \A i \in 1..Len(d) : d[i] = g[i]
    BY <1>8 DEF Joins
  <1>10. Plain(call.op) /\ told.values \in Seq(Word32)
    BY <1>1, <1>4 DEF InStep, Calling, IsReply, Plain
  <1>11. d = g /\ told.ok /\ Verdict(call.op, d).values = told.values
    <2>1. Verdict(call.op, d).how = "ok"
      BY <1>7
    <2> QED BY <1>4, <1>5, <1>6, <1>7, <1>9, <1>10, <2>1, HonestVerdict
  <1>12. left = <<>>
    <2>1. Len(left) = 0
      BY <1>8, <1>11 DEF Joins
    <2> QED BY <1>5, <2>1
  <1> QED BY <1>3, <1>7, <1>11, <1>12 DEF Answered

LEMMA EndIsReturn ==
    ASSUME CrcsAgree, InStep, ReadTail \/ TimeOut \/ Interrupt \/ (ReadSof /\ pc' = "idle")
    PROVE  ClientStep
  <1>1. /\ pc \in Reads /\ call' = NoCall /\ UNCHANGED <<serviceVars, deviceVars, toDevice, alive, mute>>
    BY DEF ReadTail, TimeOut, Interrupt, ReadSof, Take, Finish, Reads
  <1>2. call.op # NoOp /\ Trusted = call.quiet
    BY <1>1, InACall
  <1>3. Waits' = Waits /\ regs' = regs /\ told' = told
    BY <1>1, WaitsSame DEF serviceVars, deviceVars
  <1>4. ASSUME result'.how = "ok", Trusted
        PROVE  Waits = <<>> /\ told.ok /\ result'.values = told.values /\ Trusted'
    <2>1. ReadTail
      BY <1>4 DEF TimeOut, Interrupt, ReadSof, Finish, Raised, Ended
    <2>2. /\ toDevice = <<>> /\ phase = "listening" /\ rx' = <<>>
          /\ told.ok /\ result'.values = told.values
      BY <1>2, <1>4, <2>1, OkIsTrue
    <2>3. Waits = <<>>
      <3>1. OpsOf(<<>>) = <<>>
        BY DEF OpsOf
      <3> QED BY <2>2, <3>1 DEF Waits
    <2>4. Trusted'
      <3>1. ~mute
        BY <1>1, <1>2, <1>4 DEF InStep, Speaks
      <3> QED BY <1>1, <2>2, <3>1 DEF Trusted, Quiet, DeviceSilent, serviceVars
    <2> QED BY <2>2, <2>3, <2>4
  <1> QED BY <1>1, <1>2, <1>3, <1>4, AsReturn

LEMMA NextIsClient ==
    ASSUME CrcsAgree, InStep, Next
    PROVE  ClientStep
  <1>1. CASE \E op \in Ops : Call(op)
    BY <1>1, CallIsBegin
  <1>2. CASE HearFrame \/ HearGarbled \/ HearReset
    BY <1>2, HearingIsClient
  <1>3. CASE Perform
    BY <1>3, PerformIsCarryOut
  <1>4. CASE ReadSof
    <2>1. pc' = "idle" \/ pc' # "idle"
      OBVIOUS
    <2> QED BY <1>4, <2>1, EndIsReturn, RestIsNothing
  <1>5. CASE ReadTail \/ TimeOut \/ Interrupt
    BY <1>5, EndIsReturn
  <1>6. CASE \/ RespondClean \/ RespondGarbled \/ PowerCut \/ Open \/ Close
             \/ (\E op \in Ops : Reject(op)) \/ ReadHeader
    BY <1>6, RestIsNothing
  <1> QED BY <1>1, <1>2, <1>3, <1>4, <1>5, <1>6 DEF Next, Host, Device, Line

LEMMA InitIsClient == ASSUME Init PROVE Client!ClientInit
  <1>1. Waits = <<>>
    <2>1. OpsOf(<<>>) = <<>>
      BY DEF OpsOf
    <2> QED BY <2>1 DEF Init, ServiceInit, Waits
  <1>2. call.op = NoOp /\ told = Untold /\ result = NoResult
    BY DEF Init, NoCall
  <1>3. Trusted = TRUE
    BY DEF Init, ServiceInit, Trusted, Quiet, DeviceSilent
  <1> QED BY <1>1, <1>2, <1>3, Zenon
      DEF Client!ClientInit, Client!Nothing2Tell, Untold, Waits, OpsOf, Trusted

LEMMA StutterIsClient == ASSUME UNCHANGED vars PROVE UNCHANGED Client!clientVars
  <1>1. /\ UNCHANGED <<phase, working, toDevice, regs, told, result, call, alive, mute, rx>>
    BY DEF vars, serviceVars, hostVars, deviceVars
  <1>2. Waits' = Waits
    BY <1>1, WaitsSame
  <1>3. Trusted' = Trusted
    BY <1>1 DEF Trusted, Quiet, DeviceSilent
  <1> QED BY <1>1, <1>2, <1>3, Zenon DEF Client!clientVars, Waits, OpsOf, Trusted

(* AXIUARTDriver over this line is the register client a script takes it     *)
(* for: operations are carried out in the order they were sent, every word   *)
(* of a burst whatever became of the others, and a RESET clears registers; a *)
(* call that began on a quiet line, at a bridge no RESET has made mute,      *)
(* returns normally only with what the device found, even if the line        *)
(* changed a byte of its frame or of its reply, was late, or went dead.      *)
THEOREM DriverIsRegisterClient == ASSUME CrcsAgree PROVE Spec => RegisterClientImplemented
  <1>1. Init => Client!ClientInit
    BY InitIsClient
  <1>2. InStep /\ [Next]_vars => [Client!ClientNext]_(Client!clientVars)
    BY NextIsClient, StutterIsClient DEF ClientStep
  <1> QED BY <1>1, <1>2, StaysInStep, PTL
          DEF Spec, RegisterClientImplemented, Client!ClientSpec
==============================================================================
