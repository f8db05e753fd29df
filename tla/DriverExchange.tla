--------------------------- MODULE DriverExchange ---------------------------
(***************************************************************************)
(* AXIUARTDriver against the bridge: the blocking exchange of one frame    *)
(* and one response per call, over a line whose bytes nobody numbers.  The *)
(* bridge is FrameService, what RequestPath was shown to implement, with   *)
(* the registers behind it; the host is the driver's code, read by read.   *)
(*                                                                         *)
(* Every timed read either gets all the bytes it asked for or gives up, and *)
(* keeps (and throws away) those that had come.  A reply that comes after  *)
(* that stays on the line for the next call.  A RESET that finds a reply   *)
(* half sent leaves the bridge mute for good (ResponsePath).               *)
(***************************************************************************)
EXTENDS FrameService, HostProtocol

CONSTANTS Addresses,    \* offsets of the registers the device decodes
          Cleared,      \* those a RESET sets to zero
          InitialRegs,  \* their contents at power on
          Ops,          \* the calls a script may make, legal or not
          NoiseBytes,   \* what a disturbed byte may turn into
          MaxCalls,     \* bound: calls that reach the line
          MaxFaults,    \* bound: late replies, disturbed bytes, Ctrl-C, power cuts
          NoOp, NoResult

(* What struct.pack('<I') takes: four bytes.                                 *)
Word32 == {v \in Nat : v \div 16777216 \in Byte}

(* A register call is a burst of one.  A write brings its words with it.     *)
ASSUME ExchangeAssumption ==
    /\ InitialRegs \in [Addresses -> Word32] /\ Addresses \subseteq 0..4095
    /\ NoiseBytes \subseteq Byte /\ MaxCalls \in Nat /\ MaxFaults \in Nat
    /\ NoOp \notin Ops
    /\ Ops \subseteq [kind : {"write", "read", "reset"}, burst : BOOLEAN, addr : Word32,
                     values : Seq(Word32), count : Nat, inc : BOOLEAN]
    /\ \A op \in Ops : /\ op.kind = "write" => op.count = Len(op.values)
                       /\ op.kind # "reset" /\ ~op.burst => op.count = 1 /\ ~op.inc

VARIABLES regs,       \* Register_Block, as far as a host sees it
          toDevice,   \* frames sent and not yet taken up: [op, bytes]
          working,    \* the call whose frame the bridge has at hand
          alive,      \* the board is powered
          mute,       \* the feed of the transmitter hangs: no byte leaves the board
          rx,         \* bytes of replies the host has not read
          pc,         \* "closed", "idle", or the read the call is blocked in
          call,       \* the call: [op, quiet, faults], the last two as it began
          got,        \* response bytes read so far
          told,       \* history: what the device answered since the call began
          result,     \* how the last call ended
          calls, faults

hostVars   == <<pc, call, got, result, calls>>
deviceVars == <<regs, working, told>>
vars == <<serviceVars, hostVars, deviceVars, toDevice, alive, mute, rx, faults>>

NoCall == [op |-> NoOp, quiet |-> TRUE, faults |-> 0]
Untold == [ok |-> FALSE, values |-> <<>>]

Reads == {"sof", "header", "tail"}

(* No byte more is to come.  Quiet: and nothing is under way anywhere        *)
(* between the host and the registers, at a bridge that can answer.          *)
DeviceSilent == ~alive \/ mute \/ (phase = "listening" /\ toDevice = <<>>)
Quiet        == DeviceSilent /\ rx = <<>> /\ ~mute

Fault == faults < MaxFaults /\ faults' = faults + 1

------------------------------------------------------------------------------
(* The host.  A call is [kind, burst, addr, values, count, inc].             *)

Aligned(op) == op.addr % 4 = 0
PackAll(values) == FlattenSeq([k \in DOMAIN values |-> Pack(values[k])])

(* The frame each method sends, or ValueError if it refuses its arguments.   *)
write_reg32(op) ==
    IF Aligned(op)
    THEN build_write_frame(op.addr, Pack(op.values[1]), SIZE_32BIT, FALSE) ELSE ValueError
write_burst(op) ==
    IF Len(op.values) \in 1..16 /\ Aligned(op)
    THEN build_write_frame(op.addr, PackAll(op.values), SIZE_32BIT, op.inc) ELSE ValueError
read_reg32(op) ==
    IF Aligned(op) THEN build_read_frame(op.addr, 1, SIZE_32BIT, FALSE) ELSE ValueError
read_burst(op) ==
    IF op.count \in 1..16 /\ Aligned(op)
    THEN build_read_frame(op.addr, op.count, SIZE_32BIT, op.inc) ELSE ValueError

FrameOf(op) == CASE op.kind = "write" -> IF op.burst THEN write_burst(op) ELSE write_reg32(op)
                 [] op.kind = "read"  -> IF op.burst THEN read_burst(op) ELSE read_reg32(op)
                 [] op.kind = "reset" -> build_reset_frame

(* What each method makes of a response that parsed as a success.            *)
Ended(how, values) == [how |-> how, values |-> values]
Raised == Ended("AXIUARTException", <<>>)

Words(payload) == [k \in 1..(Len(payload) \div 4) |-> Unpack(SubSeq(payload, 4 * k - 3, 4 * k))]

WriteEnds       == Ended("ok", <<>>)
ReadEnds(r)     == IF Len(r.payload) = 4 THEN Ended("ok", Words(r.payload)) ELSE Raised
BurstEnds(op, r) == IF Len(r.payload) = 4 * op.count THEN Ended("ok", Words(r.payload)) ELSE Raised
ResetEnds(r)    == IF r.cmd_echo = RESET_COMMAND THEN Ended("ok", <<>>) ELSE Raised

(* Mutant: the status is not looked at. *)
Verdict_AnyStatus(op, response) ==
    LET r == parse_response(response)
    IN IF r = ValueError THEN Ended("ValueError", <<>>)
       ELSE CASE op.kind = "write" -> WriteEnds
              [] op.kind = "read"  -> IF op.burst THEN BurstEnds(op, r) ELSE ReadEnds(r)
              [] op.kind = "reset" -> ResetEnds(r)

Verdict(op, response) ==
    LET r == parse_response(response)
    IN IF r = ValueError THEN Ended("ValueError", <<>>)
       ELSE IF r.status # SUCCESS THEN Raised
       ELSE CASE op.kind = "write" -> WriteEnds
              [] op.kind = "read"  -> IF op.burst THEN BurstEnds(op, r) ELSE ReadEnds(r)
              [] op.kind = "reset" -> ResetEnds(r)

(* Mutant: the CRC of a read response is forgotten. *)
TailLen_NoCrc(status, cmd_echo) ==
    IF decode(cmd_echo).rw /\ status = SUCCESS THEN 4 + PayloadLen(cmd_echo) ELSE 1

(* _receive_response: the length of the tail hangs on the two header bytes.  *)
TailLen(status, cmd_echo) ==
    IF decode(cmd_echo).rw /\ status = SUCCESS THEN 4 + PayloadLen(cmd_echo) + 1 ELSE 1

Wanted == CASE pc = "sof"    -> 1
            [] pc = "header" -> 2
            [] OTHER         -> TailLen(got[2], got[3])

(* open flushes what has come in: some of the bytes on their way, all of     *)
(* them if the device has nothing more to send.                              *)
Open == /\ pc = "closed" /\ pc' = "idle"
        /\ \E k \in 0..Len(rx) : /\ DeviceSilent => k = Len(rx)
                                 /\ rx' = SubSeq(rx, k + 1, Len(rx))
        /\ UNCHANGED <<serviceVars, deviceVars, toDevice, alive, mute, call, got, result, calls, faults>>

Close == /\ pc = "idle" /\ pc' = "closed"
         /\ UNCHANGED <<serviceVars, deviceVars, toDevice, alive, mute, rx, call, got, result, calls, faults>>

(* Refused before anything is sent: a closed port or an illegal argument.    *)
Reject(op) ==
    /\ pc \in {"closed", "idle"} /\ (pc = "closed" \/ FrameOf(op) = ValueError)
    /\ result' = Raised
    /\ UNCHANGED <<serviceVars, deviceVars, toDevice, alive, mute, rx, pc, call, got, calls, faults>>

Call(op) ==
    /\ pc = "idle" /\ FrameOf(op) # ValueError /\ calls < MaxCalls
    /\ toDevice' = Append(toDevice, [op |-> op, bytes |-> FrameOf(op)])
    /\ pc' = "sof" /\ got' = <<>>
    /\ call' = [op |-> op, quiet |-> Quiet, faults |-> faults]
    /\ told' = Untold /\ result' = NoResult /\ calls' = calls + 1
    /\ UNCHANGED <<serviceVars, regs, working, alive, mute, rx, faults>>

(* Mutant: the bytes read so far are kept for the next call. *)
Finish_KeepsBytes(r) == /\ pc' = "idle" /\ result' = r /\ call' = NoCall
                        /\ UNCHANGED <<calls, got>>

Finish(r) == /\ pc' = "idle" /\ result' = r /\ call' = NoCall /\ got' = <<>>
             /\ UNCHANGED calls

Take(n) == /\ Len(rx) >= n /\ rx' = SubSeq(rx, n + 1, Len(rx))
           /\ UNCHANGED <<serviceVars, deviceVars, toDevice, alive, mute, faults>>

ReadSof == /\ pc = "sof" /\ Take(1)
           /\ IF rx[1] = SOF_FROM_DEVICE
              THEN pc' = "header" /\ got' = <<rx[1]>> /\ UNCHANGED <<call, result, calls>>
              ELSE Finish(Raised)

ReadHeader == /\ pc = "header" /\ Take(2)
              /\ pc' = "tail" /\ got' = got \o SubSeq(rx, 1, 2)
              /\ UNCHANGED <<call, result, calls>>

ReadTail == /\ pc = "tail" /\ Take(Wanted)
            /\ Finish(Verdict(call.op, got \o SubSeq(rx, 1, Wanted)))

(* Mutant: only the wait for the marker is timed. *)
TimeOut_MarkerOnly ==
    /\ pc = "sof" /\ DeviceSilent /\ rx = <<>>
    /\ Finish(Raised)
    /\ UNCHANGED <<serviceVars, deviceVars, toDevice, alive, mute, rx, faults>>

(* The read's time is up with too few bytes, which are lost.  While the      *)
(* device works this is a late reply, or a timeout set too short.            *)
TimeOut ==
    /\ pc \in Reads
    /\ \/ DeviceSilent /\ Len(rx) < Wanted /\ rx' = <<>> /\ UNCHANGED faults
       \/ /\ ~DeviceSilent \/ Len(rx) >= Wanted
          /\ Fault
          /\ \E k \in 0..(Wanted - 1) : k <= Len(rx) /\ rx' = SubSeq(rx, k + 1, Len(rx))
    /\ Finish(Raised)
    /\ UNCHANGED <<serviceVars, deviceVars, toDevice, alive, mute>>

(* Ctrl-C while the call waits: what was read is forgotten with it.          *)
Interrupt == /\ pc \in Reads /\ Fault
             /\ Finish(Ended("KeyboardInterrupt", <<>>))
             /\ UNCHANGED <<serviceVars, deviceVars, toDevice, alive, mute, rx>>

------------------------------------------------------------------------------
(* The device.                                                               *)

Sent == toDevice[1].bytes

(* The bridge hears a frame, perhaps with one byte after the command wrong.  *)
Hear(frame) == /\ alive /\ toDevice # <<>> /\ toDevice' = Tail(toDevice)
               /\ job' = frame /\ working' = toDevice[1].op
               /\ \/ Accept /\ UNCHANGED told
                  \/ Refuse /\ told' = Untold
               /\ UNCHANGED <<hostVars, regs, alive, mute, rx>>

HearFrame == /\ toDevice # <<>> /\ Sent[2] # CMD_RESET
             /\ Hear(Tail(Sent)) /\ UNCHANGED faults

HearGarbled == /\ toDevice # <<>> /\ Sent[2] # CMD_RESET /\ Fault
               /\ \E i \in 3..Len(Sent), b \in NoiseBytes :
                      b # Sent[i] /\ Hear(Tail([Sent EXCEPT ![i] = b]))

(* What a receiver makes of a byte that ends after n of its bits: the line   *)
(* is idle from there on.  Of a start bit cut short perhaps nothing.         *)
Remains(byte) == {<<>>} \cup {<<(byte % 2^n) + 256 - 2^n>> : n \in 0..8}

(* RESET clears registers and is not answered.  It resets the transmitter:   *)
(* between two bytes that loses nothing, but in mid-byte the feed is never   *)
(* told that the byte is done, and waits for ever.                           *)
HearReset == /\ alive /\ phase = "listening" /\ toDevice # <<>> /\ Sent[2] = CMD_RESET
             /\ toDevice' = Tail(toDevice)
             /\ regs' = [a \in Addresses |-> IF a \in Cleared THEN 0 ELSE regs[a]]
             /\ \/ UNCHANGED <<rx, mute>>
                \/ /\ ~mute /\ mute' = TRUE
                   /\ \E k \in 1..Len(rx) : \E rest \in Remains(rx[k]) :
                          rx' = SubSeq(rx, 1, k - 1) \o rest
             /\ told' = Untold
             /\ UNCHANGED <<serviceVars, hostVars, working, alive, faults>>

(* The command, read off the frame the bridge accepted.  Register_Block      *)
(* looks at the low twelve bits of each beat's address.                      *)
DeviceAddr(k) == LET first == Unpack(SubSeq(job, 2, 5))
                 IN (IF IncBit(job[1]) THEN first + 4 * (k - 1) ELSE first) % 4096
DeviceWord(k) == Unpack(SubSeq(job, 4 * k + 2, 4 * k + 5))
Beats         == 1..(LenField(job[1]) + 1)
Undecoded     == {k \in Beats : DeviceAddr(k) \notin Addresses}

(* The master carries a command out to its last beat, whatever became of the *)
(* others, and reports an error if one address is not decoded.               *)
Perform ==
    /\ alive /\ phase = "executing" /\ working' = working
    /\ LET hits(a) == {k \in Beats : DeviceAddr(k) = a}
       IN regs' = [a \in Addresses |->
                      IF IsRead(job[1]) \/ hits(a) = {} THEN regs[a]
                      ELSE DeviceWord(CHOOSE k \in hits(a) : \A j \in hits(a) : j <= k)]
    /\ outcome' = IF Undecoded # {} THEN [status |-> STATUS_SLVERR, data |-> <<>>]
                  ELSE [status |-> STATUS_OK,
                        data |-> IF IsRead(job[1])
                                 THEN FlattenSeq([k \in Beats |-> Pack(regs[DeviceAddr(k)])])
                                 ELSE <<>>]
    /\ Execute
    /\ told' = [ok |-> outcome'.status = STATUS_OK,
                values |-> IF IsRead(job[1]) /\ Undecoded = {}
                           THEN [k \in Beats |-> regs[DeviceAddr(k)]] ELSE <<>>]
    /\ UNCHANGED <<hostVars, toDevice, alive, mute, rx, faults>>

ReplyBytes == LET body == Body(job, outcome) IN <<SOF_FROM_DEVICE>> \o body \o <<CrcOf(body)>>

Respond(onTheWire) ==
    /\ alive /\ reply' = ReplyBytes /\ Answer
    /\ working' = NoOp
    /\ rx' = IF mute THEN rx ELSE rx \o onTheWire
    /\ UNCHANGED <<hostVars, regs, toDevice, alive, mute, told>>

RespondClean   == phase = "answering" /\ Respond(ReplyBytes) /\ UNCHANGED faults
RespondGarbled == /\ phase = "answering" /\ ~mute /\ Fault
                  /\ \E i \in DOMAIN ReplyBytes, b \in NoiseBytes :
                         b # ReplyBytes[i] /\ Respond([ReplyBytes EXCEPT ![i] = b])

PowerCut == /\ alive /\ alive' = FALSE /\ Fault
            /\ UNCHANGED <<serviceVars, hostVars, deviceVars, toDevice, mute, rx>>
------------------------------------------------------------------------------
Init == /\ ServiceInit /\ regs = InitialRegs /\ toDevice = <<>> /\ working = NoOp
        /\ alive = TRUE /\ mute = FALSE /\ rx = <<>> /\ pc = "closed" /\ call = NoCall /\ got = <<>>
        /\ told = Untold /\ result = NoResult /\ calls = 0 /\ faults = 0

Host   == \/ Open \/ Close \/ \E op \in Ops : Call(op) \/ Reject(op)
          \/ ReadSof \/ ReadHeader \/ ReadTail \/ TimeOut \/ Interrupt
Device == HearFrame \/ HearReset \/ Perform \/ RespondClean
Line   == HearGarbled \/ RespondGarbled \/ PowerCut

Next == Host \/ Device \/ Line

Spec == Init /\ [][Next]_vars

(* The bridge and the interpreter keep running; a script need not call.  A   *)
(* mute bridge keeps taking commands until its TX FIFO is full.              *)
FairSpec == /\ Spec
            /\ WF_vars(~mute /\ Device)
            /\ WF_vars(ReadSof \/ ReadHeader \/ ReadTail \/ TimeOut)
------------------------------------------------------------------------------
(* What the variables may hold, the bytes read so far by the read under way. *)
ExchangeTypeOK ==
    /\ regs \in [Addresses -> Word32] /\ alive \in BOOLEAN /\ mute \in BOOLEAN
    /\ pc \in {"closed", "idle"} \cup Reads
    /\ call = NoCall <=> pc \notin Reads
    /\ Len(got) = CASE pc = "header" -> 1 [] pc = "tail" -> 3 [] OTHER -> 0
    /\ rx \in Seq(Byte) /\ calls \in 0..MaxCalls /\ faults \in 0..MaxFaults

(* Both sides run one CRC, and it tells any two bytes, and any two registers *)
(* before the same byte, apart: as all 256 values come out, none does twice. *)
CrcsAgree ==
    \A x \in Byte : /\ \A y \in Byte : HostCrcNext(x, y) = CrcNext(x, y)
                   /\ {CrcNext(x, y) : y \in Byte} = Byte
                   /\ {CrcNext(y, x) : y \in Byte} = Byte

(* protocol.py and the RTL were written apart and agree: the bridge refuses  *)
(* a frame the driver built only if the line changed a byte of it.           *)
HostFramesAccepted ==
    [][phase = "listening" /\ phase' = "answering" => faults' # faults]_vars

(* A call that began with nothing left on the line, at a bridge no RESET has *)
(* made mute, and was not disturbed, returns normally exactly when the       *)
(* device reported it done, error statuses and the unanswered RESET included,*)
(* and leaves nothing behind for the next, which finds a bridge that answers.*)
CallReturns   == pc \in Reads /\ pc' = "idle"
EndsTruly     == Quiet' /\ (result'.how = "ok" <=> told.ok)
CallsStayInStep ==
    [][CallReturns /\ call.quiet /\ faults' = call.faults => EndsTruly]_vars

(* Whatever happens to the line or the board, every call comes back.         *)
EveryCallReturns == pc \in Reads ~> pc \notin Reads

(* Between two calls a script may rely on RegisterClient: an operation is in *)
(* the device's hands from the sending of its frame to its last beat, and    *)
(* the exchange is trusted as long as each call began on a quiet line.       *)
(* What the device then does to its registers is as promised, always: a      *)
(* burst over a gap writes the registers on both sides of it, and a RESET    *)
(* clears some, whether or not the host hears of it.                         *)
Client == INSTANCE RegisterClient
            WITH waiting <- (IF phase = "executing" THEN <<working>> ELSE <<>>)
                            \o [i \in DOMAIN toDevice |-> toDevice[i].op],
                 current <- call.op,
                 trusted <- IF call = NoCall THEN Quiet ELSE call.quiet
RegisterClientImplemented == Client!ClientSpec

(* The docstring of read_reg32: it returns the register's value or raises.   *)
ReadReturnsRegister ==
    [][CallReturns /\ call.op.kind = "read" /\ result'.how = "ok"
         => result'.values = told.values]_vars
=============================================================================
