---------------------------- MODULE HostProtocol ----------------------------
(***************************************************************************)
(* protocol.py, the host's own reading of the wire format: it builds       *)
(* command frames and takes responses apart.  It shares nothing with the   *)
(* bridge's BusProtocol but the wire; that the two agree is a result, not  *)
(* an assumption.  A raised ValueError is the value ValueError.            *)
(***************************************************************************)
EXTENDS Integers, Sequences, SequencesExt

CONSTANT HostCrcNext(_, _)      \* CRC8.calculate: one turn of its outer loop

calculate(data) == LET crc[i \in 0..Len(data)] ==
                          IF i = 0 THEN 0 ELSE HostCrcNext(crc[i - 1], data[i])
                   IN crc[Len(data)]

(* StatusCode: the values its constructor accepts. *)
SUCCESS    == 0
StatusCode == 0..7

SOF_TO_DEVICE   == 165
SOF_FROM_DEVICE == 90
SIZE_32BIT      == 2
RESET_COMMAND   == 255

ValueError == <<>>

Bit(b, weight) == IF b THEN weight ELSE 0

(* CommandField.  encode refuses a reserved size and a length over 4 bits. *)
encode(rw, inc, size, length) ==
    IF size \in 0..2 /\ length \in 0..15
    THEN <<Bit(rw, 128) + Bit(inc, 64) + 16 * size + length>> ELSE ValueError

decode(cmd) == [rw |-> cmd >= 128, inc |-> (cmd \div 64) % 2 = 1,
                size |-> (cmd \div 16) % 4, length |-> cmd % 16]

get_beat_size(size) == IF size < 3 THEN <<1, 2, 4>>[size + 1] ELSE 0

PayloadLen(cmd) == (decode(cmd).length + 1) * get_beat_size(decode(cmd).size)

(* struct.pack('<I', v & 0xFFFFFFFF) and struct.unpack('<I', b)[0]. *)
Pack(v)   == [i \in 1..4 |-> (v \div 256^(i - 1)) % 256]
Unpack(b) == b[1] + 256 * b[2] + 65536 * b[3] + 16777216 * b[4]

(* Mutant: the CRC starts at the marker. *)
Sealed_FromMarker(body) == LET framed == <<SOF_TO_DEVICE>> \o body
                           IN framed \o <<calculate(framed)>>

Sealed(body) == <<SOF_TO_DEVICE>> \o body \o <<calculate(body)>>

(* FrameBuilder: a frame, or ValueError. *)
build_write_frame(addr, data, size, inc) ==
    LET beat  == get_beat_size(size)
        beats == Len(data) \div beat
        cmd   == encode(FALSE, inc, size, beats - 1)
    IN IF Len(data) \in 1..64 /\ Len(data) % beat = 0 /\ beats <= 16 /\ cmd # ValueError
       THEN Sealed(cmd \o Pack(addr) \o data) ELSE ValueError

build_read_frame(addr, num_beats, size, inc) ==
    LET cmd == encode(TRUE, inc, size, num_beats - 1)
    IN IF num_beats \in 1..16 /\ cmd # ValueError
       THEN Sealed(cmd \o Pack(addr)) ELSE ValueError

build_reset_frame == Sealed(<<RESET_COMMAND>>)

(* FrameParser.parse_response.  None, for an absent address or payload, is *)
(* the empty sequence: no address and no payload has length 0.             *)
None == <<>>

ShortReply(data) ==
    IF Len(data) = 4 /\ data[4] = calculate(SubSeq(data, 2, 3))
    THEN [status |-> data[2], cmd_echo |-> data[3], addr_echo |-> None, payload |-> None]
    ELSE ValueError

ReadReply(data) ==
    IF Len(data) >= 8 /\ Len(data) = 8 + PayloadLen(data[3])
         /\ Last(data) = calculate(SubSeq(data, 2, Len(data) - 1))
    THEN [status |-> SUCCESS, cmd_echo |-> data[3], addr_echo |-> SubSeq(data, 4, 7),
          payload |-> SubSeq(data, 8, Len(data) - 1)]
    ELSE ValueError

parse_response(data) ==
    IF Len(data) < 4 \/ data[1] # SOF_FROM_DEVICE \/ data[2] \notin StatusCode THEN ValueError
    ELSE IF decode(data[3]).rw /\ data[2] = SUCCESS THEN ReadReply(data) ELSE ShortReply(data)
=============================================================================
