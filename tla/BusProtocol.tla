----------------------------- MODULE BusProtocol -----------------------------
(***************************************************************************)
(* The vocabulary the bridge's modules share: the fields of a command      *)
(* byte, the start-of-frame markers and the status codes.  A byte is an    *)
(* integer 0..255, as on the wire.  The CRC step is a parameter: nothing   *)
(* the frame machinery does depends on which function of (crc, byte) it is.*)
(***************************************************************************)
EXTENDS Integers, Sequences

CONSTANT CrcNext(_, _)     \* Crc8_Calculator: the register after one byte

Byte == 0..255

ASSUME CrcNextIsByte == \A c, b \in Byte : CrcNext(c, b) \in Byte

(* The register after i of the bytes, and the CRC a frame closes with.      *)
CrcRun(bytes) == LET crc[i \in 0..Len(bytes)] ==
                         IF i = 0 THEN 0 ELSE CrcNext(crc[i - 1], bytes[i])
                 IN crc
CrcOf(bytes) == CrcRun(bytes)[Len(bytes)]

SOF_HOST   == 165          \* 0xA5, opens a command frame
CMD_RESET  == 255          \* 0xFF, the RESET command

(* Status codes carried in the second byte of a response. *)
STATUS_OK      == 0
STATUS_CRC_ERR == 1
STATUS_CMD_INV == 2
STATUS_ALIGN   == 3
STATUS_TIMEOUT == 4
STATUS_SLVERR  == 5
STATUS_BUSY    == 6
Status         == 0..6

(* CMD = {RW, INC, SIZE(2), LEN(4)}. *)
IsRead(cmd)    == cmd >= 128
IncBit(cmd)    == (cmd \div 64) % 2 = 1
SizeField(cmd) == (cmd \div 16) % 4
LenField(cmd)  == cmd % 16

BeatSize(cmd)  == CASE SizeField(cmd) = 0 -> 1
                    [] SizeField(cmd) = 1 -> 2
                    [] SizeField(cmd) = 2 -> 4
                    [] OTHER              -> 0

(* Bytes of payload the command announces: none for a read. *)
PayloadBytes(cmd) == IF IsRead(cmd) THEN 0
                     ELSE (LenField(cmd) + 1) * BeatSize(cmd)

(* Only the reserved SIZE is illegal; RESET is always accepted. *)
CmdValid(cmd) == cmd = CMD_RESET \/ SizeField(cmd) # 3
=============================================================================
