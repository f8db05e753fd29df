------------------------------ MODULE HostCrc8 ------------------------------
(***************************************************************************)
(* CRC8.calculate of protocol.py, one byte at a time.  Unlike the RTL, the *)
(* loop lets the register grow past eight bits and masks it once per byte. *)
(***************************************************************************)
EXTENDS Integers, Bitwise

POLYNOMIAL == 7

LowXor == [n \in 0..15 |-> n ^^ POLYNOMIAL]

(* One turn of the inner loop; the exclusive or only reaches the low bits. *)
Turn(crc) == LET twice == 2 * crc
             IN IF (crc \div 128) % 2 = 1
                THEN (twice - (twice % 16)) + LowXor[twice % 16] ELSE twice

EightTurns == [b \in 0..255 |->
                 Turn(Turn(Turn(Turn(Turn(Turn(Turn(Turn(b)))))))) % 256]

NibbleXor == [x, y \in 0..15 |-> x ^^ y]

HostCrcStep(crc, byte) ==
    EightTurns[16 * NibbleXor[crc \div 16, byte \div 16] + NibbleXor[crc % 16, byte % 16]]
=============================================================================
