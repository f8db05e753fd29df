--------------------------- MODULE MCResponsePath ---------------------------
(* ResponsePath with the real CRC and three replies of different shapes. *)
EXTENDS ResponsePath

Crc == INSTANCE Crc8
MCCrcNext(c, b) == Crc!calc_crc8_byte(c, b)

Addr == <<165, 1, 2, 3>>
(* a write acknowledged, a read of two bytes, a read refused *)
MCRequests == {[status |-> STATUS_OK,    cmd |-> 32,  addr |-> Addr, data |-> <<>>],
               [status |-> STATUS_OK,    cmd |-> 145, addr |-> Addr, data |-> <<200, 90>>],
               [status |-> STATUS_ALIGN, cmd |-> 160, addr |-> Addr, data |-> <<>>]}

(* A checksum cheap enough for the longest frame. *)
MCSumNext(c, b) == (c + b) % 256

(* Sixteen words, the longest read of the protocol. *)
LongRead == {[status |-> STATUS_OK, cmd |-> 175, addr |-> Addr, data |-> [i \in 1..64 |-> i]]}
=============================================================================
