---------------------------- MODULE MCRequestPath ----------------------------
(* RequestPath with the real CRC and a handful of bytes per field. *)
EXTENDS RequestPath

Crc == INSTANCE Crc8
MCCrcNext(c, b) == Crc!calc_crc8_byte(c, b)

(* The marker, and a byte that is noise while hunting for it. *)
MCIdleBytes == {SOF_HOST, 0}
(* write two bytes, write a halfword, read two halfwords, reserved SIZE, RESET *)
MCCmdBytes  == {1, 16, 145, 48, CMD_RESET}
(* Four different address bytes; one looks like a marker. *)
MCAddrBytes == <<{SOF_HOST}, {1}, {2}, {3}>>
MCDataBytes == {0, 255}
MCAxiStatuses == {STATUS_OK, STATUS_SLVERR}
(* Bytes read are only copied: one value, different at every index, will do. *)
MCAxiPayloads(n) == {[i \in 1..n |-> 16 + i]}
=============================================================================
