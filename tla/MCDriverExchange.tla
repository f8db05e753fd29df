-------------------------- MODULE MCDriverExchange --------------------------
(* DriverExchange with both sides' own CRC and two registers. *)
EXTENDS DriverExchange

Crc == INSTANCE Crc8
CrcTable == [c \in Byte |-> [b \in Byte |-> Crc!calc_crc8_byte(c, b)]]
MCCrcNext(c, b) == CrcTable[c][b]
HostCrc == INSTANCE HostCrc8
HostCrcTable == [c \in Byte |-> [b \in Byte |-> HostCrc!HostCrcStep(c, b)]]
MCHostCrcNext(c, b) == HostCrcTable[c][b]

(* The hypothesis of the proofs, of the two functions as they are. *)
ASSUME BothCrcs == CrcsAgree

(* TEST_3 and TEST_4, with a gap of four words between them, which a RESET  *)
(* clears, and DBG_BP0_ADDR and DBG_BP1_ADDR, which it leaves; the last     *)
(* holds bytes that look like a marker.                                     *)
TEST_3 == 44
TEST_4 == 64
DBG_BP0_ADDR == 576
DBG_BP1_ADDR == 580
MCAddresses   == {TEST_3, TEST_4, DBG_BP0_ADDR, DBG_BP1_ADDR}
MCCleared     == {TEST_3, TEST_4}
MCInitialRegs == [a \in MCAddresses |-> CASE a = DBG_BP0_ADDR -> 7
                                          [] a = DBG_BP1_ADDR -> 1509949530 [] OTHER -> 0]

Op(kind, burst, addr, values, n, inc) ==
    [kind |-> kind, burst |-> burst, addr |-> addr, values |-> values, count |-> n, inc |-> inc]

(* Registers, bursts (one over the gap), RESET, and calls that are refused: *)
(* unaligned, and too long.                                                 *)
MCOps == {Op("write", FALSE, 4096 + TEST_3, <<8193>>, 1, FALSE),
          Op("read", FALSE, 4096 + TEST_3, <<>>, 1, FALSE),
          Op("read", FALSE, 4096 + DBG_BP1_ADDR, <<>>, 1, FALSE),
          Op("read", TRUE, 8192 + DBG_BP0_ADDR, <<>>, 2, TRUE),
          Op("write", TRUE, 8192 + DBG_BP1_ADDR, <<3, 4>>, 2, FALSE),
          Op("write", TRUE, 4096 + TEST_3, [k \in 1..6 |-> k], 6, TRUE),
          Op("reset", FALSE, 0, <<>>, 0, FALSE),
          Op("read", FALSE, 4098 + TEST_3, <<>>, 1, FALSE),
          Op("write", TRUE, 4096 + TEST_3, [k \in 1..17 |-> k], 17, TRUE)}

(* A marker, an OK status, an error status, a write echo and a read echo.   *)
MCNoiseBytes == {90, 0, 5, 32, 160}
=============================================================================
