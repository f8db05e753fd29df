-------------------------------- MODULE Crc8 --------------------------------
(***************************************************************************)
(* Crc8_Calculator.calc_crc8_byte: polynomial x^8 + x^2 + x + 1, one byte  *)
(* at a time.  The table holds the eight shifts for each byte, computed    *)
(* once; a table of nibbles gives the exclusive or of two bytes.           *)
(***************************************************************************)
EXTENDS Integers, Bitwise

Poly == 7

NibbleXor == [x, y \in 0..15 |-> x ^^ y]
ByteXor(a, b) == 16 * NibbleXor[a \div 16, b \div 16] + NibbleXor[a % 16, b % 16]

(* One shift: drop the top bit, and fold the polynomial in if it was set. *)
Shift(crc) == IF crc >= 128 THEN ByteXor((2 * crc) % 256, Poly) ELSE 2 * crc

ShiftEight == [b \in 0..255 |->
                 Shift(Shift(Shift(Shift(Shift(Shift(Shift(Shift(b))))))))]

calc_crc8_byte(crc, byte) == ShiftEight[ByteXor(crc, byte)]
=============================================================================
