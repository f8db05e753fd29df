------------------------------- MODULE UartTx -------------------------------
(***************************************************************************)
(* Uart_Tx.sv: shifts one byte at a time onto the serial line, start bit,  *)
(* eight data bits from the least significant, stop bit.  One step is one  *)
(* clock edge.                                                             *)
(*                                                                         *)
(* Its inputs in a cycle are start (tx_start) and data (tx_data), cts (the *)
(* host's CTS is asserted), reset (soft_reset_request) and tick: the baud  *)
(* counter reached its limit.  The divisor is set by software, so a tick   *)
(* may come in any cycle the transmitter is busy, and in no other.         *)
(***************************************************************************)
EXTENDS Integers

VARIABLES tx_state, bit_counter, tx_shift_reg,
          tx_done                        \* registered: up the cycle after a stop bit

txVars == <<tx_state, bit_counter, tx_shift_reg, tx_done>>

TxState == {"TX_IDLE", "START_BIT", "DATA_BITS", "STOP_BIT"}

TxInit == /\ tx_state = "TX_IDLE" /\ bit_counter = 0 /\ tx_shift_reg = 0
          /\ tx_done = FALSE

tx_busy == tx_state # "TX_IDLE"

uart_tx == CASE tx_state = "START_BIT" -> 0
             [] tx_state = "DATA_BITS" -> tx_shift_reg % 2
             [] OTHER -> 1

ByteLeaves(tick) == tx_state = "STOP_BIT" /\ tick

-----------------------------------------------------------------------------
(* A byte is latched only if the host is clear to send in that cycle.       *)
Latch(start, data, cts) ==
    /\ tx_state = "TX_IDLE" /\ start /\ cts
    /\ tx_state' = "START_BIT" /\ tx_shift_reg' = data /\ UNCHANGED bit_counter

Idle(start, cts) == /\ tx_state = "TX_IDLE" /\ ~(start /\ cts)
                    /\ bit_counter' = 0 /\ UNCHANGED <<tx_state, tx_shift_reg>>

(* Mutant: a byte the host is not ready for is given up. *)
StartBit_Aborts(tick, cts) ==
    /\ tx_state = "START_BIT"
    /\ tx_state' = CASE tick /\ cts -> "DATA_BITS" [] tick /\ ~cts -> "TX_IDLE" [] OTHER -> "START_BIT"
    /\ UNCHANGED <<tx_shift_reg, bit_counter>>

StartBit(tick, cts) ==     \* held until the host is clear to send
    /\ tx_state = "START_BIT"
    /\ tx_state' = IF tick /\ cts THEN "DATA_BITS" ELSE "START_BIT"
    /\ UNCHANGED <<tx_shift_reg, bit_counter>>

(* Mutant: the byte is one bit short. *)
DataBit_Seven(tick) ==
    /\ tx_state = "DATA_BITS" /\ tick
    /\ bit_counter' = bit_counter + 1
    /\ tx_state' = IF bit_counter >= 6 THEN "STOP_BIT" ELSE "DATA_BITS"
    /\ tx_shift_reg' = IF bit_counter >= 6 THEN tx_shift_reg ELSE tx_shift_reg \div 2

(* Mutant: off by one the other way. *)
DataBit_Nine(tick) ==
    /\ tx_state = "DATA_BITS" /\ tick
    /\ bit_counter' = bit_counter + 1
    /\ tx_state' = IF bit_counter >= 8 THEN "STOP_BIT" ELSE "DATA_BITS"
    /\ tx_shift_reg' = IF bit_counter >= 8 THEN tx_shift_reg ELSE tx_shift_reg \div 2

DataBit(tick) ==
    /\ tx_state = "DATA_BITS" /\ tick
    /\ bit_counter' = bit_counter + 1
    /\ tx_state' = IF bit_counter >= 7 THEN "STOP_BIT" ELSE "DATA_BITS"
    /\ tx_shift_reg' = IF bit_counter >= 7 THEN tx_shift_reg ELSE tx_shift_reg \div 2

StopBit(tick) ==
    /\ ByteLeaves(tick)
    /\ tx_state' = "TX_IDLE" /\ bit_counter' = 0 /\ UNCHANGED tx_shift_reg

Hold(tick) == /\ tx_state \in {"DATA_BITS", "STOP_BIT"} /\ ~tick
              /\ UNCHANGED <<tx_state, bit_counter, tx_shift_reg>>

TxSoftReset == tx_state' = "TX_IDLE" /\ bit_counter' = 0 /\ tx_shift_reg' = 0

TxClock(start, data, cts, tick, reset) ==
    /\ \/ reset /\ TxSoftReset
       \/ ~reset /\ \/ Latch(start, data, cts) \/ Idle(start, cts)
                    \/ StartBit(tick, cts) \/ DataBit(tick) \/ StopBit(tick) \/ Hold(tick)
    /\ tx_done' = ByteLeaves(tick)       \* whatever the reset does

TxTypeOK == /\ tx_state \in TxState /\ bit_counter \in 0..8
            /\ tx_shift_reg \in 0..255 /\ tx_done \in BOOLEAN
=============================================================================
