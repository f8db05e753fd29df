------------------------------- MODULE AxiPort -------------------------------
(***************************************************************************)
(* The port of Axi4_Lite_Master.sv as the control state machine sees it,   *)
(* whatever happens on the AXI bus behind it: one start, some cycles of    *)
(* work, one cycle of transaction_done, then the outcome stays readable.   *)
(* RequestPath uses these actions for its AXI master; AxiLiteMaster is     *)
(* shown to implement them.                                                *)
(***************************************************************************)
EXTENDS BusProtocol

CONSTANTS AxiStatuses,       \* statuses a transaction may end with
          AxiPayloads(_)     \* AxiPayloads(n): what n bytes read may be

(* The master has no code for a bad CRC or command: those are the parser's. *)
ASSUME AxiStatusesAreStatuses == AxiStatuses \subseteq Status \ {STATUS_CRC_ERR, STATUS_CMD_INV}
ASSUME AxiPayloadsAreBytes == \A n \in 0..64 : AxiPayloads(n) \subseteq [1..n -> Byte]

VARIABLES axi_busy, axi_done, axi_status,
          axi_cmd,           \* cmd_reg: the command under way, or the last one
          axi_read_data      \* the bytes read; read_data_count at axi_done is its length

axiVars == <<axi_busy, axi_done, axi_status, axi_cmd, axi_read_data>>

AxiInit == /\ axi_busy = FALSE /\ axi_done = FALSE /\ axi_status = STATUS_OK
           /\ axi_cmd = 0 /\ axi_read_data = <<>>

BytesAsked(cmd) == (LenField(cmd) + 1) * BeatSize(cmd)

(* A start pulse is taken when free and ignored otherwise. *)
AxiStart(start, cmd) ==
    /\ start /\ ~axi_busy
    /\ axi_busy' = TRUE /\ axi_done' = FALSE
    /\ axi_status' = STATUS_OK /\ axi_cmd' = cmd /\ axi_read_data' = <<>>

(* A successful read delivers every byte asked for, an unsuccessful one all *)
(* or none: read_data_count is only written at the last beat.               *)
AxiFinish ==
    /\ axi_busy /\ axi_busy' = FALSE /\ axi_done' = TRUE
    /\ axi_status' \in AxiStatuses
    /\ axi_read_data' \in (IF IsRead(axi_cmd) THEN AxiPayloads(BytesAsked(axi_cmd)) ELSE {})
                          \cup (IF IsRead(axi_cmd) /\ axi_status' = STATUS_OK THEN {} ELSE {<<>>})
    /\ UNCHANGED axi_cmd

AxiIdle(start) == /\ ~(start /\ ~axi_busy)
                  /\ axi_done' = FALSE
                  /\ UNCHANGED <<axi_busy, axi_status, axi_cmd, axi_read_data>>

AxiNext == \/ \E start \in BOOLEAN : AxiIdle(start) \/ \E cmd \in Byte : AxiStart(start, cmd)
           \/ AxiFinish

AxiPortSpec == AxiInit /\ [][AxiNext]_axiVars
=============================================================================
