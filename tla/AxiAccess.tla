------------------------------ MODULE AxiAccess ------------------------------
(***************************************************************************)
(* AxiLiteMaster against an AXI4-Lite slave that may take any time over    *)
(* every handshake, never answer, or answer with an error.  The slave is a *)
(* memory of bytes: cell c holds the byte c % 256 until it is written.     *)
(***************************************************************************)
EXTENDS AxiLiteMaster, FiniteSets

CONSTANTS Commands,       \* <<command, address>> pairs the bridge may ask for
          Cells,          \* the byte addresses behind the slave
          SlaveDepth      \* accesses of each kind the slave takes in before it is answered to

ASSUME CommandsAreLegal ==
    /\ \A c \in Commands : c[1] \in Byte \ {CMD_RESET} /\ CmdValid(c[1]) /\ c[2] \in 0..(AddrSpace - 1)
    /\ Cells \subseteq Nat /\ SlaveDepth \in Nat \ {0}

VARIABLES w_addr_taken,   \* the slave holds a write address whose data has not come
          b_queue,        \* write responses not yet taken: TRUE is OKAY
          r_queue,        \* read addresses not yet answered
          asked_addr,     \* history: the address asked for
          landed,         \* history: payload byte stored in each cell since the start, or 0
          answered,       \* history: beats answered since the start
          refused,        \* history: one of them with an error
          delivered       \* history: bytes read, as counted when the transaction was done

slaveVars == <<w_addr_taken, b_queue, r_queue>>
vars == <<masterVars, slaveVars, asked_addr, landed, answered, refused, delivered>>

Port == INSTANCE AxiPort WITH
    CrcNext       <- CrcNext,
    AxiStatuses   <- {STATUS_OK, STATUS_ALIGN, STATUS_TIMEOUT, STATUS_SLVERR, STATUS_BUSY},
    AxiPayloads   <- LAMBDA n : [1..n -> Byte],
    axi_busy      <- mstate # "IDLE",
    axi_done      <- transaction_done,
    axi_status    <- IF mstate # "IDLE" THEN STATUS_OK ELSE status_reg,
    axi_cmd       <- master_cmd,
    axi_read_data <- IF mstate # "IDLE" THEN <<>> ELSE delivered

-----------------------------------------------------------------------------
(* The word behind an address, lane by lane. *)
Word(addr) == [lane \in 1..4 |-> (addr - (addr % 4) + lane - 1) % 256]

Nothing == UNCHANGED <<slaveVars, asked_addr, landed, answered, refused, delivered>>

Begin == \E c \in Commands :
    /\ StartTransaction(c[1], c[2])
    /\ asked_addr' = c[2] /\ landed' = [cell \in Cells |-> 0] /\ answered' = 0
    /\ refused' = FALSE
    /\ delivered' = <<>>
    /\ UNCHANGED slaveVars

Internal == (RestIdle \/ CheckAlignment \/ NextBeat) /\ Nothing

(* No handshake in this cycle: the slave is not ready, or has nothing to say. *)
Wait == /\ \/ WriteAddr(FALSE) \/ WriteData(FALSE) \/ WriteResp(FALSE, TRUE)
           \/ ReadAddr(FALSE) \/ ReadData(FALSE, TRUE, Word(current_addr))
        /\ Nothing

TakeWriteAddr ==
    /\ ~w_addr_taken /\ Len(b_queue) < SlaveDepth
    /\ WriteAddr(TRUE)
    /\ w_addr_taken' = TRUE
    /\ UNCHANGED <<b_queue, r_queue, asked_addr, landed, answered, refused, delivered>>

(* The write takes effect, with either response, or is refused without.     *)
TakeWriteData == \E okay \in BOOLEAN :
    /\ w_addr_taken
    /\ WriteData(TRUE)
    /\ w_addr_taken' = FALSE /\ b_queue' = Append(b_queue, okay)
    /\ LET base  == current_addr - (current_addr % 4)
           after == [c \in Cells |-> IF c - base \in wstrb THEN wdata[c - base] ELSE landed[c]]
       IN  landed' \in {after} \cup (IF okay THEN {} ELSE {landed})
    /\ UNCHANGED <<r_queue, asked_addr, answered, refused, delivered>>

GiveWriteResp == \E okay \in BOOLEAN :
    /\ b_queue # <<>> /\ Head(b_queue) = okay
    /\ WriteResp(TRUE, okay)
    /\ b_queue' = Tail(b_queue) /\ answered' = answered + 1 /\ refused' = (refused \/ ~okay)
    /\ UNCHANGED <<w_addr_taken, r_queue, asked_addr, landed, delivered>>

TakeReadAddr ==
    /\ Len(r_queue) < SlaveDepth
    /\ ReadAddr(TRUE)
    /\ r_queue' = Append(r_queue, current_addr)
    /\ UNCHANGED <<w_addr_taken, b_queue, asked_addr, landed, answered, refused, delivered>>

GiveReadData == \E okay \in BOOLEAN :
    /\ r_queue # <<>>
    /\ ReadData(TRUE, okay, Word(Head(r_queue)))
    /\ r_queue' = Tail(r_queue) /\ answered' = answered + 1 /\ refused' = (refused \/ ~okay)
    /\ UNCHANGED <<w_addr_taken, b_queue, asked_addr, landed, delivered>>

Report == /\ Finish
          /\ delivered' = SubSeq(read_data, 1, read_data_count)
          /\ UNCHANGED <<slaveVars, asked_addr, landed, answered, refused>>

Init == /\ MasterInit
        /\ w_addr_taken = FALSE /\ b_queue = <<>> /\ r_queue = <<>>
        /\ asked_addr = 0 /\ landed = [cell \in Cells |-> 0] /\ answered = 0
        /\ refused = FALSE /\ delivered = <<>>

Edge == Internal \/ Wait \/ TakeWriteAddr \/ TakeWriteData \/ GiveWriteResp
        \/ TakeReadAddr \/ GiveReadData \/ Report

Next == Begin \/ Edge
Spec == Init /\ [][Next]_vars

(* The clock runs: the master takes a step of its own, if only to count the *)
(* cycle.  The slave owes nothing.                                          *)
FairSpec == Spec /\ WF_vars(Internal \/ Wait \/ Report)

-----------------------------------------------------------------------------
(* What was asked: beat i (from 0) of the command at its address.           *)
Beats == 0..LenField(master_cmd)
BeatAddr(i) == IF IncBit(master_cmd) THEN (asked_addr + i * beat_size) % AddrSpace ELSE asked_addr
BeatCells(i) == BeatAddr(i)..(BeatAddr(i) + beat_size - 1)

(* The payload byte a cell should end with: that of the last beat on it.    *)
Wanted(c) ==
    LET on == {i \in Beats : c \in BeatCells(i)}
        i  == CHOOSE i \in on : \A j \in on : j <= i
    IN  IF on = {} THEN 0 ELSE i * beat_size + 1 + c - BeatAddr(i)

(* Every register keeps its width: no beat count, index or byte count ever  *)
(* passes the 16 beats and 64 bytes the buffers have.                       *)
MasterTypeOK ==
    /\ mstate \in MasterState /\ master_cmd \in Byte
    /\ beat_counter \in 0..15 /\ current_addr \in 0..(AddrSpace - 1)
    /\ data_byte_index \in 0..63
    /\ status_reg \in Status /\ axi_timer \in 0..AxiTimeout
    /\ early_busy_sent \in BOOLEAN /\ transaction_done \in BOOLEAN
    /\ Len(read_data) <= 64 /\ read_data_count \in 0..64

(* Axi4_Lite_Master: a transaction reported as OK has been carried out in   *)
(* full, every beat answered OKAY.  A write has stored every payload byte in the cell it was meant    *)
(* for; a read of whole words, or of bytes at a word boundary, delivers     *)
(* exactly the cells addressed, in order.                                   *)
OkMeansDone ==
    transaction_done /\ status_reg = STATUS_OK =>
        /\ answered = LenField(master_cmd) + 1 /\ ~refused
        /\ ~IsRead(master_cmd) => \A c \in Cells : landed[c] = Wanted(c)
        /\ IsRead(master_cmd) =>
             /\ Len(delivered) = answered * beat_size
             /\ \A i \in Beats, k \in 1..beat_size :
                    BeatAddr(i) % 4 = 0 => delivered[i * beat_size + k] = (BeatAddr(i) + k - 1) % 256

(* Whatever the outcome, a write changes no cell but those it addresses,    *)
(* and no cell holds a byte meant for another.                              *)
WritesStayInside ==
    \A c \in Cells : landed[c] # 0 =>
        \E i \in Beats : c \in BeatCells(i) /\ landed[c] = i * beat_size + 1 + c - BeatAddr(i)

(* What the control state machine relies on, whatever the slave does: one   *)
(* done pulse per start, a steady outcome after it, all bytes or none.      *)
PortImplemented == Port!AxiPortSpec

(* assert_axi_eventually_done of Uart_Axi4_Bridge.sv: every transaction     *)
(* ends, however mute the slave.                                            *)
AxiEventuallyDone == (mstate # "IDLE") ~> transaction_done
=============================================================================
