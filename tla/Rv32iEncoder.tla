----------------------------- MODULE Rv32iEncoder -----------------------------
(***************************************************************************)
(* The instruction encoder the scripts assemble their programs with        *)
(* (encoder.py).  A word is its 32 bits, the least significant first: a    *)
(* shift and a mask of the code select or place a slice of them.           *)
(***************************************************************************)
EXTENDS Integers, Sequences

(* n bits of v from bit lo up; a negative v is read in two's complement.     *)
Slice(v, lo, n) == [k \in 1..n |-> (v \div 2^(lo + k - 1)) % 2]
Low(v, n)       == Slice(v, 0, n)

EncodeR(opcode, rd, funct3, rs1, rs2, funct7) ==
    Low(opcode, 7) \o Low(rd, 5) \o Low(funct3, 3) \o Low(rs1, 5) \o Low(rs2, 5) \o Low(funct7, 7)

EncodeI(opcode, rd, funct3, rs1, imm) ==
    Low(opcode, 7) \o Low(rd, 5) \o Low(funct3, 3) \o Low(rs1, 5) \o Low(imm, 12)

EncodeS(opcode, funct3, rs1, rs2, imm) ==
    Low(opcode, 7) \o Low(imm, 5) \o Low(funct3, 3) \o Low(rs1, 5) \o Low(rs2, 5) \o Slice(imm, 5, 7)

EncodeB(opcode, funct3, rs1, rs2, offset) ==
    Low(opcode, 7) \o Slice(offset, 11, 1) \o Slice(offset, 1, 4) \o Low(funct3, 3)
      \o Low(rs1, 5) \o Low(rs2, 5) \o Slice(offset, 5, 6) \o Slice(offset, 12, 1)

(* Mutant: the immediate is shifted into place unmasked. *)
EncodeU_Unmasked(opcode, rd, imm) == Low(opcode, 7) \o Low(rd, 5) \o Low(imm, 21)

EncodeU(opcode, rd, imm) == Low(opcode, 7) \o Low(rd, 5) \o Low(imm, 20)

(* Mutant: the fields of the offset in the order of their weights. *)
EncodeJ_InOrder(opcode, rd, offset) == Low(opcode, 7) \o Low(rd, 5) \o Slice(offset, 1, 20)

EncodeJ(opcode, rd, offset) ==
    Low(opcode, 7) \o Low(rd, 5) \o Slice(offset, 12, 8) \o Slice(offset, 11, 1)
      \o Slice(offset, 1, 10) \o Slice(offset, 20, 1)
------------------------------------------------------------------------------
(* funct3, and funct7 or the bits that go with the shift amount.             *)
Op     == [ADD |-> <<0, 0>>, SUB |-> <<0, \h20>>, SLL |-> <<1, 0>>, SLT |-> <<2, 0>>,
           SLTU |-> <<3, 0>>, XOR |-> <<4, 0>>, SRL |-> <<5, 0>>, SRA |-> <<5, \h20>>,
           OR |-> <<6, 0>>, AND |-> <<7, 0>>]
OpImm  == [ADDI |-> 0, SLTI |-> 2, SLTIU |-> 3, XORI |-> 4, ORI |-> 6, ANDI |-> 7]
Shift  == [SLLI |-> <<1, 0>>, SRLI |-> <<5, 0>>, SRAI |-> <<5, \h400>>]
Load   == [LB |-> 0, LH |-> 1, LW |-> 2, LBU |-> 4, LHU |-> 5]
Store  == [SB |-> 0, SH |-> 1, SW |-> 2]
Branch == [BEQ |-> 0, BNE |-> 1, BLT |-> 4, BGE |-> 5, BLTU |-> 6, BGEU |-> 7]
Upper  == [LUI |-> \h37, AUIPC |-> \h17]
Csr    == [CSRRW |-> 1, CSRRS |-> 2, CSRRC |-> 3, CSRRWI |-> 5, CSRRSI |-> 6, CSRRCI |-> 7]
System == [EBREAK |-> \h00100073, ECALL |-> \h00000073, MRET |-> \h30200073, FENCE |-> \h0000000F]

(* A line of assembly, operands in the order the encoder's methods take them. *)
Insn(op, rd, rs1, rs2, imm)  == [op |-> op, rd |-> rd, rs1 |-> rs1, rs2 |-> rs2, imm |-> imm]
R(op, rd, rs1, rs2)          == Insn(op, rd, rs1, rs2, 0)
I(op, rd, rs1, imm)          == Insn(op, rd, rs1, 0, imm)
S(op, rs2, imm, rs1)         == Insn(op, 0, rs1, rs2, imm)
B(op, rs1, rs2, offset)      == Insn(op, 0, rs1, rs2, offset)
U(op, rd, imm)               == Insn(op, rd, 0, 0, imm)
J(op, rd, offset)            == Insn(op, rd, 0, 0, offset)
N(op)                        == Insn(op, 0, 0, 0, 0)

Encoded(i) ==
    CASE i.op \in DOMAIN Op     -> EncodeR(\h33, i.rd, Op[i.op][1], i.rs1, i.rs2, Op[i.op][2])
      [] i.op \in DOMAIN OpImm  -> EncodeI(\h13, i.rd, OpImm[i.op], i.rs1, i.imm)
      [] i.op \in DOMAIN Shift  -> EncodeI(\h13, i.rd, Shift[i.op][1], i.rs1,
                                           (i.imm % 32) + Shift[i.op][2])
      [] i.op \in DOMAIN Load   -> EncodeI(\h03, i.rd, Load[i.op], i.rs1, i.imm)
      [] i.op \in DOMAIN Store  -> EncodeS(\h23, Store[i.op], i.rs1, i.rs2, i.imm)
      [] i.op \in DOMAIN Branch -> EncodeB(\h63, Branch[i.op], i.rs1, i.rs2, i.imm)
      [] i.op \in DOMAIN Upper  -> EncodeU(Upper[i.op], i.rd, i.imm)
      [] i.op = "JAL"           -> EncodeJ(\h6F, i.rd, i.imm)
      [] i.op = "JALR"          -> EncodeI(\h67, i.rd, 0, i.rs1, i.imm)
      [] i.op \in DOMAIN Csr    -> EncodeI(\h73, i.rd, Csr[i.op], i.rs1, i.imm)
      [] i.op \in DOMAIN System -> Low(System[i.op], 31) \o <<0>>
=============================================================================
