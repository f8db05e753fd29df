----------------------------- MODULE Rv32iDecoder -----------------------------
(***************************************************************************)
(* The other half of the encoding: the instruction table of the decode     *)
(* package generator (vexriscv_rtl_parser.py) with the field helpers it    *)
(* writes, and the immediates as the disassembler of led_blink.py takes    *)
(* them apart.  Nothing here is shared with the encoder.                   *)
(***************************************************************************)
EXTENDS Integers, Sequences

DontCare == -1            \* a field the row does not look at

UInt(bits) == LET v[k \in 0..Len(bits)] == IF k = 0 THEN 0 ELSE v[k - 1] + bits[k] * 2^(k - 1)
              IN v[Len(bits)]

Bits(insn, hi, lo) == SubSeq(insn, lo + 1, hi + 1)

get_opcode(insn) == UInt(Bits(insn, 6, 0))
get_funct3(insn) == UInt(Bits(insn, 14, 12))
get_funct7(insn) == UInt(Bits(insn, 31, 25))
get_rd(insn)     == UInt(Bits(insn, 11, 7))
get_rs1(insn)    == UInt(Bits(insn, 19, 15))
get_rs2(insn)    == UInt(Bits(insn, 24, 20))
get_imm_i(insn)  == UInt(Bits(insn, 31, 20))

Row(format, opcode, funct3, funct7, imm12) ==
    [format |-> format, opcode |-> opcode, funct3 |-> funct3, funct7 |-> funct7, imm12 |-> imm12]
RowR(funct3, funct7)         == Row("R", \b0110011, funct3, funct7, DontCare)
RowI(opcode, funct3)         == Row("I", opcode, funct3, DontCare, DontCare)
RowSh(funct3, funct7)        == Row("I", \b0010011, funct3, funct7, DontCare)
RowSys(imm12)                == Row("I", \b1110011, 0, DontCare, imm12)

instructions == [
    ADD  |-> RowR(\b000, 0), SUB  |-> RowR(\b000, \b0100000), SLL |-> RowR(\b001, 0),
    SRL  |-> RowR(\b101, 0), SRA  |-> RowR(\b101, \b0100000), XOR |-> RowR(\b100, 0),
    OR   |-> RowR(\b110, 0), AND  |-> RowR(\b111, 0),
    SLT  |-> RowR(\b010, 0), SLTU |-> RowR(\b011, 0),
    ADDI |-> RowI(\b0010011, \b000), SLTI |-> RowI(\b0010011, \b010), SLTIU |-> RowI(\b0010011, \b011),
    XORI |-> RowI(\b0010011, \b100), ORI  |-> RowI(\b0010011, \b110), ANDI  |-> RowI(\b0010011, \b111),
    SLLI |-> RowSh(\b001, 0), SRLI |-> RowSh(\b101, 0), SRAI |-> RowSh(\b101, \b0100000),
    LB   |-> RowI(\b0000011, \b000), LH  |-> RowI(\b0000011, \b001), LW |-> RowI(\b0000011, \b010),
    LBU  |-> RowI(\b0000011, \b100), LHU |-> RowI(\b0000011, \b101),
    SB   |-> Row("S", \b0100011, \b000, DontCare, DontCare), SH   |-> Row("S", \b0100011, \b001, DontCare, DontCare),
    SW   |-> Row("S", \b0100011, \b010, DontCare, DontCare),
    BEQ  |-> Row("B", \b1100011, \b000, DontCare, DontCare), BNE  |-> Row("B", \b1100011, \b001, DontCare, DontCare),
    BLT  |-> Row("B", \b1100011, \b100, DontCare, DontCare), BGE  |-> Row("B", \b1100011, \b101, DontCare, DontCare),
    BLTU |-> Row("B", \b1100011, \b110, DontCare, DontCare), BGEU |-> Row("B", \b1100011, \b111, DontCare, DontCare),
    JAL  |-> Row("J", \b1101111, DontCare, DontCare, DontCare),   JALR |-> RowI(\b1100111, \b000),
    LUI  |-> Row("U", \b0110111, DontCare, DontCare, DontCare),   AUIPC |-> Row("U", \b0010111, DontCare, DontCare, DontCare),
    ECALL |-> RowSys(0), EBREAK |-> RowSys(1), MRET |-> RowSys(\b001100000010),
    CSRRW  |-> RowI(\b1110011, \b001), CSRRS  |-> RowI(\b1110011, \b010),
    CSRRC  |-> RowI(\b1110011, \b011), CSRRWI |-> RowI(\b1110011, \b101),
    CSRRSI |-> RowI(\b1110011, \b110), CSRRCI |-> RowI(\b1110011, \b111)]

(* The instructions of the table that a word is.                             *)
Decoded(insn) ==
    {m \in DOMAIN instructions :
        LET row == instructions[m]
        IN /\ row.opcode = get_opcode(insn)
           /\ row.funct3 \in {DontCare, get_funct3(insn)}
           /\ row.funct7 \in {DontCare, get_funct7(insn)}
           /\ row.imm12  \in {DontCare, get_imm_i(insn)}}

(* The immediate of a word, sign bit last; branches and jumps count halves.  *)
Immediate(insn, format) ==
    CASE format = "I" -> Bits(insn, 31, 20)
      [] format = "S" -> Bits(insn, 11, 7) \o Bits(insn, 31, 25)
      [] format = "B" -> Bits(insn, 11, 8) \o Bits(insn, 30, 25) \o Bits(insn, 7, 7) \o Bits(insn, 31, 31)
      [] format = "U" -> Bits(insn, 31, 12)
      [] format = "J" -> Bits(insn, 30, 21) \o Bits(insn, 20, 20) \o Bits(insn, 19, 12) \o Bits(insn, 31, 31)
=============================================================================
