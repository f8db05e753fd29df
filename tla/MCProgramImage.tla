--------------------------- MODULE MCProgramImage ---------------------------
(* ProgramImage with every shipped program, and operands at the edges. *)
EXTENDS ProgramImage

Value(high, low) == Low(low, 16) \o Low(high, 16)
Job(name, via, value, operands) == [name |-> name, via |-> via, value |-> value, operands |-> operands]
Operands(rd, rs1, rs2, imm) == [rd |-> rd, rs1 |-> rs1, rs2 |-> rs2, imm |-> imm]
None4 == Operands(0, 0, 0, 0)

MCOps == <<"ADD", "SUB", "SLL", "SLT", "SLTU", "XOR", "SRL", "SRA", "OR", "AND",
           "ADDI", "SLTI", "SLTIU", "XORI", "ORI", "ANDI", "SLLI", "SRLI", "SRAI",
           "LB", "LH", "LW", "LBU", "LHU", "SB", "SH", "SW",
           "BEQ", "BNE", "BLT", "BGE", "BLTU", "BGEU", "JAL", "JALR", "LUI", "AUIPC",
           "ECALL", "EBREAK", "MRET", "FENCE",
           "CSRRW", "CSRRS", "CSRRC", "CSRRWI", "CSRRSI", "CSRRCI">>

MCConstants == {Value(0, 0), Value(0, 2047), Value(0, 2048), Value(32767, 63488),
                Value(32767, 65535), Value(65535, 65535), Value(32768, 16508)}

MCOperands == {Operands(31, 0, 31, -1), Operands(0, 31, 5, 2047), Operands(10, 5, 0, -2048),
               Operands(1, 2, 4, 2048), Operands(32, 33, 63, 4094), Operands(21, 10, 21, 349524),
               Operands(8, 16, 24, -1048576), Operands(3, 7, 15, 699050), Operands(9, 9, 9, 2097151)}

MCJobs == {Job(p, "direct", Zero, None4) : p \in DOMAIN TESTS}
          \cup {Job("knight_rider", via, Zero, None4) : via \in {"direct", "bin"}}
          \cup {Job("load_imm32", "direct", v, None4) : v \in MCConstants}
          \cup {Job("sweep", "direct", Zero, o) : o \in MCOperands}
          \cup {Job("fibonacci", via, Zero, None4) : via \in {"bin", "hex"}}
          \cup {Job("auipc_test", "hex", Zero, None4)}
          \cup {Job("load_imm32", "bin", Value(32767, 65535), None4)}

MCChanges == {1, 16, 128} \cup 240..255
=============================================================================
