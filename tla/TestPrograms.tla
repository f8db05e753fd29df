----------------------------- MODULE TestPrograms -----------------------------
(***************************************************************************)
(* The programs the scripts build and run on the CPU: the knight rider of  *)
(* led_blink.py, the tests of computation_test.py and coverage_test.py.    *)
(* A test is its code and what register x10 is to hold at its EBREAK.      *)
(***************************************************************************)
EXTENDS Rv32iEncoder, Rv32iDecoder

CONSTANT LoopIters         \* bound: iterations of the knight rider's delay loop

ASSUME LoopAssumption == LoopIters \in Nat \ {0}

(* Bits hi..lo of a value as a number, by a shift and a mask.                *)
Field(value, hi, lo) == UInt(Bits(value, hi, lo))

(* LUI and ADDI that load a 32-bit value; ADDI's immediate is signed.        *)
LoadImm32(rd, value) ==
    LET lower12 == Field(value, 11, 0)
        upper20 == Field(value, 31, 12)
    IN IF lower12 >= 2048
       THEN <<U("LUI", rd, (upper20 + 1) % 2^20), I("ADDI", rd, rd, lower12 - 4096)>>
       ELSE <<U("LUI", rd, upper20), I("ADDI", rd, rd, lower12)>>

Concat(parts) == LET c[k \in 0..Len(parts)] == IF k = 0 THEN <<>> ELSE c[k - 1] \o parts[k]
                 IN c[Len(parts)]

(* Mutant: offsets count from the next instruction: the delay loop's branch  *)
(* is one to itself.                                                         *)
From_NextPc(here, there) == 4 * (there - here) + 4

(* Code addressed by its index: the byte offset from one line to another.    *)
From(here, there) == 4 * (there - here)

build_knight_rider ==
    LET setup == <<U("LUI", 10, \h80004), I("ADDI", 10, 10, \h7C), I("ADDI", 11, 0, 1)>>
                   \o LoadImm32(9, Low(LoopIters, 31) \o <<0>>)
        loop_start == Len(setup)
        delay_loop == loop_start + 2
        blt == loop_start + 6
        reset == blt + 2
    IN setup \o <<
        S("SW", 11, 0, 10),
        I("ADDI", 14, 9, 0),
        I("ADDI", 14, 14, -1),                                 \* delay_loop
        B("BNE", 14, 0, From(delay_loop + 1, delay_loop)),
        I("SLLI", 11, 11, 1),
        I("ADDI", 13, 0, 8),
        B("BLT", 13, 11, From(blt, reset)),
        J("JAL", 0, From(blt + 1, loop_start)),
        I("ADDI", 11, 0, 1),                                   \* reset
        J("JAL", 0, From(reset + 1, loop_start))>>

Result(code, value) == [code |-> code \o <<N("EBREAK")>>, expected |-> Low(value, 31) \o <<0>>]

(* Mutant: the loop is noted to start at the branch that closes it. *)
Sum100_Spins == Result(
    <<I("ADDI", 10, 0, 0), I("ADDI", 11, 0, 1), I("ADDI", 12, 0, 101),
      R("ADD", 10, 10, 11), I("ADDI", 11, 11, 1), B("BNE", 11, 12, From(5, 5))>>, 5050)

build_sum100 == Result(
    <<I("ADDI", 10, 0, 0), I("ADDI", 11, 0, 1), I("ADDI", 12, 0, 101),
      R("ADD", 10, 10, 11), I("ADDI", 11, 11, 1), B("BNE", 11, 12, From(5, 3))>>, 5050)

build_fibonacci == Result(
    <<I("ADDI", 10, 0, 0), I("ADDI", 11, 0, 1), I("ADDI", 12, 0, 10),
      R("ADD", 13, 10, 11), I("ADDI", 10, 11, 0), I("ADDI", 11, 13, 0),
      I("ADDI", 12, 12, -1), B("BNE", 12, 0, From(7, 3))>>, 55)

A5A5A5A5 == LET half == Low(\hA5A5, 16) IN half \o half

build_bitcount == Result(LoadImm32(11, A5A5A5A5) \o
    <<I("ADDI", 10, 0, 0), I("ADDI", 12, 0, 32), I("ADDI", 13, 0, 1),
      R("AND", 14, 11, 13), R("ADD", 10, 10, 14), I("SRLI", 11, 11, 1),
      I("ADDI", 12, 12, -1), B("BNE", 12, 0, From(9, 5))>>, 16)

(* Most tests add the result of each instruction under test into x10.        *)
Summed(insn) == <<insn, R("ADD", 10, 10, insn.rd)>>

build_imm_arith == Result(
    <<I("ADDI", 10, 0, 0), I("ADDI", 11, 0, 7)>>
      \o Concat([k \in 1..5 |-> Summed(<<I("SLTI", 12, 11, 10), I("SLTIU", 12, 11, 100),
                 I("XORI", 12, 11, 5), I("ORI", 12, 11, 8), I("ANDI", 12, 11, 3)>>[k])])
      \o <<I("ADDI", 13, 0, -176)>> \o Summed(I("SRAI", 12, 13, 4)), 11)

build_reg_arith == Result(
    <<I("ADDI", 10, 0, 0), I("ADDI", 11, 0, 20), I("ADDI", 12, 0, 12)>>
      \o Summed(R("SUB", 13, 11, 12)) \o Summed(R("XOR", 13, 11, 12)) \o Summed(R("OR", 13, 11, 12))
      \o <<I("ADDI", 14, 0, 5)>> \o Summed(R("SLT", 13, 14, 12)) \o Summed(R("SLTU", 13, 14, 12))
      \o <<I("ADDI", 15, 0, 128)>> \o Summed(R("SRL", 13, 15, 14))
      \o <<I("ADDI", 16, 0, -128)>> \o Summed(R("SRA", 13, 16, 14)), 62)

(* A value stored and loaded back: BNE skips the count if they differ.       *)
Subtest(value, store, offset, load) ==
    <<I("ADDI", 11, 0, value), S(store, 11, offset, 9), I(load, 12, 9, offset),
      B("BNE", 12, 11, 8), I("ADDI", 10, 10, 1)>>

build_mem_rw == Result(
    <<U("LUI", 9, \h80000), I("ADDI", 9, 9, \h400), I("ADDI", 10, 0, 0)>>
      \o Subtest(42, "SW", 0, "LW") \o Subtest(165, "SB", 4, "LBU") \o Subtest(-91, "SB", 8, "LB")
      \o Subtest(2047, "SH", 12, "LHU") \o Subtest(-100, "SH", 16, "LH"), 5)

(* A branch that must be taken, over a line that spoils the count.           *)
Taken(branch) == <<branch, I("ADDI", 10, 0, -999), I("ADDI", 10, 10, 1)>>

build_branch_jalr ==
    LET main == <<I("ADDI", 10, 0, 0), I("ADDI", 11, 0, 5), I("ADDI", 12, 0, 10), I("ADDI", 13, 0, 5)>>
                  \o Taken(B("BEQ", 11, 13, 8)) \o Taken(B("BGE", 12, 11, 8))
                  \o Taken(B("BLTU", 11, 12, 8)) \o Taken(B("BGEU", 12, 11, 8))
        jal == Len(main)
        call == main \o <<J("JAL", 1, From(jal, jal + 3)), R("ADD", 10, 10, 15)>>
    IN [Result(call, 14) EXCEPT !.code = @ \o <<I("ADDI", 15, 0, 10), I("JALR", 0, 1, 0)>>]

build_auipc == Result(
    <<I("ADDI", 10, 0, 0), U("AUIPC", 11, 0), U("LUI", 12, \h80000), I("ADDI", 12, 12, 4),
      B("BEQ", 11, 12, 8), I("ADDI", 10, 0, -1), I("ADDI", 10, 10, 1)>>, 1)

TESTS == [sum100 |-> build_sum100, fibonacci |-> build_fibonacci, bitcount |-> build_bitcount,
          imm_arith |-> build_imm_arith, reg_arith |-> build_reg_arith, mem_rw |-> build_mem_rw,
          branch_jalr |-> build_branch_jalr, auipc_test |-> build_auipc]
=============================================================================
