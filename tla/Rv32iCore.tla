------------------------------- MODULE Rv32iCore -------------------------------
(***************************************************************************)
(* A reference RV32I hart, the part of it the programs of the scripts use: *)
(* the VexRiscv core itself is external to this repository.  Registers,    *)
(* addresses and memory words are 32 bits, the least significant first.    *)
(***************************************************************************)
EXTENDS Rv32iDecoder

Zero == [k \in 1..32 |-> 0]
Flag(b) == [k \in 1..32 |-> IF k = 1 /\ b THEN 1 ELSE 0]
Half(v) == [k \in 1..16 |-> (v \div 2^(k - 1)) % 2]
Signed(bits) == bits \o [k \in 1..(32 - Len(bits)) |-> bits[Len(bits)]]
Unsigned(bits) == bits \o [k \in 1..(32 - Len(bits)) |-> 0]
Fill(n, bit) == [k \in 1..n |-> bit]
BitsWhereSum(a, b, sums) == [k \in 1..32 |-> IF a[k] + b[k] \in sums THEN 1 ELSE 0]

AddCarry(a, b, carry) ==
    LET low  == UInt(Bits(a, 15, 0)) + UInt(Bits(b, 15, 0)) + carry
        high == UInt(Bits(a, 31, 16)) + UInt(Bits(b, 31, 16)) + (low \div 65536)
    IN Half(low) \o Half(high)

Plus(a, b)  == AddCarry(a, b, 0)
Minus(a, b) == AddCarry(a, [k \in 1..32 |-> 1 - b[k]], 1)

Below(a, b) == \/ UInt(Bits(a, 31, 16)) < UInt(Bits(b, 31, 16))
               \/ Bits(a, 31, 16) = Bits(b, 31, 16) /\ UInt(Bits(a, 15, 0)) < UInt(Bits(b, 15, 0))
Less(a, b)  == IF a[32] = b[32] THEN Below(a, b) ELSE a[32] = 1

Arithmetic(op, a, b) ==
    LET shamt == UInt(Bits(b, 4, 0))
    IN CASE op \in {"ADD", "ADDI"}   -> Plus(a, b)
         [] op = "SUB"               -> Minus(a, b)
         [] op \in {"SLT", "SLTI"}   -> Flag(Less(a, b))
         [] op \in {"SLTU", "SLTIU"} -> Flag(Below(a, b))
         [] op \in {"XOR", "XORI"}   -> BitsWhereSum(a, b, {1})
         [] op \in {"OR", "ORI"}     -> BitsWhereSum(a, b, {1, 2})
         [] op \in {"AND", "ANDI"}   -> BitsWhereSum(a, b, {2})
         [] op \in {"SLL", "SLLI"}   -> Fill(shamt, 0) \o SubSeq(a, 1, 32 - shamt)
         [] op \in {"SRL", "SRLI"}   -> SubSeq(a, shamt + 1, 32) \o Fill(shamt, 0)
         [] op \in {"SRA", "SRAI"}   -> SubSeq(a, shamt + 1, 32) \o Fill(shamt, a[32])

Branches(op, a, b) ==
    CASE op = "BEQ" -> a = b         [] op = "BNE" -> a # b
      [] op = "BLT" -> Less(a, b)    [] op = "BGE" -> ~Less(a, b)
      [] op = "BLTU" -> Below(a, b)  [] op = "BGEU" -> ~Below(a, b)

(* Block RAM is the 16 KB at 0x80000000, the LEDs are at 0x8000407C.  A word  *)
(* that nobody wrote is a NOP (ADDI x0, x0, 0).                              *)
Nop == [k \in 1..32 |-> IF k \in {1, 2, 5} THEN 1 ELSE 0]
Cell(mem, c) == IF c \in DOMAIN mem THEN mem[c] ELSE Nop
WordOf(addr) == UInt(Bits(addr, 13, 2))
IsLed(addr)  == UInt(Bits(addr, 14, 0)) = \h407C
Width(op)    == CASE op \in {"SB", "LB", "LBU"} -> 8 [] op \in {"SH", "LH", "LHU"} -> 16 [] OTHER -> 32
Lane(addr)   == 8 * UInt(Bits(addr, 1, 0))

Loaded(op, word, addr) ==
    LET part == SubSeq(word, Lane(addr) + 1, Lane(addr) + Width(op))
    IN IF op \in {"LBU", "LHU"} THEN Unsigned(part) ELSE Signed(part)

Stored(op, word, addr, value) ==
    [k \in 1..32 |-> IF k \in (Lane(addr) + 1)..(Lane(addr) + Width(op))
                     THEN value[k - Lane(addr)] ELSE word[k]]

(* An access must not leave its word.                                        *)
Memory == {"LB", "LH", "LW", "LBU", "LHU", "SB", "SH", "SW"}
Crosses(op, addr) == op \in Memory /\ Lane(addr) + Width(op) > 32

(* The hart after the instruction at its pc: [pc, regs, mem, led, broke].  At *)
(* what the programs have no use for it stays where it is.                   *)
Unused == {"ECALL", "MRET", "CSRRW", "CSRRS", "CSRRC", "CSRRWI", "CSRRSI", "CSRRCI"}

Executed(hart) ==
    LET insn   == Cell(hart.mem, WordOf(hart.pc))
        known  == Decoded(insn) \ Unused
        op     == CHOOSE m \in known : TRUE
        format == instructions[op].format
        imm    == Immediate(insn, format)
        a      == hart.regs[get_rs1(insn)]
        b      == hart.regs[get_rs2(insn)]
        next   == Plus(hart.pc, Unsigned(<<0, 0, 1>>))
        jump   == Plus(hart.pc, Signed(<<0>> \o imm))
        upper  == Fill(12, 0) \o imm
        addr   == Plus(a, Signed(imm))
        cell   == WordOf(addr)
        word   == Cell(hart.mem, cell)
        Write(v, pc) == [hart EXCEPT !.pc = pc,
                                     !.regs[get_rd(insn)] = IF get_rd(insn) = 0 THEN Zero ELSE v]
    IN IF known = {} \/ Crosses(op, addr) THEN hart ELSE
       CASE op = "EBREAK" -> [hart EXCEPT !.broke = TRUE]
         [] op = "LUI"    -> Write(upper, next)
         [] op = "AUIPC"  -> Write(Plus(hart.pc, upper), next)
         [] op = "JAL"    -> Write(next, jump)
         [] op = "JALR"   -> Write(next, [addr EXCEPT ![1] = 0])
         [] format = "B"  -> [hart EXCEPT !.pc = IF Branches(op, a, b) THEN jump ELSE next]
         [] format = "S"  -> IF IsLed(addr)
                             THEN [hart EXCEPT !.pc = next, !.led = UInt(Bits(b, 3, 0))]
                             ELSE [hart EXCEPT !.pc = next,
                                              !.mem = [c \in DOMAIN hart.mem \cup {cell} |->
                                                         IF c = cell THEN Stored(op, word, addr, b) ELSE hart.mem[c]]]
         [] op \in {"LB", "LH", "LW", "LBU", "LHU"} -> Write(Loaded(op, word, addr), next)
         [] format = "R"  -> Write(Arithmetic(op, a, b), next)
         [] OTHER         -> Write(Arithmetic(op, a, Signed(imm)), next)
=============================================================================
