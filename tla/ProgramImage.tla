----------------------------- MODULE ProgramImage -----------------------------
(***************************************************************************)
(* From source to running program.  A program is built and encoded, comes  *)
(* into memory directly, as a raw binary or as an Intel HEX file that was  *)
(* fetched, and is run on a reference hart.  The network may fail, Ctrl-C  *)
(* may end a download, and a byte or a line of the file may be spoilt.     *)
(***************************************************************************)
EXTENDS TestPrograms, Rv32iCore, ImageLoaders

CONSTANTS Jobs,            \* [name, via, value, operands]: what is built and how it travels
          Ops,             \* mnemonics, for the jobs that encode one of each
          ChunkBytes,      \* data bytes per HEX record
          Changes,         \* what may be added to a spoilt byte
          MaxFaults        \* bound: network errors, Ctrl-Cs, spoilt files

Mnemonics == {"JAL", "JALR"} \cup UNION {DOMAIN Op, DOMAIN OpImm, DOMAIN Shift, DOMAIN Load, DOMAIN Store,
                                         DOMAIN Branch, DOMAIN Upper, DOMAIN Csr, DOMAIN System}

ASSUME ImageAssumption ==
    /\ ChunkBytes \in 1..255 /\ MaxFaults \in Nat /\ Changes \subseteq Int
    /\ Ops \in Seq(Mnemonics) /\ Len(Ops) <= 4096               \* the block RAM's words
    /\ Jobs \subseteq [name : DOMAIN TESTS \cup {"knight_rider", "load_imm32", "sweep"},
                       via : {"direct", "bin", "hex"}, value : [1..32 -> {0, 1}],
                       operands : [rd : Int, rs1 : Int, rs2 : Int, imm : Int]]

VARIABLES job, stage,
          words,           \* the encoded program
          disk,            \* the HEX file fetched
          rest, loader,    \* lines to be parsed, and what parsing has made of the others
          harm,            \* what happened to the file
          image, hart, faults

vars == <<job, stage, words, disk, rest, loader, harm, image, hart, faults>>

(* One of each instruction with the job's operands.                          *)
Sweep == [k \in 1..Len(Ops) |->
            LET o == job.operands
            IN IF Ops[k] \in DOMAIN System THEN N(Ops[k]) ELSE Insn(Ops[k], o.rd, o.rs1, o.rs2, o.imm)]

Program == CASE job.name = "knight_rider" -> [code |-> build_knight_rider, expected |-> Zero]
             [] job.name = "load_imm32" -> [code |-> LoadImm32(10, job.value) \o <<N("EBREAK")>>,
                                            expected |-> job.value]
             [] job.name = "sweep" -> [code |-> Sweep, expected |-> Zero]
             [] OTHER -> TESTS[job.name]

Expected == [w \in 0..(Len(words) - 1) |-> words[w + 1]]

ByteOf(word, n) == UInt(SubSeq(word, 8 * n + 1, 8 * n + 8))
Bytes == [b \in 1..(4 * Len(words)) |-> ByteOf(words[((b - 1) \div 4) + 1], (b - 1) % 4)]

(* objcopy, external: a raw binary, which may stop before trailing zeros, or  *)
(* an Intel HEX file.                                                         *)
Binaries == {Bytes} \cup {SubSeq(Bytes, 1, Len(Bytes) - 1) : b \in {k \in {Len(Bytes)} : Bytes[k] = 0}}

Sealed(bytes) == Record(bytes \o <<(256 - Sum8(bytes)) % 256>>)
Chunks == (Len(Bytes) + ChunkBytes - 1) \div ChunkBytes
DataLine(n) == LET first == (n - 1) * ChunkBytes
                   last  == IF first + ChunkBytes < Len(Bytes) THEN first + ChunkBytes ELSE Len(Bytes)
               IN Sealed(<<last - first, first \div 256, first % 256, 0>> \o SubSeq(Bytes, first + 1, last))
HexFile == <<Sealed(<<2, 0, 0, 4, OffsetUpper \div 256, OffsetUpper % 256>>), Blank>>
             \o [n \in 1..Chunks |-> DataLine(n)] \o <<Sealed(<<0, 0, 0, 1>>)>>
------------------------------------------------------------------------------
Fault == faults < MaxFaults /\ faults' = faults + 1

Init == /\ job \in Jobs /\ stage = "build" /\ words = <<>>
        /\ disk = Absent /\ rest = <<>> /\ loader = Fresh /\ harm = "none" /\ image = NoImage
        /\ hart = [pc |-> Zero, regs |-> [r \in 0..31 |-> Zero],
                   mem |-> [c \in {} |-> Zero], led |-> 0, broke |-> FALSE]
        /\ faults = 0

Build == /\ stage = "build"
         /\ LET code == Program.code IN words' = [k \in 1..Len(code) |-> Encoded(code[k])]
         /\ stage' = job.via
         /\ UNCHANGED <<job, disk, rest, loader, harm, image, hart, faults>>

Take(img) == image' = img /\ stage' = (IF img.ok THEN "loaded" ELSE "refused")

Direct == /\ stage = "direct" /\ Take(Image(Expected))
          /\ UNCHANGED <<job, words, disk, rest, loader, harm, hart, faults>>

LoadBin == /\ stage = "bin" /\ \E bytes \in Binaries : Take(load_bin(bytes))
           /\ UNCHANGED <<job, words, disk, rest, loader, harm, hart, faults>>

(* A run of the fetch tool that ends by itself.                              *)
Fetch(force) ==
    /\ stage = "hex"
    /\ \/ disk' = download_hex_file(disk, force, [error |-> FALSE, lines |-> HexFile])
          /\ harm' = (IF disk.there /\ ~force THEN harm ELSE "none") /\ UNCHANGED faults
       \/ Fault /\ disk' = download_hex_file(disk, force, [error |-> TRUE, lines |-> <<>>])
          /\ UNCHANGED harm
       \/ Fault /\ disk' = download_hex_file(disk, force, [error |-> FALSE, lines |-> <<Junk>>])
          /\ UNCHANGED harm
    /\ IF validate_hex_file(disk')
       THEN stage' = "parse" /\ rest' = disk'.lines /\ loader' = Fresh
       ELSE UNCHANGED <<stage, rest, loader>>
    /\ UNCHANGED <<job, words, image, hart>>

(* Ctrl-C in a download: the lines that came stay, the last of them perhaps   *)
(* cut short.                                                                 *)
FetchCut(force) ==
    /\ stage = "hex" /\ (force \/ ~disk.there) /\ Fault /\ harm' = "cut"
    /\ \E n \in 0..(Len(HexFile) - 1) : \E whole \in BOOLEAN :
         LET next == HexFile[n + 1]
             stub == IF whole \/ next.kind = "blank" THEN <<>>
                     ELSE <<Record(SubSeq(next.bytes, 1, Len(next.bytes) - 1))>>
         IN disk' = File(SubSeq(HexFile, 1, n) \o stub)
    /\ UNCHANGED <<job, stage, words, rest, loader, image, hart>>

Unread == stage = "parse" /\ rest = disk.lines /\ loader = Fresh
IsData(line) == line.kind = "record" /\ Len(line.bytes) >= 5 /\ line.bytes[4] = 0

(* The file is spoilt before it is read: a byte changed (in a byte count or   *)
(* elsewhere), a line lost, two data lines swapped.                           *)
Spoil ==
    /\ Unread /\ harm = "none" /\ Fault
    /\ \E n \in 1..Len(rest) :
         \/ /\ rest[n].kind = "record"
            /\ \E k \in 1..Len(rest[n].bytes), c \in Changes :
                 /\ rest' = [rest EXCEPT ![n].bytes[k] = (@ + c) % 256]
                 /\ harm' = (IF k = 1 THEN "count" ELSE "byte")
         \/ rest' = SubSeq(rest, 1, n - 1) \o SubSeq(rest, n + 1, Len(rest)) /\ harm' = "lost"
         \/ /\ n < Len(rest) /\ IsData(rest[n]) /\ IsData(rest[n + 1]) /\ harm' = "swapped"
            /\ rest' = [rest EXCEPT ![n] = rest[n + 1], ![n + 1] = rest[n]]
    /\ UNCHANGED <<job, stage, words, disk, loader, image, hart>>

ParseLine == /\ stage = "parse"
             /\ loader' = parse_hex(loader, rest) /\ rest' = (IF rest = <<>> THEN <<>> ELSE Tail(rest))
             /\ stage' = CASE loader'.state = "parsing" -> "parse"
                           [] loader'.state = "parsed"  -> "align"
                           [] loader'.state = Refused   -> "refused"
             /\ UNCHANGED <<job, words, disk, harm, image, hart, faults>>

Align == /\ stage = "align" /\ Take(get_word_aligned_data(loader.memory))
         /\ UNCHANGED <<job, words, disk, rest, loader, harm, hart, faults>>

(* write_program and RUN.  A wrong image is not followed any further.        *)
Start == /\ stage = "loaded" /\ image.words = Expected /\ job.name # "sweep"
         /\ hart' = [hart EXCEPT !.mem = image.words, !.pc = [Zero EXCEPT ![32] = 1]]
         /\ stage' = "run"
         /\ UNCHANGED <<job, words, disk, rest, loader, harm, image, faults>>

Step == /\ stage = "run" /\ ~hart.broke /\ hart' = Executed(hart)
        /\ UNCHANGED <<job, stage, words, disk, rest, loader, harm, image, faults>>

Next == Build \/ Direct \/ LoadBin \/ Fetch(FALSE) \/ Fetch(TRUE) \/ FetchCut(FALSE) \/ FetchCut(TRUE)
        \/ Spoil \/ ParseLine \/ Align \/ Start \/ Step

Spec == Init /\ [][Next]_vars

(* A hart that is let go runs: WF_hart(Step).  MayStep is ENABLED <<Step>>_hart,*)
(* written out because TLC would work out Executed anew for every value that  *)
(* ENABLED binds.  A hart that jams, at a word it does not decode or a branch  *)
(* to itself, cannot change and stays where it is for ever.                    *)
MayStep  == stage = "run" /\ ~hart.broke /\ Executed(hart) # hart
FairSpec == Spec /\ (<>[]MayStep => []<><<Step>>_hart)
------------------------------------------------------------------------------
(* Every word is 32 bits, every image a run of words, the hart's x0 is 0.    *)
ImageTypeOK ==
    /\ \A k \in DOMAIN words : words[k] \in [1..32 -> {0, 1}]
    /\ \A w \in DOMAIN image.words : image.words[w] \in [1..32 -> {0, 1}]
    /\ hart.regs[0] = Zero /\ hart.led \in 0..15 /\ faults \in 0..MaxFaults

(* The table the decode package is generated from takes every encoded word   *)
(* for the instruction that was meant, and its fields for the operands, out  *)
(* of range ones wrapped.  FENCE, which the table does not have, is left out. *)
OperandsKept(i, insn) ==
    LET format == instructions[i.op].format
    IN /\ format \in {"R", "I", "U", "J"} => get_rd(insn) = i.rd % 32
       /\ format \in {"R", "I", "S", "B"} => get_rs1(insn) = i.rs1 % 32
       /\ format \in {"R", "S", "B"} => get_rs2(insn) = i.rs2 % 32
       /\ format \in {"I", "S"} /\ i.op \notin DOMAIN Shift => Immediate(insn, format) = Low(i.imm, 12)
       /\ i.op \in DOMAIN Shift => get_rs2(insn) = i.imm % 32
       /\ format = "B" => Immediate(insn, format) = Slice(i.imm, 1, 12)
       /\ format = "U" => Immediate(insn, format) = Low(i.imm, 20)
       /\ format = "J" => Immediate(insn, format) = Slice(i.imm, 1, 20)

EncodingIsDecoded ==
    \A k \in DOMAIN words :
        LET i == Program.code[k]
        IN i.op # "FENCE" => /\ Decoded(words[k]) = {i.op}
                             /\ i.op \notin DOMAIN System => OperandsKept(i, words[k])

(* However it travelled, an image that is accepted is the program that was   *)
(* built: data records in any order, padding, gaps and a spoilt byte change  *)
(* nothing, or are refused.  Three harms are not noticed.  Of a file cut     *)
(* short or with a line lost every byte loaded is still right; a spoilt byte *)
(* count may make a data byte the checksum, and nothing is promised.         *)
LoadedImageIsIntact ==
    /\ image.ok /\ harm \notin {"lost", "cut", "count"} => image.words = Expected
    /\ loader.state = "parsed" /\ harm # "count" =>
          \A a \in DOMAIN loader.memory :
              a \in 0..(Len(Bytes) - 1) /\ loader.memory[a] = Bytes[a + 1]

(* Every shipped test reaches its EBREAK with the value its script expects   *)
(* in x10, and a loaded 32-bit constant is that constant, on RV32I.          *)
Test == stage = "run" /\ job.name # "knight_rider"
ResultsAreExpected == Test ~> (hart.broke /\ hart.regs[10] = Program.expected)

(* led_blink.py, "0001 -> 0010 -> 0100 -> 1000 -> 0001": each LED after the   *)
(* one before it, and all of them for ever.                                   *)
AfterLed(led) == IF led \in {0, 8} THEN 1 ELSE 2 * led
InTurn  == hart'.led # hart.led => hart'.led = AfterLed(hart.led)
Blinking == stage = "run" /\ job.name = "knight_rider"
LightsWalk == [][InTurn]_vars /\ \A led \in {1, 2, 4, 8} : Blinking ~> hart.led = led
=============================================================================
