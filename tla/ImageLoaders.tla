----------------------------- MODULE ImageLoaders -----------------------------
(***************************************************************************)
(* How a program built elsewhere becomes the words to write into memory:   *)
(* raw binaries (bin_loader.py) and Intel HEX files                        *)
(* (vexriscv_hex_loader.py).  A line of a HEX file is the bytes its digits *)
(* spell; spelling is left out, a line that is not digits is "junk".       *)
(***************************************************************************)
EXTENDS Integers, Sequences

CONSTANTS MaxBytes,        \* what c_blink.py takes the block RAM to hold
          OffsetUpper      \* upper half of the address the file's image starts at

ASSUME LoaderAssumption == MaxBytes \in Nat /\ OffsetUpper \in 0..65535

Refused == "refused"
Image(words) == [ok |-> TRUE, words |-> words]      \* by word number, from 0
NoImage      == [ok |-> FALSE, words |-> <<>>]

Byte(v)     == [k \in 1..8 |-> (v \div 2^(k - 1)) % 2]
Word(bytes) == Byte(bytes[1]) \o Byte(bytes[2]) \o Byte(bytes[3]) \o Byte(bytes[4])

Padded(bytes) == LET rest == Len(bytes) % 4
                 IN IF rest = 0 THEN bytes ELSE bytes \o [k \in 1..(4 - rest) |-> 0]

(* load_bin behind bin_size_check: the words of the file, or refused.        *)
load_bin(bytes) ==
    IF Len(bytes) > MaxBytes \/ bytes = <<>> THEN NoImage
    ELSE LET padded == Padded(bytes)
         IN Image([w \in 0..((Len(padded) \div 4) - 1) |-> Word(SubSeq(padded, 4 * w + 1, 4 * w + 4))])
------------------------------------------------------------------------------
Record(bytes) == [kind |-> "record", bytes |-> bytes]
Junk          == [kind |-> "junk", bytes |-> <<>>]
Blank         == [kind |-> "blank", bytes |-> <<>>]       \* or a comment

Sum8(bytes) == LET s[k \in 0..Len(bytes)] == IF k = 0 THEN 0 ELSE (s[k - 1] + bytes[k]) % 256
               IN s[Len(bytes)]

calculate_checksum(bytes) == (256 - Sum8(bytes)) % 256

(* A loader that has parsed nothing yet: memory by translated byte address.  *)
Fresh == [memory |-> [a \in {} |-> 0], extended |-> 0, state |-> "parsing"]

BigEndian(bytes) == LET v[k \in 0..Len(bytes)] == IF k = 0 THEN 0 ELSE 256 * v[k - 1] + bytes[k]
                    IN v[Len(bytes)]

(* What is written over what was there.                                      *)
Overlay(new, old) == [a \in DOMAIN new \cup DOMAIN old |-> IF a \in DOMAIN new THEN new[a] ELSE old[a]]

(* Data before the start of the image has no address here and is refused.    *)
process_record(l, type, address, data) ==
    CASE type = 0 ->
           LET first == 65536 * (l.extended - OffsetUpper) + address
           IN IF first < 0 THEN [l EXCEPT !.state = Refused]
              ELSE [l EXCEPT !.memory = Overlay([a \in first..(first + Len(data) - 1) |-> data[a - first + 1]], @)]
      [] type = 4 -> IF data = <<>> THEN [l EXCEPT !.state = Refused]
                     ELSE [l EXCEPT !.extended = BigEndian(data)]
      [] type = 1 -> [l EXCEPT !.state = "parsed"]
      [] OTHER    -> l

(* One line of parse_hex.  The checksum is looked for where the byte count    *)
(* says it is; what it is compared with covers all but the line's last byte.  *)
Parsed(l, line) ==
    CASE line.kind = "blank" -> l
      [] line.kind = "junk"  -> [l EXCEPT !.state = Refused]
      [] line.kind = "record" ->
           LET b     == line.bytes
               count == b[1]
           IN IF Len(b) < 5 \/ Len(b) < 5 + count
                 \/ b[5 + count] # calculate_checksum(SubSeq(b, 1, Len(b) - 1))
              THEN [l EXCEPT !.state = Refused]
              ELSE process_record(l, b[4], 256 * b[2] + b[3], SubSeq(b, 5, 4 + count))

(* Mutant: a bad line is skipped. *)
parse_hex_Skips(l, lines) ==
    IF lines = <<>> THEN [l EXCEPT !.state = "parsed"]
    ELSE IF Parsed(l, lines[1]).state = Refused THEN l ELSE Parsed(l, lines[1])

(* The file may end without an end record.                                   *)
parse_hex(l, lines) == IF lines = <<>> THEN [l EXCEPT !.state = "parsed"] ELSE Parsed(l, lines[1])

Lowest(S)  == CHOOSE a \in S : \A x \in S : a <= x
Highest(S) == CHOOSE a \in S : \A x \in S : a >= x

get_memory_range(memory) == [low |-> Lowest(DOMAIN memory), high |-> Highest(DOMAIN memory)]

(* get_word_aligned_data: bytes no record wrote are 0; no bytes at all, error. *)
get_word_aligned_data(memory) ==
    IF DOMAIN memory = {} THEN NoImage
    ELSE LET range == get_memory_range(memory)
             Get(a) == IF a \in DOMAIN memory THEN memory[a] ELSE 0
         IN Image([w \in (range.low \div 4)..(range.high \div 4) |->
                     Word(<<Get(4 * w), Get(4 * w + 1), Get(4 * w + 2), Get(4 * w + 3)>>)])
------------------------------------------------------------------------------
(* fetch_vexriscv_isa_hex.py: a directory entry is a file's lines, or Absent. *)
Absent == [there |-> FALSE, lines |-> <<>>]
File(lines) == [there |-> TRUE, lines |-> lines]

(* What a download leaves behind, given what the network did.  An existing    *)
(* file is taken as it is unless --force removed it; an error removes the     *)
(* part that came, Ctrl-C does not.                                           *)
download_hex_file(disk, force, network) ==
    CASE disk.there /\ ~force            -> disk
      [] ~(disk.there /\ ~force) /\ network.error -> Absent
      [] OTHER                           -> File(network.lines)

(* validate_hex_file of the fetch tool looks at the first line only.          *)
validate_hex_file(disk) ==
    disk.there /\ disk.lines # <<>> /\ disk.lines[1].kind = "record" /\ Len(disk.lines[1].bytes) >= 5
=============================================================================
