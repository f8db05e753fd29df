--------------------------- MODULE MCHostSession ---------------------------
(* HostSession with programs of two words and two registers. *)
EXTENDS HostSession

(* Memory words: 1..6 are instructions, 9 is what was there before. *)
MCCells     == 0..2
MCOldMemory == [c \in MCCells |-> 9]
MCPrograms(s) == IF s = "computation" THEN <<<<1, 2>>, <<3, 4>>>> ELSE <<<<5, 6>>>>
MCPatterns  == <<[cell |-> 2, data |-> 7]>>

Leftover(kind, reg) == [kind |-> kind, reg |-> reg, value |-> InfoValue]
MCLeftovers == {<<>>, <<Leftover("read", "INFO")>>, <<Leftover("write", "CTRL")>>,
                <<Leftover("fragment", "INFO")>>}
=============================================================================
