----------------------------- MODULE MCAxiAccess -----------------------------
(* AxiAccess on two words of memory, with accesses of every size. *)
EXTENDS AxiAccess

(* The master computes no checksum; any function of bytes will do. *)
MCCrcNext(c, b) == (c + b) % 256

(* Two words across the top of the address space; three bytes across a     *)
(* word; a halfword; a misaligned one; two halfwords across a word; a word  *)
(* written twice; reads of two words, of two bytes across lanes, of one     *)
(* byte twice; and a read that fills all 64 bytes of the buffer.            *)
MCCommands == {<<97, 4>>, <<66, 2>>, <<16, 2>>, <<17, 1>>, <<81, 2>>, <<33, 4>>,
               <<225, 0>>, <<193, 0>>, <<129, 4>>, <<175, 4>>}
MCCells == 0..7
=============================================================================
