----------------------------- MODULE MCMemoryMg ------------------------------
(***************************************************************************)
(* Four blocks of sizes 1 to 3, two of them adjacent and two with a gap,   *)
(* and every address from before the first to after the last: searches end *)
(* at the start, in the middle and just past the end of a block, and in    *)
(* the gaps.  One target address is also a client address.                 *)
(***************************************************************************)
EXTENDS MemoryMg

Block(client, size) == [client |-> client, size |-> size]
MCAddresses == 1 .. 11
MCBlocks == {Block(2, 2), Block(4, 1), Block(6, 3), Block(10, 1)}
MCTargets == {3, 20}
==============================================================================
