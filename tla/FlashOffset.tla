---------------------------- MODULE FlashOffset ----------------------------
(***************************************************************************)
(* offset() of src/flash/flash.cpp: how many bytes can be appended to a    *)
(* file of a given size before the block it ends in is full.               *)
(*                                                                         *)
(* External, littlefs: a file is a chain of blocks.  Block 0 holds data    *)
(* only; block n begins with one pointer of four bytes for every power of  *)
(* two that divides n.                                                     *)
(***************************************************************************)
EXTENDS Integers, FiniteSets

Word == 4                       \* sizeof(uint32_t)
Bits == 0 .. 24                 \* a file has less than 2^31 bytes, a block
                                \* at least 128: no block number has more bits
Bit(n, k) == (n \div 2^k) % 2
Popcount(n) == Cardinality({k \in Bits : Bit(n, k) = 1})   \* __builtin_popcount

(* Mutation: a file of exactly one block still counts as the first block.  *)
OffsetInclusive(filesize, blocksize) ==
    IF filesize <= blocksize
    THEN blocksize - filesize
    ELSE LET data == blocksize - 2 * Word
             pop == Popcount(filesize \div data - 1)
             n == (filesize - Word * (pop + 2)) \div data
         IN blocksize - (filesize - data * n - Word * Popcount(n))

Offset(filesize, blocksize) ==
    IF filesize < blocksize
    THEN blocksize - filesize
    ELSE LET data == blocksize - 2 * Word
             pop == Popcount(filesize \div data - 1)
             n == (filesize - Word * (pop + 2)) \div data
         IN blocksize - (filesize - data * n - Word * Popcount(n))

-----------------------------------------------------------------------------
(* The layout itself, from the pointers each block holds.                  *)

Pointers(n) == IF n = 0 THEN 0 ELSE Cardinality({k \in Bits : n % 2^k = 0})
Capacity(n, blocksize) == blocksize - Word * Pointers(n)

(* BlockEnds(blocksize)[n] is the size of a file that just fills block n.  *)
BlockEnds(blocksize) ==
    LET end[n \in Nat] == IF n = 0 THEN blocksize
                          ELSE end[n - 1] + Capacity(n, blocksize)
    IN end

(* The block the next byte of a file goes to.  n blocks have fewer than 2n *)
(* pointers.                                                               *)
BlockOf(filesize, blocksize) ==
    CHOOSE n \in 0 .. filesize \div (blocksize - 2 * Word) :
        /\ filesize < BlockEnds(blocksize)[n]
        /\ n > 0 => BlockEnds(blocksize)[n - 1] <= filesize

Room(filesize, blocksize) ==
    BlockEnds(blocksize)[BlockOf(filesize, blocksize)] - filesize
=============================================================================
