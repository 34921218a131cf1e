------------------------------ MODULE MCFlash ------------------------------
(***************************************************************************)
(* Behaviours of two kinds.  In one, Flash with the real record size and   *)
(* blocks that hold one record and a third: every append but a few crosses *)
(* into a new block.  In the other, a file that grows byte by byte, for    *)
(* offset() alone: with these blocks, and with those of the GD5F1GQ5xE,    *)
(* too large to count through, from a few bytes before the end of some     *)
(* block to a few bytes beyond.                                            *)
(***************************************************************************)
EXTENDS Flash

CONSTANTS GrownFile,   \* bound: the largest file with the small blocks
          ChipBlock,   \* the block size of the chip
          ChipBlocks,  \* bound: the blocks of the largest file on it
          Margin       \* bound: the bytes before and after the end of a block

VARIABLE grown \* the block size, the size of the file and its limit; all 0
               \* in a behaviour of Flash

File(blocksize, filesize, limit) ==
    [blocksize |-> blocksize, filesize |-> filesize, limit |-> limit]
NoFile == File(0, 0, 0)

MCInit ==
    /\ Init
    /\ \/ grown = NoFile
       \/ /\ disk = Fresh
          /\ \/ grown = File(BlockSize, 0, GrownFile)
             \/ \E n \in 0 .. ChipBlocks :
                    LET end == BlockEnds(ChipBlock)[n]
                    IN grown = File(ChipBlock, end - Margin, end + Margin)

Power == grown = NoFile /\ Next /\ UNCHANGED grown

Grow ==
    /\ grown # NoFile /\ UNCHANGED vars
    /\ grown' = [grown EXCEPT !.filesize = IF @ < grown.limit THEN @ + 1 ELSE @]

MCSpec == /\ MCInit /\ [][Power \/ Grow]_<<vars, grown>>
          /\ WF_vars(grown = NoFile /\ Continue /\ UNCHANGED grown)

(* offset() is exactly the room left in the block, for every size of the   *)
(* file: at the end of a block, where the next byte opens a new block, it  *)
(* is the capacity of that block (flash.cpp:17-29).                        *)
OffsetIsRoom ==
    grown # NoFile => Offset(grown.filesize, grown.blocksize)
                          = Room(grown.filesize, grown.blocksize)
=============================================================================
