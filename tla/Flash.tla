------------------------------- MODULE Flash -------------------------------
(***************************************************************************)
(* Flash of include/flash/flash.h and src/flash/flash.cpp: mounting with   *)
(* the boot count, and one file that is appended to record by record.      *)
(*                                                                         *)
(* External, littlefs: what was written to a file is only on the medium    *)
(* once the file was synced or closed, atomically; lfs_mount fails on a    *)
(* medium without a file system; a write that needs a block when none is   *)
(* left fails; lfs_unmount only forgets.  Any other call that reads or     *)
(* writes the medium may fail as well, for a fault of the medium, and then *)
(* leaves files as they were; a format that fails may leave no file        *)
(* system.  A call with a file that could not be opened fails littlefs'    *)
(* assertion and halts the program.                                        *)
(*                                                                         *)
(* Power may be lost between any two littlefs calls.  The application      *)
(* calls mount first, and open before append and close (flash.h:22-24).    *)
(***************************************************************************)
EXTENDS FlashOffset

CONSTANTS BlockSize,  \* config.block_size
          RecordSize, \* sizeof(Packet)
          Blocks,     \* bound: blocks the file can have before the medium is full
          MaxBoots    \* bound: boots

ASSUME FlashAssumption ==
    /\ BlockSize \in Nat /\ RecordSize \in 1 .. BlockSize - 1
    /\ Blocks \in Nat \ {0} /\ MaxBoots \in Nat

VARIABLES
    disk,      \* the medium: is there a file system, the stored boot count,
               \* the size of the file as a mount would find it
    mounted,   \* lfs holds a mounted file system
    open,      \* the file is open
    size,      \* lfs_file_size of the open file, 0 if there is none
    op,        \* the member function in progress, at the littlefs call it is at
    update,    \* the parameter of bootcount()
    bootCount, \* current_count in bootcount()
    left,      \* size in append(): the bytes still to write
    base,      \* history: the size before the last append()
    appended,  \* history: did that append() return true?
    closed,    \* history: the size of the file when it was closed last
    booted,    \* history: the stored boot count before the last mount()
    faults     \* history: where the medium has failed: in "mount", "boot" or
               \* "write"

call == <<op, update, bootCount, left>>
history == <<base, appended, closed, booted>>
vars == <<disk, mounted, open, size, call, history, faults>>

Sizes == 0 .. Blocks * BlockSize
Fresh == [ok |-> TRUE, boots |-> 0, size |-> 0]
Fault(where) == faults' = faults \cup {where}
Ops == {"idle", "format", "remount", "bootread", "bootwrite", "bootclose", "append", "halted"}

TypeOK ==
    /\ disk \in [ok : BOOLEAN, boots : 0 .. MaxBoots, size : Sizes]
    /\ mounted \in BOOLEAN /\ open \in BOOLEAN /\ size \in Sizes
    /\ op \in Ops /\ update \in BOOLEAN
    /\ bootCount \in 0 .. MaxBoots /\ left \in 0 .. RecordSize
    /\ base \in Sizes /\ appended \in BOOLEAN /\ closed \in Sizes
    /\ booted \in 0 .. MaxBoots
    /\ faults \subseteq {"mount", "boot", "write"}

(* A blank chip, or one formatted before.                                  *)
Init ==
    /\ disk \in {Fresh, [Fresh EXCEPT !.ok = FALSE]}
    /\ mounted = FALSE /\ open = FALSE /\ size = 0
    /\ op = "idle" /\ update = FALSE /\ bootCount = 0 /\ left = 0
    /\ base = 0 /\ appended = FALSE /\ closed = 0 /\ booted = 0
    /\ faults = {}

-----------------------------------------------------------------------------
(* mount().                                                                *)

(* Mutation: the result of lfs_mount is tested the wrong way round.        *)
MountInverted ==
    /\ op = "idle" /\ ~mounted /\ disk.boots < MaxBoots
    /\ op' = IF disk.ok THEN "format" ELSE "bootread"
    /\ mounted' = ~disk.ok
    /\ booted' = disk.boots /\ update' = TRUE
    /\ UNCHANGED <<disk, open, size, bootCount, left, base, appended, closed, faults>>

(* The lfs_mount that comes first: any error at all leads to a format.     *)
Mount ==
    /\ op = "idle" /\ ~mounted /\ disk.boots < MaxBoots
    /\ \/ disk.ok /\ op' = "bootread" /\ mounted' = TRUE /\ UNCHANGED faults
       \/ ~disk.ok /\ op' = "format" /\ UNCHANGED <<mounted, faults>>
       \/ disk.ok /\ op' = "format" /\ Fault("mount") /\ UNCHANGED mounted
    /\ booted' = disk.boots /\ update' = TRUE
    /\ UNCHANGED <<disk, open, size, bootCount, left, base, appended, closed>>

(* Its result is ignored.                                                  *)
Format ==
    /\ op = "format" /\ op' = "remount"
    /\ disk' \in {Fresh, disk, [disk EXCEPT !.ok = FALSE]}
    /\ booted' = disk'.boots
    /\ UNCHANGED <<mounted, open, size, update, bootCount, left, base, appended, closed, faults>>

Remount ==
    /\ op = "remount"
    /\ \/ disk.ok /\ op' = "bootread" /\ mounted' = TRUE
       \/ op' = "idle" /\ UNCHANGED mounted
    /\ UNCHANGED <<disk, open, size, update, bootCount, left, history, faults>>

(* The application calls bootcount(false).                                 *)
StartBootcount ==
    /\ op = "idle" /\ mounted
    /\ op' = "bootread" /\ update' = FALSE
    /\ UNCHANGED <<disk, mounted, open, size, bootCount, left, history, faults>>

(* Only a fault while counting is remembered.                              *)
BootFault == IF update THEN Fault("boot") ELSE UNCHANGED faults

(* bootcount(): every result is ignored, a failed read counts from 0.      *)
BootRead ==
    /\ op = "bootread"
    /\ \/ /\ op' = IF update THEN "bootwrite" ELSE "bootclose"
          /\ \/ bootCount' = disk.boots /\ UNCHANGED faults
             \/ bootCount' = 0 /\ BootFault
       \/ op' = "halted" /\ BootFault /\ UNCHANGED bootCount
    /\ UNCHANGED <<disk, mounted, open, size, update, left, history>>

(* Mutation: the count is not incremented.                                 *)
BootWriteSame ==
    /\ op = "bootwrite" /\ op' = "bootclose"
    /\ UNCHANGED <<disk, mounted, open, size, update, bootCount, left, history, faults>>

BootWrite ==
    /\ op = "bootwrite" /\ op' = "bootclose"
    /\ bootCount' = bootCount + 1
    /\ UNCHANGED <<disk, mounted, open, size, update, left, history, faults>>

(* The write, if there was one, reaches the medium with the close.         *)
BootClose ==
    /\ op = "bootclose" /\ op' = "idle"
    /\ \/ /\ disk' = IF update THEN [disk EXCEPT !.boots = bootCount] ELSE disk
          /\ UNCHANGED faults
       \/ update /\ Fault("boot") /\ UNCHANGED disk
    /\ bootCount' = 0 /\ update' = FALSE
    /\ UNCHANGED <<mounted, open, size, left, history>>

-----------------------------------------------------------------------------
(* open(), append(), close(), unmount().                                   *)

Open ==
    /\ op = "idle" /\ mounted /\ ~open
    /\ \/ open' = TRUE /\ size' = disk.size /\ UNCHANGED op
       \/ op' = "halted" /\ UNCHANGED <<open, size>>
    /\ UNCHANGED <<disk, mounted, update, bootCount, left, base, appended, closed, booted, faults>>

StartAppend ==
    /\ op = "idle" /\ open
    /\ op' = "append" /\ left' = RecordSize
    /\ base' = size /\ appended' = FALSE
    /\ UNCHANGED <<disk, mounted, open, size, update, bootCount, closed, booted, faults>>

NoSpace(bytes) == BlockOf(size + bytes - 1, BlockSize) >= Blocks

(* Mutation: a record is never split.                                      *)
ChunkWhole == left

(* Mutation: a block is filled up whatever is left of the record.          *)
ChunkToEnd == Offset(size, BlockSize)

(* write_size; off = 0 would be the time for a sync.                       *)
Chunk ==
    LET off == Offset(size, BlockSize)
    IN IF off = 0 \/ left < off THEN left ELSE off

Written == /\ ~NoSpace(Chunk) /\ UNCHANGED faults
           /\ size' = size + Chunk /\ left' = left - Chunk

WriteFails == IF NoSpace(Chunk) THEN UNCHANGED faults ELSE Fault("write")

Syncs == disk' = IF Offset(size, BlockSize) = 0 THEN [disk EXCEPT !.size = size] ELSE disk

notAppend == <<mounted, open, update, bootCount, history>>

(* Mutation: the loop ends after its first turn.                           *)
AppendChunkOnce ==
    /\ op = "append" /\ left > 0 /\ op' = "idle"
    /\ Written \/ (WriteFails /\ UNCHANGED <<size, left>>)
    /\ Syncs /\ UNCHANGED notAppend

(* Mutation: a write that failed is tried again.                           *)
AppendChunkRetry ==
    /\ op = "append" /\ left > 0 /\ UNCHANGED op
    /\ Written \/ (WriteFails /\ UNCHANGED <<size, left>>)
    /\ Syncs /\ UNCHANGED notAppend

(* Mutation: the result of lfs_file_write is ignored.                      *)
AppendChunkUnchecked ==
    /\ op = "append" /\ left > 0 /\ UNCHANGED op
    /\ Written \/ (WriteFails /\ left' = left - Chunk /\ UNCHANGED size)
    /\ Syncs /\ UNCHANGED notAppend

(* One turn of the loop.  A write that fails ends the call.                *)
AppendChunk ==
    /\ op = "append" /\ left > 0
    /\ \/ Written /\ UNCHANGED op
       \/ WriteFails /\ op' = "idle" /\ UNCHANGED <<size, left>>
    /\ Syncs /\ UNCHANGED notAppend

Appended ==
    /\ op = "append" /\ left = 0
    /\ op' = "idle" /\ appended' = TRUE
    /\ UNCHANGED <<disk, mounted, open, size, update, bootCount, left, base, closed, booted, faults>>

Close ==
    /\ op = "idle" /\ open
    /\ open' = FALSE /\ size' = 0 /\ base' = 0 /\ appended' = FALSE
    /\ \/ disk' = [disk EXCEPT !.size = size] /\ closed' = size
       \/ UNCHANGED <<disk, closed>>
    /\ UNCHANGED <<mounted, call, booted, faults>>

(* A file that is still open is forgotten, not stored.                     *)
Unmount ==
    /\ op = "idle" /\ mounted /\ mounted' = FALSE
    /\ open' = FALSE /\ size' = 0 /\ base' = 0 /\ appended' = FALSE
    /\ booted' = 0
    /\ UNCHANGED <<disk, call, closed, faults>>

PowerLoss ==
    /\ mounted' = FALSE /\ op' = "idle" /\ update' = FALSE /\ bootCount' = 0 /\ left' = 0
    /\ open' = FALSE /\ size' = 0 /\ base' = 0 /\ appended' = FALSE
    /\ booted' = 0
    /\ UNCHANGED <<disk, closed, faults>>

Continue == Format \/ Remount \/ BootRead \/ BootWrite \/ BootClose
                \/ AppendChunk \/ Appended

Next ==
    \/ Mount \/ StartBootcount \/ Open \/ StartAppend \/ Close \/ Unmount \/ PowerLoss
    \/ Continue

Spec == Init /\ [][Next]_vars

(* A call that was begun goes on.                                          *)
FairSpec == Spec /\ WF_vars(Continue)

-----------------------------------------------------------------------------
(* Properties.                                                             *)

(* What was on the medium when the file was closed is never lost again,    *)
(* whatever else fails and whenever power is lost, as long as lfs_mount    *)
(* does not fail on a medium that is sound (flash.cpp:33-43, 70).          *)
ClosedDataKept == "mount" \in faults \/ disk.size >= closed

(* Unless the medium failed in a write, the file consists of whole         *)
(* records, or the medium is full up to the end of its last block: a       *)
(* record that is split between two blocks is either appended in full or   *)
(* is the last thing that ever fits (flash.cpp:77-98).                     *)
WholeRecords ==
    open /\ op = "idle" /\ size % RecordSize # 0 =>
        "write" \in faults \/ BlockOf(size, BlockSize) >= Blocks

(* When append() returns true the whole record is in the file, however     *)
(* many chunks it took and whatever failed before (flash.cpp:72-100).      *)
TrueMeansWhole == open /\ op = "idle" /\ appended => size >= base + RecordSize

(* No lfs_file_write reaches over the end of a block: the chunks are cut   *)
(* where littlefs begins a new one (flash.cpp:11-16, 75-78).               *)
ChunksWithinBlocks ==
    [][op = "append" /\ size' > size =>
           BlockOf(size' - 1, BlockSize) = BlockOf(size, BlockSize)]_vars

(* As the code stands, appending never stores anything: whatever was       *)
(* appended since the file was opened waits for close() (flash.cpp:79-86,  *)
(* whose branch is never entered).                                         *)
AppendNeverSyncs ==
    [][op = "append" /\ size' >= size => disk' = disk]_vars

(* Every mount that completes has stored a count one above the stored      *)
(* count it found, also after power was lost inside an earlier mount, and  *)
(* the count stays until the next one however often bootcount(false) asks  *)
(* for it, unless the medium failed in bootcount() (flash.cpp:41, 47-62).  *)
CountsEveryBoot ==
    mounted /\ (op \in {"bootread", "bootwrite", "bootclose"} => ~update) =>
        "boot" \in faults \/ disk.boots = booted + 1

(* Every call ends: append() too, whose loop turns until all is written or *)
(* a write fails (flash.cpp:77-99); if not with a return then by a file    *)
(* that could not be opened, which nobody notices before littlefs does     *)
(* (flash.cpp:51, 65).                                                     *)
CallsReturn == op # "idle" ~> op \in {"idle", "halted"}

(* The file is synced at the end of each block, so that a loss of power    *)
(* costs at most a block and the record in progress (flash.cpp:11-12, 80). *)
LosesAtMostABlock == open => size - disk.size <= BlockSize + RecordSize
=============================================================================
