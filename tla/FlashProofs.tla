---------------------------- MODULE FlashProofs ----------------------------
(***************************************************************************)
(* What holds of Flash for every block size, record size and fault, and of *)
(* the growing file of MCFlash.                                            *)
(***************************************************************************)
EXTENDS MCFlash, FlashOffsetProofs, TLAPS

-----------------------------------------------------------------------------
(* What the steps of append() rest on: sizes and counts are numbers.       *)
IInv ==
    /\ disk \in [ok : BOOLEAN, boots : Nat, size : Nat]
    /\ size \in Nat /\ left \in Nat /\ bootCount \in Nat

LEMMA FreshIsDisk ==
    Fresh \in [ok : BOOLEAN, boots : Nat, size : Nat]
BY DEF Fresh

LEMMA BrokenIsDisk ==
    ASSUME NEW d \in [ok : BOOLEAN, boots : Nat, size : Nat]
    PROVE  [d EXCEPT !.ok = FALSE] \in [ok : BOOLEAN, boots : Nat, size : Nat]
OBVIOUS

(* A chunk is never longer than what is left of the record.                *)
LEMMA ChunkIsNumber ==
    ASSUME BlockSize >= LeastBlock, IInv
    PROVE  Chunk \in Nat /\ Chunk <= left
<1> DEFINE off == Offset(size, BlockSize)
<1>1. off \in Int /\ off >= 1
  BY OffsetNeverZero, FlashAssumption DEF IInv
<1> QED
  BY <1>1 DEF Chunk, IInv

(* A turn of the loop in append() leaves the medium alone, and the sizes   *)
(* numbers.                                                                *)
LEMMA ChunkStaysInRam ==
    ASSUME BlockSize >= LeastBlock, IInv, AppendChunk
    PROVE  disk' = disk /\ IInv'
<1> DEFINE off == Offset(size, BlockSize)
<1>1. off \in Int /\ off >= 1
  BY OffsetNeverZero, FlashAssumption DEF IInv
<1>2. disk' = disk
  BY <1>1 DEF AppendChunk, Syncs
<1>3. Chunk \in Nat /\ Chunk <= left
  BY <1>1 DEF Chunk, IInv
<1>4. size' \in Nat /\ left' \in Nat
  BY <1>3 DEF IInv, AppendChunk, Written
<1>5. bootCount' = bootCount
  BY DEF AppendChunk, notAppend
<1> QED
  BY <1>2, <1>4, <1>5 DEF IInv

LEMMA NextIInv ==
    ASSUME BlockSize >= LeastBlock, IInv, [Next]_vars
    PROVE  IInv'
<1>1. CASE Mount
  BY <1>1 DEF IInv, Mount
<1>2. CASE Open
  BY <1>2 DEF IInv, Open
<1>9. CASE StartBootcount
  BY <1>9 DEF IInv, StartBootcount
<1>3. CASE StartAppend
  BY <1>3, FlashAssumption DEF IInv, StartAppend
<1>4. CASE Close
  BY <1>4 DEF IInv, Close, call
<1>5. CASE Unmount
  BY <1>5 DEF IInv, Unmount, call
<1>6. CASE PowerLoss
  BY <1>6 DEF IInv, PowerLoss
<1>7. CASE Continue
  <2>1. CASE Format
    <3>1. disk' \in [ok : BOOLEAN, boots : Nat, size : Nat]
      BY <2>1, FreshIsDisk, BrokenIsDisk DEF IInv, Format
    <3> QED
      BY <2>1, <3>1 DEF IInv, Format
  <2>2. CASE Remount
    BY <2>2 DEF IInv, Remount
  <2>3. CASE BootRead
    BY <2>3 DEF IInv, BootRead
  <2>4. CASE BootWrite
    BY <2>4 DEF IInv, BootWrite
  <2>5. CASE BootClose
    BY <2>5 DEF IInv, BootClose
  <2>6. CASE AppendChunk
    BY <2>6, ChunkStaysInRam
  <2>7. CASE Appended
    BY <2>7 DEF IInv, Appended
  <2> QED
    BY <1>7, <2>1, <2>2, <2>3, <2>4, <2>5, <2>6, <2>7 DEF Continue
<1>8. CASE UNCHANGED vars
  BY <1>8 DEF IInv, vars, call
<1> QED
  BY <1>1, <1>2, <1>3, <1>4, <1>5, <1>6, <1>7, <1>8, <1>9 DEF Next

(* The branch of append() that syncs is dead: no step of append() changes  *)
(* the medium, whatever the sizes of blocks and records                    *)
(* (flash.cpp:79-86).                                                      *)
THEOREM AppendsWaitForClose ==
    ASSUME BlockSize >= LeastBlock
    PROVE  Spec => AppendNeverSyncs
<1>1. Init => IInv
  BY FreshIsDisk, BrokenIsDisk DEF Init, IInv
<1>2. IInv /\ [Next]_vars => IInv'
  BY NextIInv
<1>3. IInv /\ [Next]_vars => [op = "append" /\ size' >= size => disk' = disk]_vars
  <2> SUFFICES ASSUME IInv, Next, op = "append" PROVE disk' = disk
    BY DEF vars
  <2>1. CASE AppendChunk
    BY <2>1, ChunkStaysInRam
  <2>2. CASE Appended
    BY <2>2 DEF Appended
  <2>3. CASE PowerLoss
    BY <2>3 DEF PowerLoss
  <2> QED
    BY <2>1, <2>2, <2>3 DEF Next, Mount, StartBootcount, Open, StartAppend, Close,
       Unmount, Continue, Format, Remount, BootRead, BootWrite, BootClose
<1> QED
  BY <1>1, <1>2, <1>3, PTL DEF Spec, AppendNeverSyncs
-----------------------------------------------------------------------------
(* What the other properties rest on.                                      *)

(* As long as lfs_mount does not fail on a sound medium, a format meets    *)
(* only a medium that no file was ever closed on.                          *)
Sound ==
    /\ closed \in Nat /\ (open => mounted)
    /\ op \in {"format", "remount"} => ~mounted
    /\ "mount" \notin faults =>
           /\ disk.size >= closed /\ (disk.ok \/ closed = 0)
           /\ (mounted => disk.ok) /\ (op = "format" => ~disk.ok)

(* In append() what is written and what is left make one record.           *)
InAppend ==
    /\ base \in Nat /\ (~open => appended = FALSE)
    /\ op = "append" => open /\ appended = FALSE /\ size + left = base + RecordSize
    /\ open /\ op # "append" /\ appended = TRUE => size >= base + RecordSize

Counting == op \in {"bootread", "bootwrite", "bootclose"} /\ update

(* How far mount() has got with the count.                                 *)
Counted ==
    /\ booted \in Nat
    /\ op \in {"format", "remount"} => update /\ ~mounted
    /\ op \in {"bootread", "bootwrite", "bootclose"} => mounted
    /\ op = "bootwrite" => update
    /\ op = "remount" => disk.boots = booted
    /\ "boot" \notin faults /\ mounted =>
           /\ op = "bootread" /\ update => disk.boots = booted
           /\ op = "bootwrite" => bootCount = booted
           /\ op = "bootclose" /\ update => bootCount = booted + 1
           /\ ~Counting => disk.boots = booted + 1

FlashInv == IInv /\ Sound /\ InAppend /\ Counted

(* Each part of it is kept by every step.                                  *)
LEMMA SoundNext ==
    ASSUME BlockSize >= LeastBlock, FlashInv, [Next]_vars
    PROVE  Sound'
<1> USE DEF FlashInv, Sound, IInv, Fault
<1>1. CASE Mount
  BY <1>1 DEF Mount
<1>2. CASE StartBootcount
  BY <1>2 DEF StartBootcount, history
<1>3. CASE Open
  BY <1>3 DEF Open
<1>4. CASE StartAppend
  BY <1>4 DEF StartAppend
<1>5. CASE Close
  BY <1>5 DEF Close, call
<1>6. CASE Unmount
  BY <1>6 DEF Unmount, call
<1>7. CASE PowerLoss
  BY <1>7 DEF PowerLoss
<1>8. CASE Format
  <2>1. ~disk.ok \/ "mount" \in faults
    BY <1>8 DEF Format
  <2>2. disk'.size \in Nat
    <3>1. disk' \in [ok : BOOLEAN, boots : Nat, size : Nat]
      BY <1>8, FreshIsDisk, BrokenIsDisk DEF Format
    <3> QED
      BY <3>1
  <2>3. "mount" \notin faults => closed = 0
    BY <2>1
  <2>4. op' = "remount" /\ UNCHANGED <<mounted, open, closed, faults>>
    BY <1>8 DEF Format
  <2> QED
    BY <2>2, <2>3, <2>4, <1>8 DEF Format
<1>9. CASE Remount
  BY <1>9 DEF Remount, history
<1>10. CASE BootRead
  BY <1>10 DEF BootRead, BootFault, history
<1>11. CASE BootWrite
  BY <1>11 DEF BootWrite, history
<1>12. CASE BootClose
  BY <1>12 DEF BootClose, history
<1>13. CASE AppendChunk
  BY <1>13, ChunkStaysInRam DEF AppendChunk, notAppend, history, Written, WriteFails
<1>14. CASE Appended
  BY <1>14 DEF Appended
<1>15. CASE UNCHANGED vars
  BY <1>15 DEF vars, call, history
<1> QED
  BY <1>1, <1>2, <1>3, <1>4, <1>5, <1>6, <1>7, <1>8, <1>9, <1>10, <1>11, <1>12, <1>13,
     <1>14, <1>15 DEF Next, Continue

LEMMA InAppendNext ==
    ASSUME BlockSize >= LeastBlock, FlashInv, [Next]_vars
    PROVE  InAppend'
<1> USE DEF FlashInv, InAppend, IInv, Fault
<1>1. CASE Mount
  BY <1>1 DEF Mount
<1>2. CASE StartBootcount
  BY <1>2 DEF StartBootcount, history
<1>3. CASE Open
  BY <1>3 DEF Open
<1>4. CASE StartAppend
  BY <1>4, FlashAssumption DEF StartAppend
<1>5. CASE Close
  BY <1>5 DEF Close, call
<1>6. CASE Unmount
  BY <1>6 DEF Unmount, call
<1>7. CASE PowerLoss
  BY <1>7 DEF PowerLoss
<1>8. CASE Format
  BY <1>8 DEF Format
<1>9. CASE Remount
  BY <1>9 DEF Remount, history
<1>10. CASE BootRead
  BY <1>10 DEF BootRead, history
<1>11. CASE BootWrite
  BY <1>11 DEF BootWrite, history
<1>12. CASE BootClose
  BY <1>12 DEF BootClose, history
<1>13. CASE AppendChunk
  <2>1. Chunk \in Nat
    BY <1>13, ChunkIsNumber
  <2>2. UNCHANGED <<open, base, appended>>
    BY <1>13 DEF AppendChunk, notAppend, history
  <2>3. CASE Written /\ UNCHANGED op
    BY <1>13, <2>1, <2>2, <2>3 DEF AppendChunk, Written
  <2>4. CASE op' = "idle" /\ UNCHANGED <<size, left>>
    BY <1>13, <2>1, <2>2, <2>4 DEF AppendChunk
  <2> QED
    BY <1>13, <2>3, <2>4 DEF AppendChunk
<1>14. CASE Appended
  BY <1>14, FlashAssumption DEF Appended
<1>15. CASE UNCHANGED vars
  BY <1>15 DEF vars, call, history
<1> QED
  BY <1>1, <1>2, <1>3, <1>4, <1>5, <1>6, <1>7, <1>8, <1>9, <1>10, <1>11, <1>12, <1>13,
     <1>14, <1>15 DEF Next, Continue

LEMMA CountedNext ==
    ASSUME BlockSize >= LeastBlock, FlashInv, [Next]_vars
    PROVE  Counted'
<1> USE DEF FlashInv, Counted, IInv, Fault, BootFault, Counting
<1>1. CASE Mount
  BY <1>1 DEF Mount
<1>2. CASE StartBootcount
  BY <1>2 DEF StartBootcount, history
<1>3. CASE Open
  BY <1>3 DEF Open
<1>4. CASE StartAppend
  BY <1>4 DEF StartAppend
<1>5. CASE Close
  BY <1>5 DEF Close, call
<1>6. CASE Unmount
  BY <1>6 DEF Unmount, call
<1>7. CASE PowerLoss
  BY <1>7 DEF PowerLoss
<1>8. CASE Format
  <2>1. disk'.boots \in Nat
    <3>1. disk' \in [ok : BOOLEAN, boots : Nat, size : Nat]
      BY <1>8, FreshIsDisk, BrokenIsDisk DEF Format
    <3> QED
      BY <3>1
  <2>2. /\ op = "format" /\ op' = "remount" /\ booted' = disk'.boots
        /\ UNCHANGED <<mounted, open, size, update, bootCount, faults>>
    BY <1>8 DEF Format
  <2> QED
    BY <2>1, <2>2
<1>9. CASE Remount
  BY <1>9 DEF Remount, history
<1>10. CASE BootRead
  BY <1>10 DEF BootRead, history
<1>11. CASE BootWrite
  BY <1>11 DEF BootWrite, history
<1>12. CASE BootClose
  BY <1>12 DEF BootClose, history
<1>13. CASE AppendChunk
  BY <1>13, ChunkStaysInRam DEF AppendChunk, notAppend, history, Written, WriteFails
<1>14. CASE Appended
  BY <1>14 DEF Appended
<1>15. CASE UNCHANGED vars
  BY <1>15 DEF vars, call, history
<1> QED
  BY <1>1, <1>2, <1>3, <1>4, <1>5, <1>6, <1>7, <1>8, <1>9, <1>10, <1>11, <1>12, <1>13,
     <1>14, <1>15 DEF Next, Continue

LEMMA FlashInductive ==
    ASSUME BlockSize >= LeastBlock
    PROVE  Spec => []FlashInv
<1>1. Init => FlashInv
  <2> SUFFICES ASSUME Init PROVE FlashInv
    OBVIOUS
  <2>1. IInv
    BY FreshIsDisk, BrokenIsDisk DEF Init, IInv
  <2>2. disk.size = 0
    BY DEF Init, Fresh
  <2> QED
    BY <2>1, <2>2 DEF Init, FlashInv, Sound, InAppend, Counted
<1>2. FlashInv /\ [Next]_vars => FlashInv'
  BY NextIInv, SoundNext, InAppendNext, CountedNext DEF FlashInv
<1> QED
  BY <1>1, <1>2, PTL DEF Spec

(* Data of a closed file is safe from every fault but one: that of a       *)
(* lfs_mount on a sound medium, after which mount() formats                *)
(* (flash.cpp:33-43, 70).                                                  *)
THEOREM ClosedIsSafe ==
    ASSUME BlockSize >= LeastBlock
    PROVE  Spec => []ClosedDataKept
<1>1. FlashInv => ClosedDataKept
  BY DEF FlashInv, Sound, ClosedDataKept
<1> QED
  BY <1>1, FlashInductive, PTL

(* What append() reports as written is in the file, for records and blocks *)
(* of every size (flash.cpp:72-100).                                       *)
THEOREM AppendTellsTruth ==
    ASSUME BlockSize >= LeastBlock
    PROVE  Spec => []TrueMeansWhole
<1>1. FlashInv => TrueMeansWhole
  BY DEF FlashInv, InAppend, TrueMeansWhole
<1> QED
  BY <1>1, FlashInductive, PTL

(* A boot is counted once, wherever power was lost before                  *)
(* (flash.cpp:41, 47-62).                                                  *)
THEOREM BootsAreCounted ==
    ASSUME BlockSize >= LeastBlock
    PROVE  Spec => []CountsEveryBoot
<1>1. FlashInv => CountsEveryBoot
  BY DEF FlashInv, Counted, Counting, CountsEveryBoot
<1> QED
  BY <1>1, FlashInductive, PTL

-----------------------------------------------------------------------------
(* The end of the medium, for blocks whose numbers fit Bits; the chip has  *)
(* 1024 of them.                                                           *)
MediumFits == BlockSize >= LeastBlock /\ Blocks + 2 <= 2^25

(* The size of a file that has all blocks, and those it can have.          *)
Limit == BlockEnds(BlockSize)[Blocks - 1]
Whole(bytes) == "write" \in faults \/ bytes % RecordSize = 0 \/ bytes = Limit

WithinMedium == size <= Limit /\ disk.size <= Limit /\ closed <= Limit /\ base <= Limit

(* A file that is full stays as it is; any other is made of whole records. *)
RecordsWhole ==
    /\ Whole(disk.size)
    /\ open /\ op # "append" => Whole(size)
    /\ op = "append" => Whole(base)
    /\ op = "append" /\ base % RecordSize # 0 /\ "write" \notin faults => size = base

BootsWithinBound ==
    /\ op \in {"format", "remount"} \/ (op = "bootread" /\ update) => disk.boots < MaxBoots
    /\ op = "bootwrite" => bootCount < MaxBoots

MediumInv == TypeOK /\ WithinMedium /\ RecordsWhole /\ BootsWithinBound

LEMMA LimitIsSize == ASSUME MediumFits PROVE Limit \in Sizes
<1>1. /\ BlockSize \in Nat /\ Blocks \in Nat /\ Blocks >= 1 /\ Blocks - 1 \in Nat
      /\ Blocks - 1 < 2^25 /\ BlockSize >= 128
  BY FlashAssumption DEF MediumFits, LeastBlock
<1>2. Limit = BlockSize + (BlockSize - 8) * (Blocks - 1) + 4 * Popcount(Blocks - 1)
  BY <1>1, EndsOfFile DEF Limit
<1>3. Popcount(Blocks - 1) \in Nat
  BY PopcountBound
<1>4. Limit \in Nat
  BY <1>1, <1>2, <1>3
<1>5. Limit <= BlockSize * ((Blocks - 1) + 1)
  BY <1>1, EndsBounded DEF Limit
<1>6. BlockSize * ((Blocks - 1) + 1) = Blocks * BlockSize
  BY <1>1
<1> QED
  BY <1>1, <1>4, <1>5, <1>6 DEF Sizes

(* Up to a block beyond the medium a size is in the range of the lemmas.   *)
LEMMA SizesInRange ==
    ASSUME MediumFits, NEW bytes \in Nat, bytes < Limit + BlockSize
    PROVE  InRange(bytes, BlockSize)
<1> DEFINE d == BlockSize - 8
           pop == Popcount(Blocks - 1)
           q == bytes \div d
<1>1. /\ BlockSize \in Nat /\ Blocks \in Nat /\ Blocks >= 1 /\ Blocks - 1 \in Nat
      /\ Blocks - 1 < 2^25 /\ BlockSize >= 128
  BY FlashAssumption DEF MediumFits, LeastBlock
<1>2. Limit = BlockSize + d * (Blocks - 1) + 4 * pop
  BY <1>1, EndsOfFile DEF Limit
<1>3. pop \in 0 .. 25
  BY PopcountBound
<1>4. d \in Nat \ {0} /\ d >= 120 /\ BlockSize = d + 8
  BY <1>1
<1> HIDE DEF d, pop
<1>5. d * (Blocks - 1) = d * Blocks - d /\ d * Blocks \in Int
  BY <1>1, <1>4
<1>6. bytes < d * Blocks + 2 * d
  BY <1>1, <1>2, <1>3, <1>4, <1>5
<1>7. q \in Int /\ d * q <= bytes
  BY <1>4, Division
<1> HIDE DEF q
<1>8. q < Blocks + 2
  <2> SUFFICES ASSUME Blocks + 2 <= q PROVE FALSE
    BY <1>1, <1>7
  <2>1. d * (Blocks + 2) <= d * q
    BY <1>1, <1>4, <1>7
  <2>2. d * (Blocks + 2) = d * Blocks + 2 * d
    BY <1>1, <1>4
  <2> QED
    BY <1>4, <1>5, <1>6, <1>7, <2>1, <2>2
<1>9. q < 2^25
  BY <1>1, <1>7, <1>8 DEF MediumFits
<1> QED
  BY <1>1, <1>9 DEF InRange, q, d, LeastBlock

(* The block the next byte goes to, and what is left in it.                *)
LEMMA NextBlock ==
    ASSUME NEW f, NEW b, InRange(f, b)
    PROVE  /\ IsBlockOf(BlockOf(f, b), f, b)
           /\ Offset(f, b) = BlockEnds(b)[BlockOf(f, b)] - f
<1>1. PICK n : IsBlockOf(n, f, b) /\ Offset(f, b) = BlockEnds(b)[n] - f
  BY OffsetFindsBlock
<1>2. BlockOf(f, b) = n
  BY <1>1, TheBlock
<1> QED
  BY <1>1, <1>2

(* The medium has no block for the next byte just when the file is full.   *)
LEMMA FullAtLimit ==
    ASSUME MediumFits, NEW bytes \in Nat, bytes <= Limit
    PROVE  /\ bytes = Limit => BlockOf(bytes, BlockSize) >= Blocks
           /\ bytes # Limit => /\ BlockOf(bytes, BlockSize) < Blocks
                               /\ BlockEnds(BlockSize)[BlockOf(bytes, BlockSize)] <= Limit
<1> DEFINE n == BlockOf(bytes, BlockSize)
<1>1. /\ BlockSize \in Nat /\ BlockSize >= LeastBlock /\ BlockSize > 0
      /\ Blocks \in Nat /\ Blocks - 1 \in Nat /\ Blocks - 1 < 2^25
  BY FlashAssumption DEF MediumFits, LeastBlock
<1>2. Limit \in Nat
  BY LimitIsSize, FlashAssumption DEF Sizes
<1>3. InRange(bytes, BlockSize)
  BY <1>1, <1>2, SizesInRange
<1>4. IsBlockOf(n, bytes, BlockSize)
  BY <1>3, NextBlock
<1> HIDE DEF n
<1>5. n \in Nat /\ n < 2^25
  <2>1. bytes \div (BlockSize - 8) \in Int
    BY <1>1 DEF LeastBlock
  <2> QED
    BY <1>3, <1>4, <2>1 DEF IsBlockOf, InRange
<1>6. bytes < BlockEnds(BlockSize)[n] /\ (n > 0 => BlockEnds(BlockSize)[n - 1] <= bytes)
  BY <1>4 DEF IsBlockOf
<1>7. BlockEnds(BlockSize)[n] \in Int
  BY <1>1, <1>5, EndsOfFile
<1>8. CASE n < Blocks
  <2>1. BlockEnds(BlockSize)[n] <= Limit
    <3>1. CASE n = Blocks - 1
      BY <1>2, <3>1 DEF Limit
    <3>2. CASE n < Blocks - 1
      <4>1. BlockEnds(BlockSize)[n] < Limit
        BY <1>1, <1>5, <3>2, EndsAscend DEF Limit
      <4> QED
        BY <1>2, <1>7, <4>1
    <3> QED
      BY <1>1, <1>5, <1>8, <3>1, <3>2
  <2>2. bytes < Limit
    BY <1>2, <1>6, <1>7, <2>1
  <2> QED
    BY <1>8, <2>1, <2>2 DEF n
<1>9. CASE n >= Blocks
  <2>1. n > 0 /\ n - 1 \in Nat /\ n - 1 < 2^25 /\ BlockEnds(BlockSize)[n - 1] \in Int
    <3>1. n > 0 /\ n - 1 \in Nat /\ n - 1 < 2^25
      BY <1>1, <1>5, <1>9
    <3> QED
      BY <1>1, <3>1, EndsOfFile
  <2>2. Limit <= BlockEnds(BlockSize)[n - 1]
    <3>1. CASE n = Blocks
      BY <1>2, <3>1 DEF Limit
    <3>2. CASE n > Blocks
      <4>1. Blocks - 1 < n - 1
        BY <1>1, <1>5, <3>2
      <4>2. Limit < BlockEnds(BlockSize)[n - 1]
        BY <1>1, <2>1, <4>1, EndsAscend DEF Limit
      <4> QED
        BY <1>2, <2>1, <4>2
    <3> QED
      BY <1>1, <1>5, <1>9, <3>1, <3>2
  <2>3. bytes = Limit
    BY <1>2, <1>6, <2>1, <2>2
  <2> QED
    BY <1>9, <2>3 DEF n
<1> QED
  BY <1>1, <1>5, <1>8, <1>9

(* A chunk stays in its block, and fails for want of space just when the   *)
(* file is full.                                                           *)
LEMMA ChunkFits ==
    ASSUME MediumFits, IInv, size <= Limit, left \in 1 .. RecordSize
    PROVE  /\ Chunk \in 1 .. left
           /\ BlockOf(size + Chunk - 1, BlockSize) = BlockOf(size, BlockSize)
           /\ NoSpace(Chunk) <=> size = Limit
           /\ ~NoSpace(Chunk) => size + Chunk <= Limit
<1> DEFINE off == Offset(size, BlockSize)
           n == BlockOf(size, BlockSize)
           e == BlockEnds(BlockSize)[n]
           last == size + Chunk - 1
           d == BlockSize - 8
<1>1. /\ BlockSize \in Nat /\ BlockSize >= LeastBlock /\ BlockSize >= 128 /\ size \in Nat
      /\ RecordSize \in Nat /\ RecordSize < BlockSize /\ Blocks \in Nat
  BY FlashAssumption DEF MediumFits, LeastBlock, IInv
<1>2. Limit \in Nat
  BY LimitIsSize, <1>1 DEF Sizes
<1>3. InRange(size, BlockSize)
  BY <1>1, <1>2, SizesInRange
<1>4. IsBlockOf(n, size, BlockSize) /\ off = e - size
  BY <1>3, NextBlock
<1>5. off \in Int /\ off >= 1
  BY <1>1, OffsetNeverZero
<1>6. Chunk \in 1 .. left /\ Chunk <= off
  BY <1>5 DEF Chunk
<1> HIDE DEF off, n
<1>7. n \in 0 .. size \div d /\ size < e /\ (n > 0 => BlockEnds(BlockSize)[n - 1] <= size)
  BY <1>4 DEF IsBlockOf
<1>8. n \in Nat /\ n < 2^25
  <2>1. size \div d \in Int
    BY <1>1
  <2> QED
    BY <1>3, <1>7, <2>1 DEF InRange
<1>9. e \in Int
  BY <1>1, <1>8, EndsOfFile
<1>10. last \in Nat /\ size <= last /\ last < e /\ last < Limit + BlockSize
  BY <1>1, <1>2, <1>4, <1>5, <1>6, <1>9
<1> HIDE DEF last, e
<1>11. InRange(last, BlockSize)
  BY <1>10, SizesInRange
<1>12. n \in 0 .. last \div d
  <2>1. d \in Nat \ {0} /\ size \in Int /\ last \in Int
    BY <1>1, <1>10
  <2> HIDE DEF d
  <2>2. size \div d \in Int /\ last \div d \in Int /\ size \div d <= last \div d
    BY <1>10, <2>1, SmallerQuotient
  <2> QED
    BY <1>7, <1>8, <2>2
<1>13. BlockEnds(BlockSize)[n - 1] \in Int \/ n = 0
  <2>1. n # 0 => n - 1 \in Nat /\ n - 1 < 2^25
    BY <1>8
  <2> QED
    BY <1>1, <2>1, EndsOfFile
<1>14. n > 0 => BlockEnds(BlockSize)[n - 1] <= last
  BY <1>1, <1>7, <1>10, <1>13
<1>15. IsBlockOf(n, last, BlockSize)
  BY <1>10, <1>12, <1>14 DEF IsBlockOf, e, d
<1>16. BlockOf(last, BlockSize) = n
  BY <1>11, <1>15, TheBlock
<1>17. /\ size = Limit => n >= Blocks
       /\ size # Limit => n < Blocks /\ e <= Limit
  BY <1>1, FullAtLimit DEF n, e
<1>18. NoSpace(Chunk) <=> n >= Blocks
  BY <1>16 DEF NoSpace, last
<1>19. ~NoSpace(Chunk) => size + Chunk <= Limit
  <2> SUFFICES ASSUME ~NoSpace(Chunk) PROVE size + Chunk <= Limit
    OBVIOUS
  <2>1. e <= Limit
    BY <1>17, <1>18
  <2>2. size + Chunk <= e
    BY <1>1, <1>4, <1>5, <1>6, <1>9
  <2> QED
    BY <1>1, <1>2, <1>6, <1>9, <2>1, <2>2
<1> QED
  BY <1>1, <1>6, <1>8, <1>16, <1>17, <1>18, <1>19 DEF last, n

LEMMA DiskRecords ==
    /\ Fresh \in [ok : BOOLEAN, boots : 0 .. MaxBoots, size : Sizes] /\ Fresh.size = 0
    /\ \A d \in [ok : BOOLEAN, boots : 0 .. MaxBoots, size : Sizes] :
           /\ d.boots \in 0 .. MaxBoots /\ d.size \in Sizes
           /\ LET broken == [d EXCEPT !.ok = FALSE]
              IN /\ broken \in [ok : BOOLEAN, boots : 0 .. MaxBoots, size : Sizes]
                 /\ broken.size = d.size /\ broken.boots = d.boots
           /\ \A s \in Sizes :
                  LET stored == [d EXCEPT !.size = s]
                  IN /\ stored \in [ok : BOOLEAN, boots : 0 .. MaxBoots, size : Sizes]
                     /\ stored.size = s /\ stored.boots = d.boots
           /\ \A n \in 0 .. MaxBoots :
                  LET counted == [d EXCEPT !.boots = n]
                  IN /\ counted \in [ok : BOOLEAN, boots : 0 .. MaxBoots, size : Sizes]
                     /\ counted.size = d.size /\ counted.boots = n
<1>1. 0 \in Sizes /\ 0 \in 0 .. MaxBoots
  BY FlashAssumption DEF Sizes
<1>2. Fresh \in [ok : BOOLEAN, boots : 0 .. MaxBoots, size : Sizes] /\ Fresh.size = 0
  BY <1>1 DEF Fresh
<1> HIDE DEF Sizes
<1> QED
  BY <1>2

(* The steps outside of append().                                          *)
LEMMA CallsKeepMedium ==
    ASSUME MediumFits, FlashInv, MediumInv,
           \/ Mount \/ StartBootcount \/ Open \/ Close \/ Unmount \/ PowerLoss
           \/ Format \/ Remount \/ BootRead \/ BootWrite \/ BootClose \/ UNCHANGED vars
    PROVE  MediumInv'
<1> DEFINE Disks == [ok : BOOLEAN, boots : 0 .. MaxBoots, size : Sizes]
<1>1. 0 \in Sizes /\ Limit \in Sizes /\ 0 <= Limit /\ 0 % RecordSize = 0 /\ 0 \in 0 .. MaxBoots
      /\ 0 \in 0 .. RecordSize
  BY LimitIsSize, FlashAssumption DEF Sizes
<1>2. /\ disk \in Disks /\ disk.size \in Sizes /\ disk.boots \in 0 .. MaxBoots
      /\ Fresh \in Disks /\ Fresh.size = 0
  BY DiskRecords DEF MediumInv, TypeOK
<1> USE DEF MediumInv
<1>3. CASE Mount
  <2>1. TypeOK'
    BY <1>3, <1>2 DEF Mount, TypeOK, Ops, Fault
  <2>2. WithinMedium' /\ BootsWithinBound'
    BY <1>3 DEF Mount, WithinMedium, BootsWithinBound
  <2>3. RecordsWhole'
    BY <1>3 DEF Mount, RecordsWhole, Whole, Limit, Fault
  <2> QED
    BY <2>1, <2>2, <2>3
<1>4. CASE StartBootcount
  <2>1. TypeOK'
    BY <1>4, <1>2 DEF StartBootcount, TypeOK, Ops, history
  <2>2. WithinMedium' /\ BootsWithinBound'
    BY <1>4 DEF StartBootcount, WithinMedium, BootsWithinBound, history
  <2>3. RecordsWhole'
    BY <1>4 DEF StartBootcount, RecordsWhole, Whole, Limit, history
  <2> QED
    BY <2>1, <2>2, <2>3
<1>5. CASE Open
  <2>1. TypeOK'
    BY <1>5, <1>2 DEF Open, TypeOK, Ops
  <2>2. WithinMedium' /\ BootsWithinBound'
    BY <1>5 DEF Open, WithinMedium, BootsWithinBound
  <2>3. RecordsWhole'
    BY <1>5 DEF Open, RecordsWhole, Whole, Limit
  <2> QED
    BY <2>1, <2>2, <2>3
<1>6. CASE Close
  <2>1. /\ UNCHANGED <<mounted, op, update, bootCount, left, booted, faults>> /\ op = "idle" /\ open
        /\ open' = FALSE /\ size' = 0 /\ base' = 0 /\ appended' = FALSE
        /\ closed' \in {closed, size}
    BY <1>6 DEF Close, call
  <2>2. disk' \in Disks /\ disk'.boots = disk.boots /\ disk'.size \in {disk.size, size}
    <3>1. size \in Sizes
      BY DEF TypeOK
    <3> QED
      BY <1>2, <1>6, <3>1, DiskRecords DEF Close
  <2>3. TypeOK'
    BY <1>1, <2>1, <2>2 DEF TypeOK
  <2>4. WithinMedium' /\ BootsWithinBound'
    BY <1>1, <2>1, <2>2 DEF WithinMedium, BootsWithinBound
  <2>5. RecordsWhole'
    BY <2>1, <2>2 DEF RecordsWhole, Whole, Limit
  <2> QED
    BY <2>3, <2>4, <2>5
<1>7. CASE Unmount
  <2>1. TypeOK'
    BY <1>1, <1>7, <1>2 DEF Unmount, TypeOK, call
  <2>2. WithinMedium' /\ BootsWithinBound'
    BY <1>1, <1>7 DEF Unmount, WithinMedium, BootsWithinBound, call
  <2>3. RecordsWhole'
    BY <1>7 DEF Unmount, RecordsWhole, Whole, Limit, call
  <2> QED
    BY <2>1, <2>2, <2>3
<1>8. CASE PowerLoss
  <2>1. TypeOK'
    BY <1>1, <1>8, <1>2 DEF PowerLoss, TypeOK, Ops
  <2>2. WithinMedium' /\ BootsWithinBound'
    BY <1>1, <1>8 DEF PowerLoss, WithinMedium, BootsWithinBound
  <2>3. RecordsWhole'
    BY <1>8 DEF PowerLoss, RecordsWhole, Whole, Limit
  <2> QED
    BY <2>1, <2>2, <2>3
<1>9. CASE Format
  <2>1. /\ UNCHANGED <<mounted, open, size, update, bootCount, left, base, appended, closed, faults>>
        /\ op = "format" /\ op' = "remount" /\ booted' = disk'.boots
    BY <1>9 DEF Format
  <2>2. disk' \in Disks /\ disk'.boots \in {0, disk.boots} /\ disk'.size \in {0, disk.size}
    <3> DEFINE broken == [disk EXCEPT !.ok = FALSE]
    <3>1. broken \in Disks /\ broken.size = disk.size /\ broken.boots = disk.boots
      BY <1>2, DiskRecords
    <3>2. Fresh.boots = 0
      BY DEF Fresh
    <3>3. disk' \in {Fresh, disk, broken}
      BY <1>9 DEF Format
    <3> QED
      BY <1>2, <3>1, <3>2, <3>3
  <2>3. TypeOK'
    BY <1>1, <1>2, <2>1, <2>2 DEF TypeOK, Ops
  <2>4. WithinMedium'
    BY <1>1, <2>1, <2>2 DEF WithinMedium, Limit
  <2>5. BootsWithinBound'
    BY <1>2, <2>1, <2>2, FlashAssumption DEF BootsWithinBound
  <2>6. RecordsWhole'
    BY <1>1, <2>1, <2>2 DEF RecordsWhole, Whole, Limit
  <2> QED
    BY <2>3, <2>4, <2>5, <2>6
<1>10. CASE Remount
  <2>1. TypeOK'
    BY <1>10, <1>2 DEF Remount, TypeOK, Ops, history
  <2>2. WithinMedium' /\ BootsWithinBound'
    BY <1>10 DEF Remount, WithinMedium, BootsWithinBound, history
  <2>3. RecordsWhole'
    BY <1>10 DEF Remount, RecordsWhole, Whole, Limit, history
  <2> QED
    BY <2>1, <2>2, <2>3
<1>11. CASE BootRead
  <2>1. TypeOK'
    BY <1>1, <1>11, <1>2 DEF BootRead, BootFault, Fault, TypeOK, Ops, history
  <2>2. WithinMedium' /\ BootsWithinBound'
    BY <1>2, <1>11, FlashAssumption DEF BootRead, WithinMedium, BootsWithinBound, history
  <2>3. RecordsWhole'
    BY <1>11 DEF BootRead, BootFault, Fault, RecordsWhole, Whole, Limit, history
  <2> QED
    BY <2>1, <2>2, <2>3
<1>12. CASE BootWrite
  <2>1. bootCount' \in 0 .. MaxBoots
    BY <1>12, FlashAssumption DEF BootWrite, TypeOK, BootsWithinBound
  <2>2. TypeOK'
    BY <1>12, <1>2, <2>1 DEF BootWrite, TypeOK, Ops, history
  <2>3. WithinMedium' /\ BootsWithinBound'
    BY <1>12 DEF BootWrite, WithinMedium, BootsWithinBound, history
  <2>4. RecordsWhole'
    BY <1>12 DEF BootWrite, RecordsWhole, Whole, Limit, history
  <2> QED
    BY <2>2, <2>3, <2>4
<1>13. CASE BootClose
  <2>1. /\ UNCHANGED <<mounted, open, size, left, base, appended, closed, booted>>
        /\ op = "bootclose" /\ op' = "idle" /\ bootCount' = 0 /\ update' = FALSE
        /\ faults' \in {faults, faults \cup {"boot"}}
    BY <1>13 DEF BootClose, history, Fault
  <2>2. disk' \in Disks /\ disk'.size = disk.size
    <3>1. bootCount \in 0 .. MaxBoots
      BY DEF TypeOK
    <3> QED
      BY <1>2, <1>13, <3>1, DiskRecords DEF BootClose
  <2>3. TypeOK'
    BY <1>1, <2>1, <2>2 DEF TypeOK, Ops
  <2>4. WithinMedium' /\ BootsWithinBound'
    BY <2>1, <2>2 DEF WithinMedium, BootsWithinBound
  <2>5. RecordsWhole'
    BY <2>1, <2>2 DEF RecordsWhole, Whole, Limit
  <2> QED
    BY <2>3, <2>4, <2>5
<1>14. CASE UNCHANGED vars
  <2>1. TypeOK'
    BY <1>14, <1>2 DEF vars, TypeOK, call, history
  <2>2. WithinMedium' /\ BootsWithinBound'
    BY <1>14 DEF vars, WithinMedium, BootsWithinBound, call, history
  <2>3. RecordsWhole'
    BY <1>14 DEF vars, RecordsWhole, Whole, Limit, call, history
  <2> QED
    BY <2>1, <2>2, <2>3
<1> QED
  BY <1>3, <1>4, <1>5, <1>6, <1>7, <1>8, <1>9, <1>10, <1>11, <1>12, <1>13, <1>14

LEMMA AnotherRecord ==
    ASSUME NEW a \in Nat, NEW b \in Nat \ {0}, a % b = 0
    PROVE  (a + b) % b = 0
<1> DEFINE q == a \div b
<1>1. a \in Int /\ q \in Int /\ a = b * q + (a % b)
  <2>1. a \in Int
    OBVIOUS
  <2> QED
    BY <2>1, Division
<1> HIDE DEF q
<1>2. a = b * q
  BY <1>1
<1>3. a + b = b * (q + 1) + 0 /\ q + 1 \in Int /\ 0 \in 0 .. b - 1 /\ a + b \in Int
  BY <1>1, <1>2
<1> QED
  BY <1>3, DivisionUnique

(* append() itself.                                                        *)
LEMMA AppendKeepsMedium ==
    ASSUME MediumFits, FlashInv, MediumInv, StartAppend \/ AppendChunk \/ Appended
    PROVE  MediumInv'
<1>1. /\ RecordSize \in Nat \ {0} /\ size \in Nat /\ base \in Nat /\ left \in Nat
      /\ Limit \in Sizes /\ Limit \in Nat
  BY LimitIsSize, FlashAssumption DEF FlashInv, IInv, InAppend, Sizes
<1> USE DEF MediumInv
<1>2. CASE StartAppend
  <2>1. RecordSize \in 0 .. RecordSize
    BY <1>1
  <2>2. TypeOK'
    BY <1>2, <2>1 DEF StartAppend, TypeOK, Ops
  <2>3. WithinMedium' /\ BootsWithinBound'
    BY <1>2 DEF StartAppend, WithinMedium, BootsWithinBound
  <2>4. RecordsWhole'
    BY <1>2 DEF StartAppend, RecordsWhole, Whole, Limit
  <2> QED
    BY <2>2, <2>3, <2>4
<1>3. CASE Appended
  <2>1. TypeOK'
    BY <1>3 DEF Appended, TypeOK, Ops
  <2>2. WithinMedium' /\ BootsWithinBound'
    BY <1>3 DEF Appended, WithinMedium, BootsWithinBound
  <2>3. Whole(size)
    <3>1. size = base + RecordSize
      BY <1>1, <1>3 DEF Appended, FlashInv, InAppend
    <3>2. CASE base % RecordSize = 0
      <4>1. size % RecordSize = 0
        BY <1>1, <3>1, <3>2, AnotherRecord
      <4> QED
        BY <4>1 DEF Whole
    <3>3. CASE base % RecordSize # 0
      <4>1. "write" \in faults
        BY <1>1, <1>3, <3>1, <3>3 DEF Appended, RecordsWhole
      <4> QED
        BY <4>1 DEF Whole
    <3> QED
      BY <3>2, <3>3
  <2>4. RecordsWhole'
    BY <1>3, <2>3 DEF Appended, RecordsWhole, Whole, Limit
  <2> QED
    BY <2>1, <2>2, <2>4
<1>4. CASE AppendChunk
  <2>1. /\ op = "append" /\ open /\ left \in 1 .. RecordSize /\ size <= Limit
        /\ UNCHANGED <<mounted, open, update, bootCount, base, appended, closed, booted>>
    BY <1>1, <1>4 DEF AppendChunk, notAppend, history, TypeOK, FlashInv, InAppend, WithinMedium
  <2>2. disk' = disk
    BY <1>4, ChunkStaysInRam DEF FlashInv, MediumFits
  <2>3. /\ Chunk \in 1 .. left /\ (NoSpace(Chunk) <=> size = Limit)
        /\ ~NoSpace(Chunk) => size + Chunk <= Limit
    BY <2>1, ChunkFits DEF FlashInv
  <2>4. CASE Written /\ UNCHANGED op
    <3>1. /\ size' = size + Chunk /\ left' = left - Chunk /\ faults' = faults /\ op' = op
          /\ size # Limit /\ size + Chunk <= Limit
      BY <2>3, <2>4 DEF Written
    <3>2. size' \in Sizes /\ size' <= Limit /\ left' \in 0 .. RecordSize
      BY <1>1, <2>1, <2>3, <3>1, FlashAssumption DEF Sizes
    <3>3. TypeOK'
      BY <2>1, <2>2, <3>1, <3>2 DEF TypeOK
    <3>4. WithinMedium' /\ BootsWithinBound'
      BY <2>1, <2>2, <3>1, <3>2 DEF WithinMedium, BootsWithinBound, Limit
    <3>5. base % RecordSize = 0 \/ "write" \in faults
      BY <2>1, <3>1 DEF RecordsWhole, Whole
    <3>6. RecordsWhole'
      BY <2>1, <2>2, <3>1, <3>5 DEF RecordsWhole, Whole, Limit
    <3> QED
      BY <3>3, <3>4, <3>6
  <2>5. CASE WriteFails /\ op' = "idle" /\ UNCHANGED <<size, left>>
    <3>1. IF size = Limit THEN faults' = faults ELSE faults' = faults \cup {"write"}
      BY <2>3, <2>5 DEF WriteFails, Fault
    <3>2. TypeOK'
      BY <2>1, <2>2, <2>5, <3>1 DEF TypeOK, Ops
    <3>3. WithinMedium' /\ BootsWithinBound'
      BY <2>1, <2>2, <2>5 DEF WithinMedium, BootsWithinBound, Limit
    <3>4. RecordsWhole'
      BY <2>1, <2>2, <2>5, <3>1 DEF RecordsWhole, Whole, Limit
    <3> QED
      BY <3>2, <3>3, <3>4
  <2> QED
    BY <1>4, <2>4, <2>5 DEF AppendChunk
<1> QED
  BY <1>2, <1>3, <1>4

LEMMA MediumInductive == ASSUME MediumFits PROVE Spec => [](FlashInv /\ MediumInv)
<1>1. Init => MediumInv
  <2> SUFFICES ASSUME Init PROVE MediumInv
    OBVIOUS
  <2>1. 0 \in Sizes /\ 0 <= Limit /\ 0 % RecordSize = 0 /\ 0 \in 0 .. MaxBoots /\ 0 \in 0 .. RecordSize
    BY LimitIsSize, FlashAssumption DEF Sizes
  <2>2. disk \in [ok : BOOLEAN, boots : 0 .. MaxBoots, size : Sizes] /\ disk.size = 0
    BY DiskRecords DEF Init
  <2>3. TypeOK
    BY <2>1, <2>2 DEF Init, TypeOK, Ops
  <2>4. WithinMedium /\ BootsWithinBound /\ RecordsWhole
    BY <2>1, <2>2 DEF Init, WithinMedium, BootsWithinBound, RecordsWhole, Whole
  <2> QED
    BY <2>3, <2>4 DEF MediumInv
<1>2. FlashInv /\ MediumInv /\ [Next]_vars => MediumInv'
  BY CallsKeepMedium, AppendKeepsMedium DEF Next, Continue
<1>3. Spec => []FlashInv
  BY FlashInductive DEF MediumFits
<1> QED
  BY <1>1, <1>2, <1>3, PTL DEF Spec

(* Sizes and counts stay in range: a file never outgrows the medium        *)
(* (flash.cpp:64-101).                                                     *)
THEOREM TypeCorrect ==
    ASSUME MediumFits
    PROVE  Spec => []TypeOK
<1>1. MediumInv => TypeOK
  BY DEF MediumInv
<1> QED
  BY <1>1, MediumInductive, PTL

(* The file consists of whole records, or it is full up to the last byte,  *)
(* unless a write failed (flash.cpp:77-98).                                *)
THEOREM RecordsStayWhole ==
    ASSUME MediumFits
    PROVE  Spec => []WholeRecords
<1>1. FlashInv /\ MediumInv => WholeRecords
  <2> SUFFICES ASSUME FlashInv, MediumInv, open, op = "idle", size % RecordSize # 0,
                      "write" \notin faults
               PROVE  BlockOf(size, BlockSize) >= Blocks
    BY DEF WholeRecords
  <2>1. size = Limit /\ size \in Nat /\ size <= Limit
    BY DEF FlashInv, IInv, MediumInv, WithinMedium, RecordsWhole, Whole
  <2> QED
    BY <2>1, FullAtLimit
<1> QED
  BY <1>1, MediumInductive, PTL

(* What is given to lfs_file_write lies in one block, for blocks and       *)
(* records of every size (flash.cpp:11-16, 75-78).                         *)
THEOREM ChunksStayInBlocks ==
    ASSUME MediumFits
    PROVE  Spec => ChunksWithinBlocks
<1>1. FlashInv /\ MediumInv /\ [Next]_vars
          => [op = "append" /\ size' > size =>
                  BlockOf(size' - 1, BlockSize) = BlockOf(size, BlockSize)]_vars
  <2> SUFFICES ASSUME FlashInv, MediumInv, Next, op = "append", size' > size
               PROVE  BlockOf(size' - 1, BlockSize) = BlockOf(size, BlockSize)
    BY DEF vars
  <2>1. size \in Nat /\ left \in 0 .. RecordSize /\ size <= Limit /\ RecordSize \in Nat
    BY FlashAssumption DEF FlashInv, IInv, MediumInv, TypeOK, WithinMedium
  <2>2. CASE AppendChunk
    <3>1. size' = size + Chunk
      BY <2>1, <2>2 DEF AppendChunk, Written
    <3>2. left \in 1 .. RecordSize
      BY <2>1, <2>2 DEF AppendChunk
    <3> QED
      BY <2>1, <3>1, <3>2, ChunkFits DEF FlashInv
  <2>3. CASE Appended \/ PowerLoss
    BY <2>1, <2>3 DEF Appended, PowerLoss
  <2> QED
    BY <2>2, <2>3 DEF Next, Mount, StartBootcount, Open, StartAppend, Close,
       Unmount, Continue, Format, Remount, BootRead, BootWrite, BootClose
<1> QED
  BY <1>1, MediumInductive, PTL DEF Spec, ChunksWithinBlocks

-----------------------------------------------------------------------------
(* The file that grows byte by byte in MCFlash, up to sizes that Bits can  *)
(* number the blocks of.                                                   *)
GrowthFits ==
    /\ InRange(GrownFile, BlockSize) /\ InRange(ChipBlock * (ChipBlocks + 2), ChipBlock)
    /\ ChipBlocks \in Nat /\ Margin \in 0 .. ChipBlock

Growing(b, f, l) == f \in Nat /\ f <= l /\ InRange(l, b)
GrownInv == grown = NoFile \/ \E b, f, l : grown = File(b, f, l) /\ Growing(b, f, l)

LEMMA SmallerInRange ==
    ASSUME NEW g, NEW b, InRange(g, b), NEW f \in Nat, f <= g
    PROVE  InRange(f, b)
<1> DEFINE d == b - 8
           p == f \div d
           q == g \div d
<1>1. b \in Nat /\ g \in Nat /\ d \in Nat \ {0} /\ d = b - 8
  BY DEF InRange, LeastBlock
<1> HIDE DEF d
<1>2. p \in Int /\ q \in Int
  BY <1>1
<1>3. p <= q
  BY <1>1, SmallerQuotient
<1>4. p < 2^25
  <2>1. q < 2^25
    BY <1>1 DEF InRange
  <2> HIDE DEF p, q
  <2> QED
    BY <1>2, <1>3, <2>1
<1> QED
  BY <1>1, <1>4 DEF InRange

LEMMA GrownInit == ASSUME GrowthFits, MCInit PROVE GrownInv
<1>1. CASE grown = NoFile
  BY <1>1 DEF GrownInv
<1>2. CASE grown = File(BlockSize, 0, GrownFile)
  <2>1. Growing(BlockSize, 0, GrownFile)
    BY DEF GrowthFits, InRange, Growing
  <2> QED
    BY <1>2, <2>1 DEF GrownInv
<1>3. ASSUME NEW n \in 0 .. ChipBlocks,
             grown = File(ChipBlock, BlockEnds(ChipBlock)[n] - Margin,
                                     BlockEnds(ChipBlock)[n] + Margin)
      PROVE  GrownInv
  <2> DEFINE end == BlockEnds(ChipBlock)[n]
             most == ChipBlock * (ChipBlocks + 2)
  <2>1. /\ ChipBlock \in Nat /\ ChipBlocks \in Nat /\ Margin \in Nat /\ Margin <= ChipBlock
        /\ ChipBlock >= LeastBlock /\ InRange(most, ChipBlock) /\ n \in Nat /\ n <= ChipBlocks
    BY DEF GrowthFits, InRange
  <2>2. end = ChipBlock + (ChipBlock - 8) * n + 4 * Popcount(n) + 8 * (n \div 2^25)
    BY <2>1, BlockEndsClosed DEF EndOf
  <2>3. Popcount(n) \in Nat /\ n \div 2^25 \in Nat
    <3>1. Popcount(n) \in Nat
      BY PopcountBound
    <3>2. n \div 2^25 \in Nat
      BY <2>1
    <3> QED
      BY <3>1, <3>2
  <2>4. (ChipBlock - 8) * n \in Nat
    BY <2>1 DEF LeastBlock
  <2>5. end \in Int /\ end >= ChipBlock
    BY <2>1, <2>2, <2>3, <2>4
  <2>6. end <= ChipBlock * (n + 1)
    BY <2>1, EndsBounded
  <2> HIDE DEF end
  <2>7. end + Margin <= most
    <3>1. ChipBlock * (n + 1) <= ChipBlock * (ChipBlocks + 1)
      BY <2>1
    <3>2. ChipBlock * (ChipBlocks + 1) + ChipBlock = most
      BY <2>1
    <3>3. ChipBlock * (n + 1) \in Int /\ ChipBlock * (ChipBlocks + 1) \in Int /\ most \in Int
      BY <2>1
    <3> QED
      BY <2>1, <2>5, <2>6, <3>1, <3>2, <3>3
  <2>8. end - Margin \in Nat /\ end + Margin \in Nat /\ end - Margin <= end + Margin
    BY <2>1, <2>5
  <2>9. InRange(end + Margin, ChipBlock)
    BY <2>1, <2>7, <2>8, SmallerInRange
  <2>10. Growing(ChipBlock, end - Margin, end + Margin)
    BY <2>8, <2>9 DEF Growing
  <2> QED
    BY <1>3, <2>10 DEF GrownInv, end
<1> QED
  BY <1>1, <1>2, <1>3 DEF MCInit

LEMMA GrownNext ==
    ASSUME GrownInv, [Power \/ Grow]_<<vars, grown>>
    PROVE  GrownInv'
<1>1. CASE Grow
  <2>1. PICK b, f, l : grown = File(b, f, l) /\ Growing(b, f, l)
    BY <1>1 DEF Grow, GrownInv
  <2>2. grown.filesize = f /\ grown.limit = l
    BY <2>1 DEF File
  <2>3. grown' = [grown EXCEPT !.filesize = IF f < l THEN f + 1 ELSE f]
    BY <1>1, <2>2 DEF Grow
  <2>4. grown' = File(b, IF f < l THEN f + 1 ELSE f, l)
    BY <2>1, <2>3 DEF File
  <2>5. Growing(b, IF f < l THEN f + 1 ELSE f, l)
    BY <2>1 DEF Growing, InRange
  <2> QED
    BY <2>4, <2>5 DEF GrownInv
<1>2. CASE UNCHANGED grown
  BY <1>2 DEF GrownInv
<1> QED
  BY <1>1, <1>2 DEF Power

(* offset() is exactly the room left in the block, at each size a growing  *)
(* file passes through (flash.cpp:17-29).                                  *)
THEOREM GrowingFilesFit ==
    ASSUME GrowthFits
    PROVE  MCSpec => []OffsetIsRoom
<1>1. GrownInv => OffsetIsRoom
  <2> SUFFICES ASSUME GrownInv, grown # NoFile
               PROVE  Offset(grown.filesize, grown.blocksize) = Room(grown.filesize, grown.blocksize)
    BY DEF OffsetIsRoom
  <2>1. PICK b, f, l : grown = File(b, f, l) /\ Growing(b, f, l)
    BY DEF GrownInv
  <2>2. grown.filesize = f /\ grown.blocksize = b
    BY <2>1 DEF File
  <2>3. InRange(f, b)
    BY <2>1, SmallerInRange DEF Growing
  <2> QED
    BY <2>2, <2>3, OffsetFitsLayout
<1>2. MCInit => GrownInv
  BY GrownInit
<1>3. GrownInv /\ [Power \/ Grow]_<<vars, grown>> => GrownInv'
  BY GrownNext
<1> QED
  BY <1>1, <1>2, <1>3, PTL DEF MCSpec
=============================================================================
