----------------------------- MODULE GD5F1GQ5XE -----------------------------
(***************************************************************************)
(* The driver of the NAND flash, src/flash/gd5f1gq5xe.cpp: init(), and the *)
(* read, program and erase that littlefs calls.  One step is one call of   *)
(* the protocol, SPI or QSPI (include/protocols), or one Delay.            *)
(*                                                                         *)
(* A transfer that littlefs asks for consists of whole pages here          *)
(* (read_size = prog_size = page size) and lies in one block.              *)
(*                                                                         *)
(* External, the chip: it fetches a page into its cache and programs a     *)
(* page from its cache, and needs time for both and for an erase; while it *)
(* is busy it ignores commands.  Programming and erasing need the write    *)
(* enable latch, which they clear, and no block protection, which is on    *)
(* after power on.  A command has to come on the lines, with the address   *)
(* and after the dummy cycles the chip expects of it, and the two commands *)
(* that move data on four lines need the QE feature.  A program or erase   *)
(* may fail: the pages then hold anything, and only the chip's status,     *)
(* which the driver never reads, tells.                                    *)
(*                                                                         *)
(* A protocol call may return an error, and then nothing was transferred.  *)
(* Delay is vTaskDelay(pdMS_TO_TICKS(ms)) (include/hal.h): it lasts until  *)
(* the ms-th tick from now, which may be almost a tick too early, so that  *)
(* the chip may still be busy.                                             *)
(***************************************************************************)
EXTENDS Integers, Sequences, QSPI

CONSTANTS Blocks,  \* block addresses, GD5F_BLOCK_COUNT of them in the code
          Pages,   \* GD5F_PAGES_PER_BLOCK
          Data,    \* what a page can be programmed with
          Erased   \* what an erased page holds

ASSUME ChipAssumption == Blocks # {} /\ Pages \in Nat \ {0} /\ Erased \notin Data

VARIABLES
    id,      \* chip: how many of the two bytes of its id match, as they are read
    cells,   \* chip: the pages
    cache,   \* chip: its page cache
    enabled, \* chip: the write enable latch
    busy,    \* chip: a fetch, program or erase is in progress
    writing, \* chip: the pages it is programming or erasing
    locked,  \* chip: block protection
    qe,      \* chip: QE feature
    quad,    \* is the protocol QSPI?
    agree,   \* HAL: its QSPI_ADDRESS_1_LINE and _4_LINES are QSPI_DATA_1_LINE and
             \* _4_LINES, so that QSPI's switch finds them
    data4,   \* QSPI::data_mode is four lines
    ready,   \* init() returned true
    pc,      \* the protocol call that comes next; "idle" outside of a call
    request, \* the last request: its kind, block, first page, number of pages
    buf,     \* the caller's buffer: pages to program, or pages read so far
    left,    \* the pages still to transfer
    result,  \* what the last call returned
    failed,  \* history: a protocol call failed, or the chip in a program or erase,
             \* since init() began
    hasty    \* history: a Delay was over too early since init() began

chip == <<id, cells, cache, enabled, busy, writing, locked, qe>>
bus == <<quad, agree, data4>>
vars == <<chip, bus, ready, pc, request, buf, left, result, failed, hasty>>

PageNumbers == 0 .. Pages - 1
Contents == Data \cup {Erased}
Kinds == {"none", "init", "read", "prog", "erase"}
Requests == {r \in [kind : Kinds, block : Blocks, page : PageNumbers, pages : 0 .. Pages] :
                r.page + r.pages <= Pages}

(* The protocol calls and Delays of read_page and write_page.              *)
PageSteps == {"fetch", "fetched", "readCache", "load", "enable", "execute", "executed"}

NoRequest == [kind |-> "none", block |-> CHOOSE b \in Blocks : TRUE, page |-> 0, pages |-> 0]

(* Types, and the limits of a transfer: it lies in one block, and neither  *)
(* the page it is at nor what it has moved is beyond the request.          *)
TypeOK ==
    /\ id \in 0 .. 2 /\ cells \in [Blocks \X PageNumbers -> Contents]
    /\ cache \in Contents
    /\ enabled \in BOOLEAN /\ busy \in BOOLEAN /\ writing \subseteq DOMAIN cells
    /\ locked \in BOOLEAN /\ qe \in BOOLEAN
    /\ quad \in BOOLEAN /\ agree \in BOOLEAN /\ data4 \in BOOLEAN /\ ready \in BOOLEAN
    /\ pc \in {"idle", "id", "unlock", "unprotect", "settle", "quadEnable",
               "fetch", "fetched", "readCache", "load", "enable", "execute",
               "executed", "enableErase", "erase", "erased", "halted"}
    /\ request \in Requests
    /\ buf \in Seq(Contents) /\ Len(buf) <= request.pages
    /\ left \in 0 .. request.pages /\ (pc \in PageSteps => left # 0)
    /\ result \in {"none", "ok", "error"}
    /\ failed \in BOOLEAN /\ hasty \in BOOLEAN

Init ==
    /\ id \in 0 .. 2
    /\ \E c \in Contents : cells = [p \in Blocks \X PageNumbers |-> c]
    /\ cache = Erased
    /\ enabled = FALSE /\ busy = FALSE /\ writing = {} /\ locked = TRUE /\ qe = FALSE
    /\ quad \in BOOLEAN /\ agree \in BOOLEAN /\ (agree \/ quad) \* SPI does not use it
    /\ data4 = TRUE
    /\ ready = FALSE /\ pc = "idle"
    /\ request = NoRequest
    /\ buf = <<>> /\ left = 0 /\ result = "none"
    /\ failed = FALSE /\ hasty = FALSE

-----------------------------------------------------------------------------
(* The protocol and the chip.                                              *)

(* What each call sends: the bytes of cmd, those of the address among      *)
(* them, and whether there is data.                                        *)
Cmd ==
    CASE pc = "id" -> <<2, 0, TRUE>>
      [] pc \in {"unlock", "enable", "enableErase"} -> <<1, 0, FALSE>>
      [] pc \in {"unprotect", "quadEnable"} -> <<3, 2, FALSE>>
      [] pc \in {"fetch", "execute", "erase"} -> <<4, 3, FALSE>>
      [] pc = "load" -> <<3, 2, TRUE>>
      [] pc = "readCache" -> <<IF quad THEN 5 ELSE 4, 2, TRUE>>

(* The lines as configure() has set them; four for an address only from    *)
(* configure(QSPI_Address4) to configure(QSPI_Address1) in read_page.      *)
AddressLines == IF pc = "readCache" THEN 4 ELSE 1
DataLines == IF data4 THEN 4 ELSE 1

(* External, the chip: the form in which it takes the commands.            *)
Takes(address, addressLines, dummyCycles, dataLines) ==
    [address |-> address, addressLines |-> addressLines,
     dummyCycles |-> dummyCycles, dataLines |-> dataLines]
Expected ==
    CASE pc = "readCache" -> Takes(2, 4, 4, 4)
      [] pc = "load" -> Takes(2, 1, 0, 4)
      [] pc \in {"fetch", "execute", "erase"} -> Takes(3, 1, 0, 0)
      [] pc \in {"unprotect", "quadEnable"} -> Takes(2, 1, 0, 0)
      [] OTHER -> Takes(0, 0, 0, 0)

Understood ==
    quad =>
        /\ ConfigureCmd(Cmd[1], Cmd[2], Cmd[3], AddressLines, DataLines) = Expected
        /\ pc \in {"readCache", "load"} => qe

(* A call of the protocol whose transfer the chip acts upon with Effect,   *)
(* if it is not busy and understands it.                                   *)
Transfers(Effect) ==
    /\ IF ~busy /\ Understood THEN Effect ELSE UNCHANGED chip
    /\ UNCHANGED <<failed, hasty>>

Error == failed' = TRUE /\ UNCHANGED hasty
Fails == Error /\ UNCHANGED chip

(* A read off the bus: what the chip has in its cache, or anything.        *)
CacheRead == IF ~busy /\ Understood THEN {cache} ELSE Contents

(* The chip begins to program or erase and fails.                          *)
Spoils(pages) ==
    /\ ~busy /\ Understood /\ enabled /\ ~locked
    /\ \E c \in Contents :
           cells' = [p \in DOMAIN cells |-> IF p \in pages THEN c ELSE cells[p]]
    /\ writing' = pages /\ enabled' = FALSE /\ busy' = TRUE
    /\ UNCHANGED <<id, cache, locked, qe>> /\ Error

EnableWrites == Transfers(enabled' = TRUE /\ UNCHANGED <<id, cells, cache, busy, writing, locked, qe>>)

Delays ==
    /\ busy' \in {FALSE, busy} /\ writing' = (IF busy' THEN writing ELSE {})
    /\ hasty' = (hasty \/ busy')
    /\ UNCHANGED <<id, cells, cache, enabled, locked, qe, failed>>

(* The chip finishes what it does.                                         *)
Finish ==
    /\ busy /\ busy' = FALSE /\ writing' = {}
    /\ UNCHANGED <<id, cells, cache, enabled, locked, qe, bus, ready, pc, request, buf, left, result, failed, hasty>>

caller == <<ready, request, buf, left>>
Goto(to) == pc' = to /\ UNCHANGED result
Return(value) == pc' = "idle" /\ result' = value

-----------------------------------------------------------------------------
(* init().                                                                 *)

StartInit ==
    /\ pc = "idle" /\ ~ready
    /\ Goto("id")
    /\ request' = [request EXCEPT !.kind = "init"]
    /\ data4' = (data4 /\ ~quad)
    /\ failed' = FALSE /\ hasty' = FALSE
    /\ UNCHANGED <<chip, quad, agree, ready, buf, left>>

(* Over QSPI every protocol call ends in the assertion of the switch if    *)
(* the HAL's numbers differ.  This is the first, so that no other comes.   *)
Asserts == quad /\ ~agree

Halt ==
    /\ pc = "id" /\ Asserts /\ Goto("halted")
    /\ UNCHANGED <<chip, bus, caller, failed, hasty>>

(* Mutation: the result of the test is not used.                           *)
ReadIdUnused ==
    /\ pc = "id" /\ ~Asserts /\ Goto("unlock")
    /\ UNCHANGED <<failed, hasty, chip, bus, caller>>

(* The test of the id rejects a chip if both bytes are wrong; a read that  *)
(* failed leaves both zero.                                                *)
ReadId ==
    /\ pc = "id" /\ ~Asserts
    /\ \/ /\ IF id > 0 THEN Goto("unlock") ELSE Return("error")
          /\ UNCHANGED <<failed, hasty>>
       \/ Return("error") /\ Error
    /\ UNCHANGED <<chip, bus, caller>>

Unlock ==
    /\ pc = "unlock"
    /\ \/ EnableWrites /\ Goto("unprotect")
       \/ Fails /\ Return("error")
    /\ UNCHANGED <<bus, caller>>

Unprotect ==
    /\ pc = "unprotect"
    /\ \/ Transfers(locked' = FALSE /\ UNCHANGED <<id, cells, cache, enabled, busy, writing, qe>>)
       \/ Fails
    /\ Goto("settle")
    /\ UNCHANGED <<bus, caller>>

Settle ==
    /\ pc = "settle" /\ Delays
    /\ IF quad
       THEN Goto("quadEnable") /\ UNCHANGED ready
       ELSE Return("ok") /\ ready' = TRUE
    /\ UNCHANGED <<bus, request, buf, left>>

(* Mutation: the data lines are not set back to four.                      *)
QuadEnableOneLine ==
    /\ pc = "quadEnable"
    /\ \/ Transfers(qe' = TRUE /\ UNCHANGED <<id, cells, cache, enabled, busy, writing, locked>>)
       \/ Fails
    /\ Return("ok") /\ ready' = TRUE
    /\ UNCHANGED <<bus, request, buf, left>>

QuadEnable ==
    /\ pc = "quadEnable"
    /\ \/ Transfers(qe' = TRUE /\ UNCHANGED <<id, cells, cache, enabled, busy, writing, locked>>)
       \/ Fails
    /\ data4' = TRUE
    /\ Return("ok") /\ ready' = TRUE
    /\ UNCHANGED <<quad, agree, request, buf, left>>

-----------------------------------------------------------------------------
(* lfs_read: read_page for each page.                                      *)

(* The pages of the request.                                               *)
Target == {<<request.block, request.page + i>> : i \in 0 .. request.pages - 1}

(* Mutation: offset is not advanced.                                       *)
HereFirst == <<request.block, request.page>>

(* The page the call is at; after each page offset += s.                   *)
Here == <<request.block, request.page + request.pages - left>>

StartRead(b, p, n) ==
    /\ pc = "idle" /\ ready
    /\ request' = [kind |-> "read", block |-> b, page |-> p, pages |-> n]
    /\ buf' = <<>> /\ left' = n
    /\ Goto("fetch")
    /\ UNCHANGED <<chip, bus, ready, failed, hasty>>

Fetch ==
    /\ pc = "fetch"
    /\ \/ Transfers(cache' = cells[Here] /\ busy' = TRUE
                    /\ UNCHANGED <<id, cells, enabled, writing, locked, qe>>)
       \/ Fails
    /\ Goto("fetched")
    /\ UNCHANGED <<bus, caller>>

Fetched ==
    /\ pc = "fetched" /\ Delays
    /\ Goto("readCache")
    /\ UNCHANGED <<bus, caller>>

(* Mutation: size is not decremented.                                      *)
ReadCacheAgain ==
    /\ pc = "readCache"
    /\ \E c \in CacheRead :
           buf' = IF Len(buf) < Pages THEN Append(buf, c) ELSE buf
    /\ IF left = 0 THEN Return("ok") ELSE Goto("fetch")
    /\ UNCHANGED <<chip, bus, ready, request, left, failed, hasty>>

(* Between configure(QSPI_Address4) and configure(QSPI_Address1).  The     *)
(* result of the read is ignored: the page counts as read.                 *)
ReadCache ==
    /\ pc = "readCache"
    /\ \/ \E c \in CacheRead : buf' = Append(buf, c) /\ UNCHANGED <<failed, hasty>>
       \/ \E c \in Contents : buf' = Append(buf, c) /\ Error
    /\ left' = left - 1
    /\ IF left' = 0 THEN Return("ok") ELSE Goto("fetch")
    /\ UNCHANGED <<chip, bus, ready, request>>

-----------------------------------------------------------------------------
(* lfs_prog: write_page for each page.  littlefs only programs pages of a  *)
(* block it erased.                                                        *)

StartProg(b, p, content) ==
    /\ pc = "idle" /\ ready
    /\ \A i \in DOMAIN content : cells[<<b, p + i - 1>>] = Erased
    /\ request' = [kind |-> "prog", block |-> b, page |-> p, pages |-> Len(content)]
    /\ buf' = content /\ left' = Len(content)
    /\ Goto("load")
    /\ UNCHANGED <<chip, bus, ready, failed, hasty>>

Load ==
    /\ pc = "load"
    /\ \/ Transfers(cache' = buf[Len(buf) - left + 1]
                    /\ UNCHANGED <<id, cells, enabled, busy, writing, locked, qe>>)
       \/ Fails
    /\ Goto("enable")
    /\ UNCHANGED <<bus, caller>>

(* The one error that is passed on: write_page returns 0.                  *)
Enable ==
    /\ pc = "enable"
    /\ \/ EnableWrites /\ Goto("execute")
       \/ Fails /\ Return("error")
    /\ UNCHANGED <<bus, caller>>

Program(page) ==
    /\ IF enabled /\ ~locked
       THEN cells' = [cells EXCEPT ![page] = cache] /\ writing' = {page}
       ELSE UNCHANGED <<cells, writing>>
    /\ enabled' = FALSE /\ busy' = TRUE
    /\ UNCHANGED <<id, cache, locked, qe>>

(* Mutation: the block is not part of the address.                         *)
ExecuteAnyBlock ==
    /\ pc = "execute"
    /\ Transfers(\E b \in Blocks : Program(<<b, Here[2]>>)) \/ Fails
    /\ Goto("executed")
    /\ UNCHANGED <<bus, caller>>

Execute ==
    /\ pc = "execute"
    /\ Transfers(Program(Here)) \/ Spoils({Here}) \/ Fails
    /\ Goto("executed")
    /\ UNCHANGED <<bus, caller>>

(* Mutation: size is decremented by a page too many.                       *)
ExecutedTwice ==
    /\ pc = "executed" /\ Delays
    /\ left' = left - 2
    /\ IF left' = 0 THEN Return("ok") ELSE Goto("load")
    /\ UNCHANGED <<bus, ready, request, buf>>

Executed ==
    /\ pc = "executed" /\ Delays
    /\ left' = left - 1
    /\ IF left' = 0 THEN Return("ok") ELSE Goto("load")
    /\ UNCHANGED <<bus, ready, request, buf>>

-----------------------------------------------------------------------------
(* lfs_erase.                                                              *)

StartErase(b) ==
    /\ pc = "idle" /\ ready
    /\ request' = [kind |-> "erase", block |-> b, page |-> 0, pages |-> Pages]
    /\ buf' = <<>> /\ left' = 0
    /\ Goto("enableErase")
    /\ UNCHANGED <<chip, bus, ready, failed, hasty>>

EnableErase ==
    /\ pc = "enableErase"
    /\ \/ EnableWrites /\ Goto("erase")
       \/ Fails /\ Return("error")
    /\ UNCHANGED <<bus, caller>>

EraseBlock(b) ==
    /\ IF enabled /\ ~locked
       THEN LET pages == {p \in DOMAIN cells : p[1] = b}
            IN /\ cells' = [p \in DOMAIN cells |-> IF p \in pages THEN Erased ELSE cells[p]]
               /\ writing' = pages
       ELSE UNCHANGED <<cells, writing>>
    /\ enabled' = FALSE /\ busy' = TRUE
    /\ UNCHANGED <<id, cache, locked, qe>>

Erase ==
    /\ pc = "erase"
    /\ Transfers(EraseBlock(request.block)) \/ Spoils(Target) \/ Fails
    /\ Goto("erased")
    /\ UNCHANGED <<bus, caller>>

ErasedAll ==
    /\ pc = "erased" /\ Delays
    /\ Return("ok")
    /\ UNCHANGED <<bus, caller>>

-----------------------------------------------------------------------------

(* External: the processor restarts; the chip has kept its power and its   *)
(* state, or has lost it, and what it was then programming or erasing may  *)
(* hold anything.  By the time init() is called it is not busy any more.   *)
Restart ==
    /\ \/ UNCHANGED <<cells, cache, enabled, locked, qe>>
       \/ /\ cache' = Erased /\ enabled' = FALSE /\ locked' = TRUE /\ qe' = FALSE
          /\ \E c \in Contents :
                 cells' = [p \in DOMAIN cells |-> IF p \in writing THEN c ELSE cells[p]]
    /\ busy' = FALSE /\ writing' = {}
    /\ data4' = TRUE /\ ready' = FALSE /\ pc' = "idle" /\ result' = "none"
    /\ request' = NoRequest /\ buf' = <<>> /\ left' = 0
    /\ failed' = FALSE /\ hasty' = FALSE
    /\ UNCHANGED <<id, quad, agree>>

Driver == ReadId \/ Unlock \/ Unprotect \/ Settle \/ QuadEnable
              \/ Fetch \/ Fetched \/ ReadCache
              \/ Load \/ Enable \/ Execute \/ Executed
              \/ EnableErase \/ Erase \/ ErasedAll

littlefs ==
    \E b \in Blocks :
        \/ StartErase(b)
        \/ \E p \in PageNumbers : \E n \in 1 .. Pages - p :
               \/ StartRead(b, p, n)
               \/ \E content \in [1 .. n -> Data] : StartProg(b, p, content)

Next == StartInit \/ Driver \/ Halt \/ Finish \/ littlefs \/ Restart

Spec == Init /\ [][Next]_vars
FairSpec == Spec /\ WF_vars(Driver \/ Halt)

-----------------------------------------------------------------------------
(* Properties.                                                             *)

(* What a call that returned success promises littlefs: a read returned    *)
(* the pages that are stored, a program stored the pages of the buffer, an *)
(* erase erased the block (gd5f1gq5xe.cpp:60, 110, 149-192).               *)
OkMeansDone ==
    pc = "idle" /\ result = "ok" =>
        CASE request.kind \in {"read", "prog"} ->
                 \A i \in 1 .. request.pages :
                     buf[i] = cells[<<request.block, request.page + i - 1>>]
          [] request.kind = "erase" -> \A p \in Target : cells[p] = Erased
          [] OTHER -> TRUE

(* As long as the chip is done when a Delay is over, only an error of the  *)
(* protocol that the driver ignored, or of the chip that it did not ask    *)
(* for, can break that promise, over SPI and QSPI and after any sequence   *)
(* of calls and restarts, whatever state they left the chip and the lines  *)
(* in (gd5f1gq5xe.cpp:48-268).                                             *)
OkMeansDoneUnlessFailed == failed \/ hasty \/ OkMeansDone

(* A read in which the protocol reported an error does not report success  *)
(* for pages it has not read (protocol.h:104, gd5f1gq5xe.cpp:60).          *)
ErrorsReported == hasty \/ (request.kind = "read" => OkMeansDone)

(* No call touches a page it was not asked to write, whatever fails: a     *)
(* page only changes in a program or an erase that names it, or is spoiled *)
(* by a loss of power while the chip is writing it                         *)
(* (gd5f1gq5xe.cpp:69, 133, 180).                                          *)
OthersKept ==
    [][\A p \in DOMAIN cells : cells'[p] # cells[p] =>
           \/ request.kind \in {"prog", "erase"} /\ p \in Target
           \/ request'.kind = "none" /\ p \in writing]_vars

(* The driver is the block device littlefs counts on, with any restart and *)
(* loss of power, as long as no protocol call, program or erase fails and  *)
(* no Delay is too short; otherwise where it writes is at least what it    *)
(* was asked for (gd5f1gq5xe.cpp:53-215, 225-229).                         *)
Device == INSTANCE BlockDevice WITH outcome <- IF pc = "idle" THEN result ELSE "pending",
                                    sound <- ~failed /\ ~hasty
ImplementsDevice == Device!Spec

(* A chip of whose id neither byte matches keeps what it holds: init()     *)
(* never succeeds with one, whatever fails and however often it is tried,  *)
(* and nothing is written before.  Of a chip with one byte that matches    *)
(* nothing is said: it is taken (gd5f1gq5xe.cpp:243-248).                  *)
NoByteMatchesUntouched == [][id = 0 => cells' = cells]_vars

(* Every call returns, whatever fails, or ends in QSPI's assertion         *)
(* (gd5f1gq5xe.cpp:149-175, qspi.cpp:21-30).                               *)
CallsReturn == pc # "idle" ~> pc = "idle" \/ (Asserts /\ pc = "halted")
=============================================================================
