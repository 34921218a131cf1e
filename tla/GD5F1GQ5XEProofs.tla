-------------------------- MODULE GD5F1GQ5XEProofs --------------------------
(***************************************************************************)
(* What holds of the driver of the NAND flash for any number of blocks and *)
(* pages and any contents, over SPI and QSPI, with any restart and loss of *)
(* power.                                                                  *)
(***************************************************************************)
EXTENDS GD5F1GQ5XE, TLAPS

InitSteps == {"id", "unlock", "unprotect", "settle", "quadEnable"}
ReadSteps == {"fetch", "fetched", "readCache"}
ProgSteps == {"load", "enable", "execute", "executed"}
EraseSteps == {"enableErase", "erase", "erased"}

(* The i-th page of the request, and the number of the one the call is at. *)
Nth(i) == <<request.block, request.page + i - 1>>
At == request.pages - left + 1

-----------------------------------------------------------------------------
(* Whatever fails.                                                         *)

(* Where a call is in its request.                                         *)
Shape ==
    /\ pc \in InitSteps \cup {"halted"} => request.kind = "init" /\ ~ready
    /\ pc \in ReadSteps \cup ProgSteps \cup EraseSteps => ready
    /\ pc \in ReadSteps => /\ request.kind = "read" /\ left \in 1 .. request.pages
                           /\ Len(buf) = request.pages - left
    /\ pc \in ProgSteps => /\ request.kind = "prog" /\ left \in 1 .. request.pages
                           /\ Len(buf) = request.pages
    /\ pc \in EraseSteps => /\ request.kind = "erase"
                            /\ request.page = 0 /\ request.pages = Pages

(* Nobody writes to a chip before it was identified, at least by half.     *)
Identified ==
    /\ ready \/ pc \in InitSteps \ {"id"} => id > 0
    /\ ~ready => ~busy /\ writing = {}

-----------------------------------------------------------------------------
(* As long as nothing failed and no Delay was too short.                   *)

Sound == ~failed /\ ~hasty

(* The chip is in the state the next call needs.                           *)
ChipReady ==
    /\ pc \notin {"fetched", "executed", "erased"} => ~busy
    /\ ready \/ pc \in {"settle", "quadEnable"} => ~locked
    /\ quad /\ ready => qe /\ data4
    /\ pc \in {"execute", "erase"} => enabled
    /\ pc \in {"fetched", "readCache"} => cache = cells[Here]
    /\ pc \in {"enable", "execute"} => cache = buf[At]

(* What it is writing are pages the call is at.                            *)
WritingHere ==
    /\ pc \notin {"executed", "erased"} => writing = {}
    /\ pc = "executed" => writing \subseteq {Here}
    /\ pc = "erased" => writing \subseteq Target

(* The pages before the one the call is at are done, those behind it are   *)
(* as they were.                                                           *)
DoneSoFar ==
    /\ pc \in ReadSteps => \A i \in 1 .. Len(buf) : buf[i] = cells[Nth(i)]
    /\ pc \in ProgSteps => /\ \A i \in 1 .. At - 1 : cells[Nth(i)] = buf[i]
                           /\ \A i \in At + 1 .. request.pages : cells[Nth(i)] = Erased
    /\ pc = "executed" => cells[Here] = buf[At]
    /\ pc = "erased" => \A p \in Target : cells[p] = Erased

IInv == TypeOK /\ Shape /\ Identified
SInv == Sound => ChipReady /\ WritingHere /\ DoneSoFar /\ OkMeansDone

-----------------------------------------------------------------------------
(* Types, and the shape of a request.                                      *)

LEMMA NoRequestType ==
    /\ NoRequest \in Requests
    /\ NoRequest.kind = "none" /\ NoRequest.page = 0 /\ NoRequest.pages = 0
<1>1. (CHOOSE b \in Blocks : TRUE) \in Blocks
  BY ChipAssumption
<1> QED
  BY <1>1, ChipAssumption DEF NoRequest, Requests, Kinds, PageNumbers

LEMMA InitIInv == Init => IInv
<1> SUFFICES ASSUME Init PROVE IInv
  OBVIOUS
<1>1. TypeOK
  <2>1. cells \in [Blocks \X PageNumbers -> Contents] /\ cache \in Contents
    BY DEF Init, Contents
  <2>2. buf \in Seq(Contents) /\ Len(buf) = 0
    BY DEF Init
  <2>3. request \in Requests /\ request.pages = 0
    BY NoRequestType, ChipAssumption DEF Init
  <2>4. Len(buf) <= request.pages /\ left \in 0 .. request.pages /\ pc \notin PageSteps
    BY <2>2, <2>3 DEF Init, PageSteps
  <2> QED
    BY <2>1, <2>2, <2>3, <2>4 DEF Init, TypeOK
<1>2. Shape /\ Identified
  BY NoRequestType, ChipAssumption DEF Init, Shape, Identified, InitSteps, ReadSteps, ProgSteps, EraseSteps
<1> QED
  BY <1>1, <1>2 DEF IInv

(* The page a call is at is one of the chip's, and one of the request's.   *)
LEMMA HerePage ==
    ASSUME IInv, left \in 1 .. request.pages
    PROVE  /\ Here \in DOMAIN cells /\ Here \in Target
           /\ At \in 1 .. request.pages /\ Here = Nth(At)
<1>1. /\ request.block \in Blocks /\ request.page \in PageNumbers
      /\ request.pages \in 0 .. Pages /\ request.page + request.pages <= Pages
      /\ DOMAIN cells = Blocks \X PageNumbers
  BY DEF IInv, TypeOK, Shape, Requests, Kinds
<1>2. request.page + request.pages - left \in PageNumbers
  BY <1>1, ChipAssumption DEF PageNumbers
<1>3. At \in 1 .. request.pages /\ Here = Nth(At)
  BY <1>1, ChipAssumption DEF At, Nth, Here, PageNumbers
<1>4. Here \in Target
  <2>1. request.pages - left \in 0 .. request.pages - 1
    BY <1>1
  <2>2. Here = <<request.block, request.page + (request.pages - left)>>
    BY <1>1, ChipAssumption DEF Here, PageNumbers
  <2> QED
    BY <2>1, <2>2 DEF Target
<1> QED
  BY <1>1, <1>2, <1>3, <1>4 DEF Here

(* An erase asks for all pages of its block.                               *)
LEMMA BlockPages ==
    ASSUME IInv, pc \in EraseSteps
    PROVE  Target = {p \in DOMAIN cells : p[1] = request.block}
<1>1. /\ request.block \in Blocks /\ request.page = 0 /\ request.pages = Pages
      /\ DOMAIN cells = Blocks \X (0 .. Pages - 1)
  BY DEF IInv, TypeOK, Shape, Requests, Kinds, PageNumbers
<1>2. Target = {<<request.block, i>> : i \in 0 .. Pages - 1}
  BY <1>1, ChipAssumption DEF Target
<1> QED
  BY <1>1, <1>2

(* What a part of a call changes, if it stores and returns nothing.        *)
LEMMA TypeKept ==
    ASSUME TypeOK, UNCHANGED <<id, cells, quad, agree, request, buf, left>>,
           cache' \in Contents, writing' \subseteq writing,
           enabled' \in BOOLEAN, busy' \in BOOLEAN, locked' \in BOOLEAN, qe' \in BOOLEAN,
           data4' \in BOOLEAN, ready' \in BOOLEAN, failed' \in BOOLEAN, hasty' \in BOOLEAN,
           pc' \in {"idle", "unlock", "unprotect", "settle", "quadEnable", "fetched", "readCache",
                    "enable", "execute", "erase"},
           pc' \in PageSteps => left # 0, result' \in {"none", "ok", "error"}
    PROVE  TypeOK'
BY DEF TypeOK, PageSteps

LEMMA StepsOfInit ==
    ASSUME IInv, StartInit \/ ReadId \/ Unlock \/ Unprotect \/ Settle \/ QuadEnable
    PROVE  IInv'
<1> USE DEF IInv, Shape, Identified, InitSteps, ReadSteps, ProgSteps, EraseSteps, PageSteps,
        Goto, Return, Transfers, Fails, Error, caller, chip, bus
<1>1. CASE StartInit
  <2>1. request' \in Requests /\ request'.page = request.page /\ request'.pages = request.pages
        /\ request'.kind = "init"
    BY <1>1 DEF StartInit, TypeOK, Requests, Kinds
  <2>2. TypeOK'
    <3>1. /\ pc' = "id" /\ failed' = FALSE /\ hasty' = FALSE /\ data4' \in BOOLEAN
          /\ UNCHANGED <<id, cells, cache, enabled, busy, writing, locked, qe, quad, agree, ready,
                         buf, left, result>>
      BY <1>1 DEF StartInit
    <3> QED
      BY <2>1, <3>1 DEF TypeOK
  <2> QED
    BY <1>1, <2>1, <2>2 DEF StartInit
<1>2. CASE ReadId
  <2>2. TypeOK'
    <3>1. /\ UNCHANGED <<id, cells, quad, agree, request, buf, left>>
          /\ UNCHANGED <<cache, enabled, busy, writing, locked, qe>>
          /\ failed' \in BOOLEAN /\ hasty' \in BOOLEAN
      BY <1>2 DEF ReadId, TypeOK
    <3>2. pc' \in {"idle", "unlock"} /\ result' \in {"none", "ok", "error"} /\ UNCHANGED <<data4, ready>>
      BY <1>2 DEF ReadId, TypeOK
    <3> QED
      BY <3>1, <3>2, TypeKept DEF TypeOK
  <2> QED
    BY <1>2, <2>2 DEF ReadId, TypeOK
<1>3. CASE Unlock
  <2>2. TypeOK'
    <3>1. /\ UNCHANGED <<id, cells, quad, agree, request, buf, left>>
          /\ enabled' \in BOOLEAN /\ UNCHANGED <<cache, busy, writing, locked, qe>>
          /\ failed' \in BOOLEAN /\ hasty' \in BOOLEAN
      BY <1>3 DEF Unlock, EnableWrites, TypeOK
    <3>2. pc' \in {"idle", "unprotect"} /\ result' \in {"none", "ok", "error"} /\ UNCHANGED <<data4, ready>>
      BY <1>3 DEF Unlock, EnableWrites, TypeOK
    <3> QED
      BY <3>1, <3>2, TypeKept DEF TypeOK
  <2> QED
    BY <1>3, <2>2 DEF Unlock, EnableWrites
<1>4. CASE Unprotect
  <2>2. TypeOK'
    <3>1. /\ UNCHANGED <<id, cells, quad, agree, request, buf, left>>
          /\ locked' \in BOOLEAN /\ UNCHANGED <<cache, enabled, busy, writing, qe>>
          /\ failed' \in BOOLEAN /\ hasty' \in BOOLEAN
      BY <1>4 DEF Unprotect, TypeOK
    <3>2. pc' = "settle" /\ UNCHANGED <<data4, ready, result>>
      BY <1>4 DEF Unprotect, TypeOK
    <3> QED
      BY <3>1, <3>2, TypeKept DEF TypeOK
  <2> QED
    BY <1>4, <2>2 DEF Unprotect
<1>5. CASE Settle
  <2>2. TypeOK'
    <3>1. /\ UNCHANGED <<id, cells, quad, agree, request, buf, left>>
          /\ busy' \in BOOLEAN /\ writing' \subseteq writing /\ UNCHANGED <<cache, enabled, locked, qe>>
          /\ failed' \in BOOLEAN /\ hasty' \in BOOLEAN
      BY <1>5 DEF Settle, Delays, TypeOK
    <3>2. pc' \in {"idle", "quadEnable"} /\ result' \in {"none", "ok", "error"} /\ ready' \in BOOLEAN /\ UNCHANGED data4
      BY <1>5 DEF Settle, Delays, TypeOK
    <3> QED
      BY <3>1, <3>2, TypeKept DEF TypeOK
  <2>3. busy' = FALSE /\ writing' = {}
    BY <1>5 DEF Settle, Delays, TypeOK
  <2> QED
    BY <1>5, <2>2, <2>3 DEF Settle, Delays
<1>6. CASE QuadEnable
  <2>2. TypeOK'
    <3>1. /\ UNCHANGED <<id, cells, quad, agree, request, buf, left>>
          /\ qe' \in BOOLEAN /\ UNCHANGED <<cache, enabled, busy, writing, locked>>
          /\ failed' \in BOOLEAN /\ hasty' \in BOOLEAN
      BY <1>6 DEF QuadEnable, TypeOK
    <3>2. pc' = "idle" /\ result' = "ok" /\ ready' = TRUE /\ data4' = TRUE
      BY <1>6 DEF QuadEnable, TypeOK
    <3> QED
      BY <3>1, <3>2, TypeKept DEF TypeOK
  <2> QED
    BY <1>6, <2>2 DEF QuadEnable
<1> QED
  BY <1>1, <1>2, <1>3, <1>4, <1>5, <1>6

LEMMA StepsOfRead ==
    ASSUME IInv,
           (\E b \in Blocks, p \in PageNumbers : \E n \in 1 .. Pages - p : StartRead(b, p, n))
           \/ Fetch \/ Fetched \/ ReadCache
    PROVE  IInv'
<1> USE DEF IInv, Shape, Identified, InitSteps, ReadSteps, ProgSteps, EraseSteps, PageSteps,
        Goto, Return, Transfers, Fails, Error, caller, chip, bus
<1>1. ASSUME NEW b \in Blocks, NEW p \in PageNumbers, NEW n \in 1 .. Pages - p, StartRead(b, p, n)
      PROVE  IInv'
  <2>1. request' \in Requests /\ n \in 1 .. Pages /\ p + n <= Pages /\ request'.pages = n
    BY <1>1, ChipAssumption DEF StartRead, Requests, Kinds, PageNumbers
  <2>2. buf' \in Seq(Contents) /\ Len(buf') = 0
    BY <1>1 DEF StartRead
  <2>3. TypeOK'
    BY <1>1, <2>1, <2>2, ChipAssumption DEF StartRead, TypeOK
  <2> QED
    BY <1>1, <2>1, <2>2, <2>3 DEF StartRead
<1>2. CASE Fetch
  <2>1. TypeOK'
    <3>1. cells[Here] \in Contents
      BY <1>2, HerePage DEF Fetch, TypeOK
    <3>2. /\ UNCHANGED <<id, cells, quad, agree, request, buf, left, data4, ready, result>>
          /\ UNCHANGED <<enabled, writing, locked, qe>>
          /\ pc' = "fetched" /\ left # 0
      BY <1>2 DEF Fetch, TypeOK
    <3>3. cache' \in Contents /\ busy' \in BOOLEAN /\ failed' \in BOOLEAN /\ hasty' \in BOOLEAN
      BY <1>2, <3>1 DEF Fetch, TypeOK
    <3> QED
      BY <3>2, <3>3, TypeKept DEF TypeOK
  <2> QED
    BY <1>2, <2>1 DEF Fetch
<1>3. CASE Fetched
  <2>1. TypeOK'
    <3>1. /\ UNCHANGED <<id, cells, quad, agree, request, buf, left, data4, ready, result>>
          /\ UNCHANGED <<cache, enabled, locked, qe, failed>>
          /\ pc' = "readCache" /\ left # 0
      BY <1>3 DEF Fetched, Delays, TypeOK
    <3>2. busy' \in BOOLEAN /\ hasty' \in BOOLEAN /\ writing' \subseteq writing
      BY <1>3 DEF Fetched, Delays, TypeOK
    <3> QED
      BY <3>1, <3>2, TypeKept DEF TypeOK
  <2> QED
    BY <1>3, <2>1 DEF Fetched, Delays
<1>4. CASE ReadCache
  <2>1. /\ left \in 1 .. request.pages /\ Len(buf) = request.pages - left
        /\ request.pages \in 0 .. Pages
    BY <1>4 DEF ReadCache, TypeOK, Requests, Kinds
  <2>2. PICK c \in Contents : buf' = Append(buf, c)
    BY <1>4 DEF ReadCache, CacheRead, TypeOK
  <2>3. buf' \in Seq(Contents) /\ Len(buf') = Len(buf) + 1
    BY <2>2 DEF TypeOK
  <2>4. left' = left - 1 /\ (left' # 0 => left' \in 1 .. request.pages)
    BY <1>4, <2>1 DEF ReadCache
  <2>5. TypeOK'
    <3>1. /\ buf' \in Seq(Contents) /\ Len(buf') <= request.pages
          /\ left' \in 0 .. request.pages
      BY <2>1, <2>3, <2>4, ChipAssumption
    <3> QED
      <4>1. pc' \in {"idle", "fetch"} /\ (pc' = "fetch" => left' # 0) /\ result' \in {"none", "ok", "error"}
        BY <1>4 DEF ReadCache, TypeOK
      <4>2. failed' \in BOOLEAN /\ hasty' \in BOOLEAN
        BY <1>4 DEF ReadCache, TypeOK
      <4>3. UNCHANGED <<id, cells, cache, enabled, busy, writing, locked, qe, quad, agree, data4, ready,
                        request>>
        BY <1>4 DEF ReadCache
      <4> QED
        BY <3>1, <4>1, <4>2, <4>3 DEF TypeOK
  <2> QED
    BY SMTT(30), <1>4, <2>1, <2>3, <2>4, <2>5 DEF ReadCache
<1> QED
  BY <1>1, <1>2, <1>3, <1>4

LEMMA StepsOfProg ==
    ASSUME IInv,
           (\E b \in Blocks, p \in PageNumbers : \E n \in 1 .. Pages - p :
                \E content \in [1 .. n -> Data] : StartProg(b, p, content))
           \/ Load \/ Enable \/ Execute \/ Executed
    PROVE  IInv'
<1> USE DEF IInv, Shape, Identified, InitSteps, ReadSteps, ProgSteps, EraseSteps, PageSteps,
        Goto, Return, Transfers, Fails, Error, caller, chip, bus
<1>1. ASSUME NEW b \in Blocks, NEW p \in PageNumbers, NEW n \in 1 .. Pages - p,
             NEW content \in [1 .. n -> Data], StartProg(b, p, content)
      PROVE  IInv'
  <2>1. n \in 1 .. Pages /\ p + n <= Pages
    BY ChipAssumption DEF PageNumbers
  <2>2. content \in Seq(Contents) /\ Len(content) = n
    BY <2>1 DEF Contents
  <2>3. request' \in Requests /\ request'.pages = n /\ request'.page = p /\ request'.kind = "prog"
    BY <1>1, <2>1, <2>2 DEF StartProg, Requests, Kinds
  <2>4. TypeOK'
    BY <1>1, <2>1, <2>2, <2>3, ChipAssumption DEF StartProg, TypeOK
  <2> QED
    BY <1>1, <2>1, <2>2, <2>3, <2>4 DEF StartProg
<1>2. CASE Load
  <2>1. TypeOK'
    <3>1. Len(buf) - left + 1 \in 1 .. Len(buf)
      BY <1>2 DEF Load, TypeOK, Requests, Kinds
    <3>2. buf[Len(buf) - left + 1] \in Contents
      BY <3>1 DEF TypeOK
    <3>3. /\ UNCHANGED <<id, cells, quad, agree, request, buf, left, data4, ready, result>>
          /\ UNCHANGED <<enabled, busy, writing, locked, qe>>
          /\ pc' = "enable" /\ left # 0
      BY <1>2 DEF Load, TypeOK
    <3>4. cache' \in Contents /\ failed' \in BOOLEAN /\ hasty' \in BOOLEAN
      BY <1>2, <3>2 DEF Load, TypeOK
    <3> QED
      BY <3>3, <3>4, TypeKept DEF TypeOK
  <2> QED
    BY <1>2, <2>1 DEF Load
<1>3. CASE Enable
  <2>1. TypeOK'
    <3>1. /\ enabled' \in BOOLEAN /\ failed' \in BOOLEAN /\ hasty' \in BOOLEAN
          /\ UNCHANGED <<id, cells, cache, busy, writing, locked, qe>>
      BY <1>3 DEF Enable, EnableWrites, TypeOK
    <3>2. /\ pc' \in {"idle", "execute"} /\ result' \in {"none", "ok", "error"} /\ left # 0
          /\ UNCHANGED <<quad, agree, data4, ready, request, buf, left>>
      BY <1>3 DEF Enable, TypeOK
    <3> QED
      BY <3>1, <3>2 DEF TypeOK
  <2> QED
    BY <1>3, <2>1 DEF Enable, EnableWrites
<1>4. CASE Execute
  <2>1. Here \in DOMAIN cells /\ ready
    BY <1>4, HerePage DEF Execute
  <2>2. cells' \in [Blocks \X PageNumbers -> Contents] /\ writing' \subseteq Blocks \X PageNumbers
    BY <1>4, <2>1 DEF Execute, Program, Spoils, TypeOK
  <2>3. TypeOK'
    <3>1. /\ enabled' \in BOOLEAN /\ busy' \in BOOLEAN /\ failed' \in BOOLEAN /\ hasty' \in BOOLEAN
          /\ UNCHANGED <<id, cache, locked, qe>>
      BY <1>4 DEF Execute, Program, Spoils, TypeOK
    <3>2. /\ pc' = "executed" /\ left # 0
          /\ UNCHANGED <<quad, agree, data4, ready, request, buf, left, result>>
      BY <1>4 DEF Execute, TypeOK
    <3>3. writing' \subseteq DOMAIN cells'
      BY <2>2
    <3> QED
      BY <2>2, <3>1, <3>2, <3>3 DEF TypeOK
  <2> QED
    BY <1>4, <2>1, <2>3 DEF Execute, Program, Spoils
<1>5. CASE Executed
  <2>1. left \in 1 .. request.pages /\ request.pages \in 0 .. Pages
    BY <1>5 DEF Executed, TypeOK, Requests, Kinds
  <2>2. left' = left - 1 /\ left' \in 0 .. request.pages /\ (left' # 0 => left' \in 1 .. request.pages)
    BY <1>5, <2>1, ChipAssumption DEF Executed
  <2>3. TypeOK'
    <3>1. /\ UNCHANGED <<id, cells, quad, agree, request, buf, data4, ready>>
          /\ UNCHANGED <<cache, enabled, locked, qe, failed>>
      BY <1>5 DEF Executed, Delays
    <3>2. busy' \in BOOLEAN /\ hasty' \in BOOLEAN /\ writing' \subseteq writing
      BY <1>5 DEF Executed, Delays, TypeOK
    <3>3. /\ pc' \in {"idle", "load"} /\ (pc' = "load" => left' # 0)
          /\ result' \in {"none", "ok", "error"}
      BY <1>5 DEF Executed, TypeOK
    <3> QED
      BY <2>2, <3>1, <3>2, <3>3 DEF TypeOK
  <2> QED
    BY <1>5, <2>2, <2>3 DEF Executed, Delays
<1> QED
  BY <1>1, <1>2, <1>3, <1>4, <1>5

LEMMA StepsOfErase ==
    ASSUME IInv, (\E b \in Blocks : StartErase(b)) \/ EnableErase \/ Erase \/ ErasedAll
    PROVE  IInv'
<1> USE DEF IInv, Shape, Identified, InitSteps, ReadSteps, ProgSteps, EraseSteps, PageSteps,
        Goto, Return, Transfers, Fails, Error, caller, chip, bus
<1>1. ASSUME NEW b \in Blocks, StartErase(b) PROVE IInv'
  <2>1. request' \in Requests
    BY <1>1, ChipAssumption DEF StartErase, Requests, Kinds, PageNumbers
  <2>2. buf' \in Seq(Contents) /\ Len(buf') = 0
    BY <1>1 DEF StartErase
  <2>3. TypeOK'
    BY <1>1, <2>1, <2>2, ChipAssumption DEF StartErase, TypeOK
  <2> QED
    BY <1>1, <2>1, <2>2, <2>3, ChipAssumption DEF StartErase
<1>2. CASE EnableErase
  <2>1. TypeOK'
    <3>1. /\ enabled' \in BOOLEAN /\ failed' \in BOOLEAN /\ hasty' \in BOOLEAN
          /\ UNCHANGED <<id, cells, cache, busy, writing, locked, qe>>
      BY <1>2 DEF EnableErase, EnableWrites, TypeOK
    <3>2. /\ pc' \in {"idle", "erase"} /\ result' \in {"none", "ok", "error"}
          /\ UNCHANGED <<quad, agree, data4, ready, request, buf, left>>
      BY <1>2 DEF EnableErase, TypeOK
    <3> QED
      BY <3>1, <3>2 DEF TypeOK
  <2> QED
    BY <1>2, <2>1 DEF EnableErase, EnableWrites
<1>3. CASE Erase
  <2>1. cells' \in [Blocks \X PageNumbers -> Contents] /\ writing' \subseteq Blocks \X PageNumbers
    <3>1. Target \subseteq DOMAIN cells
      BY <1>3, BlockPages DEF Erase
    <3> QED
      BY <1>3, <3>1 DEF Erase, EraseBlock, Spoils, TypeOK, Contents
  <2>2. TypeOK'
    <3>1. /\ UNCHANGED <<id, quad, agree, request, buf, left, data4, ready, result>>
          /\ UNCHANGED <<cache, locked, qe>> /\ pc' = "erased"
      BY <1>3 DEF Erase, EraseBlock, Spoils
    <3>2. /\ enabled' \in BOOLEAN /\ busy' \in BOOLEAN
          /\ failed' \in BOOLEAN /\ hasty' \in BOOLEAN
      BY <1>3 DEF Erase, EraseBlock, Spoils, TypeOK
    <3> QED
      BY <2>1, <3>1, <3>2 DEF TypeOK
  <2> QED
    BY <1>3, <2>2 DEF Erase, EraseBlock, Spoils
<1>4. CASE ErasedAll
  <2>1. TypeOK'
    <3>1. /\ UNCHANGED <<id, cells, quad, agree, request, buf, left, data4, ready>>
          /\ UNCHANGED <<cache, enabled, locked, qe, failed>>
          /\ pc' = "idle" /\ result' = "ok"
      BY <1>4 DEF ErasedAll, Delays
    <3>2. busy' \in BOOLEAN /\ hasty' \in BOOLEAN /\ writing' \subseteq writing
      BY <1>4 DEF ErasedAll, Delays, TypeOK
    <3> QED
      BY <3>1, <3>2, TypeKept DEF TypeOK
  <2> QED
    BY <1>4, <2>1 DEF ErasedAll, Delays
<1> QED
  BY <1>1, <1>2, <1>3, <1>4

LEMMA OtherSteps ==
    ASSUME IInv, Halt \/ Finish \/ Restart \/ UNCHANGED vars
    PROVE  IInv'
<1>1. CASE Finish
  <2>1. /\ busy' = FALSE /\ writing' = {}
        /\ UNCHANGED <<id, cells, cache, enabled, locked, qe, quad, agree, data4, ready, pc,
                       request, buf, left, result, failed, hasty>>
    BY <1>1 DEF Finish, bus
  <2>2. TypeOK'
    <3>1. TypeOK
      BY DEF IInv
    <3>2. (/\ id \in 0 .. 2 /\ cells \in [Blocks \X PageNumbers -> Contents] /\ cache \in Contents
           /\ enabled \in BOOLEAN /\ busy \in BOOLEAN)'
      BY <2>1, <3>1 DEF TypeOK
    <3>3. (writing \subseteq DOMAIN cells)'
      BY <2>1
    <3> QED
      BY <2>1, <3>1, <3>2, <3>3 DEF TypeOK
  <2> QED
    BY <2>1, <2>2 DEF IInv, Shape, Identified
<1> USE DEF IInv, Shape, Identified, InitSteps, ReadSteps, ProgSteps, EraseSteps, PageSteps
<1>2. CASE Restart
  <2>1. cells' \in [Blocks \X PageNumbers -> Contents] /\ cache' \in Contents
    BY <1>2 DEF Restart, TypeOK, Contents
  <2>2. buf' \in Seq(Contents) /\ Len(buf') = 0 /\ request' \in Requests
    BY <1>2, NoRequestType DEF Restart
  <2>3. TypeOK'
    <3>1. Len(buf') <= request'.pages /\ left' \in 0 .. request'.pages
      BY <1>2, <2>2, NoRequestType, ChipAssumption DEF Restart
    <3> QED
      BY <1>2, <2>1, <2>2, <3>1 DEF Restart, TypeOK
  <2> QED
    BY <1>2, <2>3, NoRequestType, ChipAssumption DEF Restart
<1>3. CASE UNCHANGED vars
  BY <1>3 DEF vars, chip, bus, TypeOK
<1>4. CASE Halt
  BY <1>4 DEF Halt, Goto, chip, bus, caller, TypeOK
<1> QED
  BY <1>1, <1>2, <1>3, <1>4

LEMMA NextIInv == ASSUME IInv, [Next]_vars PROVE IInv'
BY StepsOfInit, StepsOfRead, StepsOfProg, StepsOfErase, OtherSteps DEF Next, Driver, littlefs

LEMMA Inductive == Spec => []IInv
<1> QED
  BY InitIInv, NextIInv, PTL DEF Spec

(* Every variable has its type, and no transfer leaves its block or the    *)
(* caller's buffer (gd5f1gq5xe.cpp:29-192).                                *)
THEOREM TypeCorrect == Spec => []TypeOK
<1>1. IInv => TypeOK
  BY DEF IInv
<1> QED
  BY <1>1, Inductive, PTL

-----------------------------------------------------------------------------
(* What holds as long as nothing failed.                                   *)

(* The chip understands every command and is not busy when it comes.       *)
LEMMA Heard ==
    ASSUME IInv, Sound, ChipReady,
           pc \in {"unlock", "unprotect", "quadEnable", "fetch", "readCache",
                   "load", "enable", "execute", "enableErase", "erase"}
    PROVE  ~busy /\ Understood
<1>1. ~busy
  BY DEF ChipReady
<1>2. CASE pc \in {"readCache", "load"}
  <2>1. ready /\ (quad => qe /\ data4)
    BY <1>2 DEF IInv, Shape, ChipReady, ReadSteps, ProgSteps
  <2>2. quad => ConfigureCmd(Cmd[1], Cmd[2], Cmd[3], AddressLines, DataLines) = Expected
    <3>1. CASE pc = "readCache"
      BY <3>1, <2>1 DEF Cmd, ConfigureCmd, DummyCyclesPerByte, AddressLines, DataLines, Expected, Takes
    <3>2. CASE pc = "load"
      BY <3>2, <2>1 DEF Cmd, ConfigureCmd, DummyCyclesPerByte, AddressLines, DataLines, Expected, Takes
    <3> QED
      BY <1>2, <3>1, <3>2
  <2> QED
    BY <1>1, <2>1, <2>2 DEF Understood
<1>3. CASE pc \in {"fetch", "execute", "erase"}
  BY <1>1, <1>3 DEF Understood, Cmd, ConfigureCmd, DummyCyclesPerByte, AddressLines, DataLines, Expected, Takes
<1>4. CASE pc \in {"unprotect", "quadEnable"}
  BY <1>1, <1>4 DEF Understood, Cmd, ConfigureCmd, DummyCyclesPerByte, AddressLines, DataLines, Expected, Takes
<1>5. CASE pc \in {"unlock", "enable", "enableErase"}
  BY <1>1, <1>5 DEF Understood, Cmd, ConfigureCmd, DummyCyclesPerByte, AddressLines, DataLines, Expected, Takes
<1> QED
  BY <1>2, <1>3, <1>4, <1>5

(* Only init() and a restart forget that something failed.                 *)
LEMMA SoundBefore == ASSUME IInv, Driver \/ Finish \/ littlefs, Sound' PROVE Sound
<1>1. failed \in BOOLEAN /\ hasty \in BOOLEAN
  BY DEF IInv, TypeOK
<1>2. CASE Driver
  BY <1>1, <1>2 DEF Sound, Driver, ReadId, Unlock, Unprotect, Settle, QuadEnable,
                    Fetch, Fetched, ReadCache, Load, Enable, Execute, Executed,
                    EnableErase, Erase, ErasedAll,
                    Transfers, Spoils, Fails, Error, EnableWrites, Delays
<1>3. CASE Finish
  BY <1>3 DEF Sound, Finish
<1>4. CASE littlefs
  BY <1>4 DEF Sound, littlefs, StartRead, StartProg, StartErase
<1> QED
  BY <1>2, <1>3, <1>4

LEMMA InitSInv == Init => SInv
BY DEF Init, SInv, ChipReady, WritingHere, DoneSoFar, OkMeansDone, ReadSteps, ProgSteps

LEMMA SoundInit ==
    ASSUME IInv, SInv, StartInit \/ ReadId \/ Unlock \/ Unprotect \/ Settle \/ QuadEnable
    PROVE  SInv'
<1> SUFFICES ASSUME Sound' PROVE (ChipReady /\ WritingHere /\ DoneSoFar /\ OkMeansDone)'
  BY DEF SInv
<1> USE DEF ChipReady, WritingHere, DoneSoFar, OkMeansDone, ReadSteps, ProgSteps,
        Goto, Return, caller, chip, bus
<1>1. CASE StartInit
  BY <1>1 DEF StartInit, IInv, Identified
<1>2. CASE ~StartInit
  <2>1. Sound /\ ~busy /\ writing = {}
    <3>2. Sound
      BY <1>2, SoundBefore DEF Driver
    <3>3. pc \in InitSteps
      BY <1>2 DEF ReadId, Unlock, Unprotect, Settle, QuadEnable, InitSteps
    <3> QED
      BY <3>2, <3>3 DEF IInv, Shape, Identified
  <2>2. ChipReady /\ pc \in InitSteps /\ ~ready /\ request.kind = "init"
    BY <1>2, <2>1 DEF SInv, ReadId, Unlock, Unprotect, Settle, QuadEnable, IInv, Shape, InitSteps
  <2>3. CASE ReadId
    BY <2>1, <2>2, <2>3 DEF ReadId
  <2>4. CASE Unlock
    BY <2>1, <2>2, <2>4 DEF Unlock, EnableWrites, Transfers, Fails, Error, Sound
  <2>5. CASE Unprotect
    <3>1. locked' = FALSE /\ UNCHANGED <<id, cells, cache, enabled, busy, writing, qe>>
      BY <2>1, <2>2, <2>5, Heard DEF Unprotect, Transfers, Fails, Error, Sound
    <3> QED
      BY <2>1, <2>2, <2>5, <3>1 DEF Unprotect
  <2>6. CASE Settle
    BY <2>1, <2>2, <2>6 DEF Settle, Delays, Sound, IInv, TypeOK
  <2>7. CASE QuadEnable
    <3>1. qe' = TRUE /\ UNCHANGED <<id, cells, cache, enabled, busy, writing, locked>>
      BY <2>1, <2>2, <2>7, Heard DEF QuadEnable, Transfers, Fails, Error, Sound
    <3> QED
      BY <2>1, <2>2, <2>7, <3>1 DEF QuadEnable
  <2> QED
    BY <1>2, <2>3, <2>4, <2>5, <2>6, <2>7
<1> QED
  BY <1>1, <1>2

LEMMA SoundRead ==
    ASSUME IInv, SInv,
           (\E b \in Blocks, p \in PageNumbers : \E n \in 1 .. Pages - p : StartRead(b, p, n))
           \/ Fetch \/ Fetched \/ ReadCache
    PROVE  SInv'
<1> SUFFICES ASSUME Sound' PROVE (ChipReady /\ WritingHere /\ DoneSoFar /\ OkMeansDone)'
  BY DEF SInv
<1>1. Sound /\ ChipReady /\ WritingHere /\ DoneSoFar /\ TypeOK /\ Shape
  BY SoundBefore DEF SInv, IInv, Driver, littlefs
<1> USE DEF ChipReady, WritingHere, DoneSoFar, ReadSteps, ProgSteps, Goto, Return, caller, chip, bus
<1>2. ASSUME NEW b \in Blocks, NEW p \in PageNumbers, NEW n \in 1 .. Pages - p, StartRead(b, p, n)
      PROVE  (ChipReady /\ WritingHere /\ DoneSoFar /\ OkMeansDone)'
  <2>1. buf' = <<>> /\ Len(buf') = 0
    BY <1>2 DEF StartRead
  <2> QED
    BY <1>1, <1>2, <2>1 DEF StartRead, OkMeansDone
<1>3. CASE Fetch
  <2>1. cache' = cells[Here] /\ UNCHANGED <<id, cells, enabled, writing, locked, qe>>
    BY <1>1, <1>3, Heard DEF Fetch, Transfers, Fails, Error, Sound
  <2>2. Here' = Here /\ \A i : Nth(i)' = Nth(i)
    BY <1>3 DEF Fetch, Here, Nth
  <2> QED
    BY <1>1, <1>3, <2>1, <2>2 DEF Fetch, OkMeansDone
<1>4. CASE Fetched
  <2>1. ~busy' /\ writing' = {} /\ UNCHANGED <<id, cells, cache, enabled, locked, qe>>
    BY <1>1, <1>4 DEF Fetched, Delays, Sound, TypeOK
  <2>2. Here' = Here /\ \A i : Nth(i)' = Nth(i)
    BY <1>4 DEF Fetched, Here, Nth
  <2> QED
    BY <1>1, <1>4, <2>1, <2>2 DEF Fetched, OkMeansDone
<1>5. CASE ReadCache
  <2>1. buf' = Append(buf, cells[Here])
    BY <1>1, <1>5, Heard DEF ReadCache, CacheRead, Error, Sound
  <2>2. /\ left \in 1 .. request.pages /\ Len(buf) = request.pages - left
        /\ request.pages \in 0 .. Pages /\ buf \in Seq(Contents)
    BY <1>1, <1>5 DEF ReadCache, TypeOK, Shape, Requests, Kinds
  <2>3. Len(buf') = Len(buf) + 1 /\ Here = Nth(Len(buf) + 1)
    BY <2>1, <2>2, HerePage DEF At
  <2>4. \A i \in 1 .. Len(buf') : buf'[i] = cells[Nth(i)]
    <3>1. \A i \in 1 .. Len(buf) : buf'[i] = buf[i] /\ buf[i] = cells[Nth(i)]
      BY <1>1, <1>5, <2>1, <2>2 DEF ReadCache
    <3>2. buf'[Len(buf) + 1] = cells[Nth(Len(buf) + 1)]
      BY <2>1, <2>2, <2>3
    <3>3. \A i \in 1 .. Len(buf') : i \in 1 .. Len(buf) \/ i = Len(buf) + 1
      BY <2>2, <2>3
    <3> QED
      BY <3>1, <3>2, <3>3
  <2>5. UNCHANGED <<cells, cache, busy, enabled, writing, locked, qe, quad, agree, data4, ready, request>>
    BY <1>5 DEF ReadCache
  <2>6. \A i : Nth(i)' = Nth(i)
    BY <2>5 DEF Nth
  <2>7. OkMeansDone'
    <3>1. ASSUME left' = 0 PROVE Len(buf') = request'.pages /\ request'.kind = "read"
      BY <1>1, <1>5, <2>2, <2>3, <3>1 DEF ReadCache, Shape
    <3> QED
      BY <1>5, <2>4, <2>5, <3>1 DEF ReadCache, OkMeansDone, Nth
  <2> QED
    BY <1>1, <1>5, <2>4, <2>5, <2>6, <2>7 DEF ReadCache
<1> QED
  BY <1>2, <1>3, <1>4, <1>5

LEMMA SoundProg ==
    ASSUME IInv, SInv,
           (\E b \in Blocks, p \in PageNumbers : \E n \in 1 .. Pages - p :
                \E content \in [1 .. n -> Data] : StartProg(b, p, content))
           \/ Load \/ Enable \/ Execute \/ Executed
    PROVE  SInv'
<1> SUFFICES ASSUME Sound' PROVE (ChipReady /\ WritingHere /\ DoneSoFar /\ OkMeansDone)'
  BY DEF SInv
<1>1. Sound /\ ChipReady /\ WritingHere /\ DoneSoFar /\ TypeOK /\ Shape
  BY SoundBefore DEF SInv, IInv, Driver, littlefs
<1> USE DEF ChipReady, WritingHere, DoneSoFar, ReadSteps, ProgSteps, Goto, Return, caller, chip, bus
<1>2. ASSUME NEW b \in Blocks, NEW p \in PageNumbers, NEW n \in 1 .. Pages - p,
             NEW content \in [1 .. n -> Data], StartProg(b, p, content)
      PROVE  (ChipReady /\ WritingHere /\ DoneSoFar /\ OkMeansDone)'
  <2>1. n \in 1 .. Pages /\ Len(content) = n /\ DOMAIN content = 1 .. n
    BY ChipAssumption DEF PageNumbers
  <2>2. At' = 1 /\ request'.pages = n
    BY <1>2, <2>1 DEF StartProg, At
  <2>3. \A i \in At' + 1 .. request'.pages : cells'[Nth(i)'] = Erased
    BY <1>2, <2>1, <2>2 DEF StartProg, Nth
  <2> QED
    BY <1>1, <1>2, <2>1, <2>2, <2>3 DEF StartProg, OkMeansDone
<1>3. CASE ~\E b \in Blocks, p \in PageNumbers : \E n \in 1 .. Pages - p :
                \E content \in [1 .. n -> Data] : StartProg(b, p, content)
  <2>1. /\ pc \in ProgSteps
        /\ left \in 1 .. request.pages /\ Len(buf) = request.pages /\ request.kind = "prog"
        /\ request.pages \in 0 .. Pages /\ At \in 1 .. request.pages /\ Here = Nth(At)
        /\ Here \in DOMAIN cells
        /\ UNCHANGED <<request, buf, ready, quad, agree, data4>>
    <3>1. /\ pc \in ProgSteps
          /\ UNCHANGED <<request, buf, ready, quad, agree, data4>>
      BY <1>3 DEF Load, Enable, Execute, Executed
    <3> QED
      BY <1>1, <3>1, HerePage DEF Shape, TypeOK, Requests, Kinds
  <2>2. \A i : Nth(i)' = Nth(i)
    BY <2>1 DEF Nth
  <2>3. CASE Load
    <3>1. cache' = buf[At] /\ UNCHANGED <<id, cells, enabled, busy, writing, locked, qe>>
      <4>1. Len(buf) - left + 1 = At
        BY <2>1 DEF At
      <4> QED
        BY <1>1, <2>3, <4>1, Heard DEF Load, Transfers, Fails, Error, Sound
    <3>2. Here' = Here /\ At' = At
      BY <2>3 DEF Load, Here, At
    <3> QED
      BY <1>1, <2>1, <2>2, <2>3, <3>1, <3>2 DEF Load, OkMeansDone
  <2>4. CASE Enable
    <3>1. enabled' /\ pc' = "execute" /\ UNCHANGED <<id, cells, cache, busy, writing, locked, qe>>
      BY <1>1, <2>4, Heard DEF Enable, EnableWrites, Transfers, Fails, Error, Sound
    <3>2. Here' = Here /\ At' = At
      BY <2>4 DEF Enable, Here, At
    <3> QED
      BY <1>1, <2>1, <2>2, <2>4, <3>1, <3>2 DEF Enable, OkMeansDone
  <2>5. CASE Execute
    <3>1. enabled /\ ~locked /\ cache = buf[At] /\ ready
      BY <1>1, <2>1, <2>5 DEF Execute, Shape
    <3>2. /\ cells' = [cells EXCEPT ![Here] = cache] /\ writing' = {Here}
          /\ UNCHANGED <<id, cache, locked, qe>>
      BY <1>1, <2>5, <3>1, Heard DEF Execute, Program, Transfers, Spoils, Fails, Error, Sound
    <3>3. Here' = Here /\ At' = At
      BY <2>5 DEF Execute, Here, At
    <3>4. cells'[Here] = buf[At]
      BY <2>1, <3>1, <3>2
    <3>5. \A i \in 1 .. request.pages : i # At => cells'[Nth(i)] = cells[Nth(i)]
      <4>1. request.page \in Nat
        BY <1>1, ChipAssumption DEF TypeOK, Requests, Kinds, PageNumbers
      <4>2. \A i \in 1 .. request.pages : i # At => Nth(i) # Here
        BY <2>1, <4>1 DEF Nth
      <4> QED
        BY <1>1, <3>2, <4>2 DEF TypeOK
    <3>6. DoneSoFar'
      <4>1. /\ \A i \in 1 .. At - 1 : cells[Nth(i)] = buf[i]
            /\ \A i \in At + 1 .. request.pages : cells[Nth(i)] = Erased
        BY <1>1, <2>1
      <4>2. /\ \A i \in 1 .. At - 1 : cells'[Nth(i)] = buf[i]
            /\ \A i \in At + 1 .. request.pages : cells'[Nth(i)] = Erased
        BY <2>1, <3>5, <4>1, ChipAssumption
      <4>3. pc' = "executed"
        BY <2>5 DEF Execute
      <4> QED
        BY <2>1, <2>2, <3>3, <3>4, <4>2, <4>3
    <3> QED
      BY <1>1, <2>1, <2>2, <2>5, <3>1, <3>2, <3>3, <3>6 DEF Execute, OkMeansDone
  <2>6. CASE Executed
    <3>1. ~busy' /\ writing' = {} /\ UNCHANGED <<id, cells, cache, enabled, locked, qe>>
      BY <1>1, <2>6 DEF Executed, Delays, Sound, TypeOK
    <3>2. left' = left - 1 /\ At' = At + 1
      BY <2>1, <2>6 DEF Executed, At
    <3>3. \A i \in 1 .. At : cells'[Nth(i)] = buf'[i]
      BY <1>1, <2>1, <2>6, <3>1 DEF Executed
    <3>4. OkMeansDone'
      <4>1. ASSUME left' = 0 PROVE request'.pages = At
        BY <2>1, <3>2, <4>1 DEF At
      <4> QED
        BY <2>1, <2>6, <3>3, <4>1 DEF Executed, OkMeansDone, Nth
    <3>5. DoneSoFar'
      BY <1>1, <2>1, <2>2, <2>6, <3>1, <3>2, <3>3 DEF Executed
    <3> QED
      BY <1>1, <2>1, <2>6, <3>1, <3>4, <3>5 DEF Executed
  <2> QED
    BY <1>3, <2>3, <2>4, <2>5, <2>6
<1> QED
  BY <1>2, <1>3

LEMMA SoundErase ==
    ASSUME IInv, SInv, (\E b \in Blocks : StartErase(b)) \/ EnableErase \/ Erase \/ ErasedAll
    PROVE  SInv'
<1> SUFFICES ASSUME Sound' PROVE (ChipReady /\ WritingHere /\ DoneSoFar /\ OkMeansDone)'
  BY DEF SInv
<1>1. Sound /\ ChipReady /\ WritingHere /\ DoneSoFar /\ TypeOK /\ Shape
  BY SoundBefore DEF SInv, IInv, Driver, littlefs
<1> USE DEF ChipReady, WritingHere, DoneSoFar, ReadSteps, ProgSteps, Goto, Return, caller, chip, bus
<1>2. CASE \E b \in Blocks : StartErase(b)
  BY <1>1, <1>2 DEF StartErase, OkMeansDone
<1>3. CASE EnableErase
  <2>1. enabled' /\ pc' = "erase" /\ UNCHANGED <<id, cells, cache, busy, writing, locked, qe>>
    BY <1>1, <1>3, Heard DEF EnableErase, EnableWrites, Transfers, Fails, Error, Sound
  <2> QED
    BY <1>1, <1>3, <2>1 DEF EnableErase, OkMeansDone
<1>4. CASE Erase
  <2>1. EraseBlock(request.block) /\ enabled /\ ~locked
    BY <1>1, <1>4, Heard DEF Erase, Transfers, Spoils, Fails, Error, Sound, Shape, EraseSteps
  <2>2. Target' = Target
    BY <1>4 DEF Erase, Target
  <2>3. /\ cells' = [p \in DOMAIN cells |-> IF p[1] = request.block THEN Erased ELSE cells[p]]
        /\ writing' = Target /\ \A p \in Target : cells'[p] = Erased
    <3>1. Target = {p \in DOMAIN cells : p[1] = request.block}
      BY <1>1, <1>4, BlockPages DEF Erase, IInv, EraseSteps
    <3> QED
      BY <2>1, <3>1 DEF EraseBlock
  <2> QED
    BY <1>1, <1>4, <2>1, <2>2, <2>3 DEF Erase, EraseBlock, OkMeansDone
<1>5. CASE ErasedAll
  <2>1. ~busy' /\ writing' = {} /\ UNCHANGED <<id, cells, cache, enabled, locked, qe>>
    BY <1>1, <1>5 DEF ErasedAll, Delays, Sound, TypeOK
  <2>2. Target' = Target /\ request'.kind = "erase"
    BY <1>1, <1>5 DEF ErasedAll, Target, Shape, EraseSteps
  <2> QED
    BY <1>1, <1>5, <2>1, <2>2 DEF ErasedAll, OkMeansDone
<1> QED
  BY <1>2, <1>3, <1>4, <1>5

LEMMA SoundOther == ASSUME IInv, SInv, Halt \/ Finish \/ Restart \/ UNCHANGED vars PROVE SInv'
<1>1. CASE Finish
  <2>1. /\ busy' = FALSE /\ writing' = {}
        /\ UNCHANGED <<id, cells, cache, enabled, locked, qe, quad, agree, data4, ready, pc,
                       request, buf, left, result, failed, hasty>>
    BY <1>1 DEF Finish, bus
  <2> QED
    BY <2>1 DEF SInv, Sound, ChipReady, WritingHere, DoneSoFar, OkMeansDone, Here, At, Nth, Target
<1>2. CASE Restart
  BY <1>2 DEF Restart, SInv, ChipReady, WritingHere, DoneSoFar, OkMeansDone, ReadSteps, ProgSteps
<1>3. CASE UNCHANGED vars
  BY <1>3 DEF vars, chip, bus, SInv, Sound, ChipReady, WritingHere, DoneSoFar, OkMeansDone,
              Here, At, Nth, Target
<1>4. CASE Halt
  <2>1. pc = "id" /\ pc' = "halted" /\ UNCHANGED <<chip, bus, caller, failed, hasty>>
    BY <1>4 DEF Halt, Goto
  <2>2. ~ready
    BY <2>1 DEF IInv, Shape, InitSteps
  <2> QED
    BY <2>1, <2>2 DEF chip, bus, caller, SInv, Sound, ChipReady, WritingHere, DoneSoFar,
                      OkMeansDone, ReadSteps, ProgSteps
<1> QED
  BY <1>1, <1>2, <1>3, <1>4

LEMMA NextSInv == ASSUME IInv, SInv, [Next]_vars PROVE SInv'
BY SoundInit, SoundRead, SoundProg, SoundErase, SoundOther DEF Next, Driver, littlefs

LEMMA SoundInductive == Spec => []SInv
<1> QED
  BY InitSInv, Inductive, NextSInv, PTL DEF Spec

(* What a call that returned success promises, it has done, unless an      *)
(* error of the protocol was ignored, the chip failed in a program or an   *)
(* erase, or a Delay was too short: over SPI and QSPI, for any size of the *)
(* chip and after any sequence of calls and restarts                       *)
(* (gd5f1gq5xe.cpp:48-268).                                                *)
THEOREM SuccessIsTrue == Spec => []OkMeansDoneUnlessFailed
<1>1. IInv /\ SInv => OkMeansDoneUnlessFailed
  BY DEF SInv, Sound, OkMeansDoneUnlessFailed
<1> QED
  BY <1>1, Inductive, SoundInductive, PTL

-----------------------------------------------------------------------------
(* What a step may do to the pages, whatever fails.                        *)

LEMMA CellsKept == ASSUME Driver, ~Execute, ~Erase PROVE cells' = cells
BY DEF Driver, ReadId, Unlock, Unprotect, Settle, QuadEnable, Fetch, Fetched, ReadCache,
       Load, Enable, Executed, EnableErase, ErasedAll,
       Transfers, Fails, EnableWrites, Delays, chip

LEMMA OthersKeepCells ==
    ASSUME StartInit \/ Halt \/ Finish \/ littlefs \/ UNCHANGED vars
    PROVE  cells' = cells
BY DEF littlefs, StartInit, Halt, Finish, StartRead, StartProg, StartErase, chip, vars

LEMMA ExecutedPage ==
    ASSUME IInv, Execute
    PROVE  /\ request.kind = "prog" /\ ready /\ Here \in Target /\ Here \in DOMAIN cells
           /\ \A p \in DOMAIN cells : cells'[p] # cells[p] => p = Here
<1>1. request.kind = "prog" /\ ready /\ left \in 1 .. request.pages
  BY DEF IInv, Shape, Execute, ProgSteps
<1>2. \E c : cells' = [p \in DOMAIN cells |-> IF p \in {Here} THEN c ELSE cells[p]]
               \/ cells' = cells
  BY DEF Execute, Transfers, Program, Spoils, Fails, chip, IInv, TypeOK
<1> QED
  BY <1>1, <1>2, HerePage DEF IInv, TypeOK

LEMMA ErasedPages ==
    ASSUME IInv, Erase
    PROVE  /\ request.kind = "erase" /\ ready
           /\ \A p \in DOMAIN cells : cells'[p] # cells[p] =>
                  p \in Target /\ (Sound' => cells'[p] = Erased)
<1>1. request.kind = "erase" /\ ready /\ Target = {p \in DOMAIN cells : p[1] = request.block}
  BY BlockPages DEF IInv, Shape, Erase, EraseSteps
<1>2. \/ cells' = cells
      \/ cells' = [p \in DOMAIN cells |-> IF p \in Target THEN Erased ELSE cells[p]]
      \/ Spoils(Target)
  BY <1>1 DEF Erase, Transfers, EraseBlock, Fails, chip
<1>3. CASE Spoils(Target)
  <2>1. ~Sound' /\ \E c \in Contents :
            cells' = [p \in DOMAIN cells |-> IF p \in Target THEN c ELSE cells[p]]
    BY <1>3 DEF Spoils, Error, Sound
  <2> QED
    BY <1>1, <2>1 DEF IInv, TypeOK
<1> QED
  BY <1>1, <1>2, <1>3 DEF IInv, TypeOK

LEMMA SpoiledPages ==
    ASSUME IInv, Restart
    PROVE  \A p \in DOMAIN cells : cells'[p] # cells[p] => p \in writing
BY DEF Restart, IInv, TypeOK

(* No call touches a page it was not asked to write, whatever fails, and a *)
(* loss of power spoils only what the chip is writing                      *)
(* (gd5f1gq5xe.cpp:69, 133, 180).                                          *)
THEOREM OnlyTheTargetChanges == Spec => OthersKept
<1>1. ASSUME IInv, [Next]_vars, NEW p \in DOMAIN cells, cells'[p] # cells[p]
      PROVE  \/ request.kind \in {"prog", "erase"} /\ p \in Target
             \/ request'.kind = "none" /\ p \in writing
  <2>1. CASE Execute
    BY <1>1, <2>1, ExecutedPage
  <2>2. CASE Erase
    BY <1>1, <2>2, ErasedPages
  <2>3. CASE Restart
    BY <1>1, <2>3, SpoiledPages, NoRequestType DEF Restart
  <2> QED
    BY <1>1, <2>1, <2>2, <2>3, CellsKept, OthersKeepCells DEF Next
<1>2. IInv /\ [Next]_vars =>
          [\A p \in DOMAIN cells : cells'[p] # cells[p] =>
              \/ request.kind \in {"prog", "erase"} /\ p \in Target
              \/ request'.kind = "none" /\ p \in writing]_vars
  BY <1>1
<1> QED
  BY <1>2, Inductive, PTL DEF Spec, OthersKept

(* A chip of whose id neither byte matches keeps what it holds, whatever   *)
(* fails and however often init() is tried (gd5f1gq5xe.cpp:243-248).       *)
THEOREM NoByteMatchesKept == Spec => NoByteMatchesUntouched
<1>1. ASSUME IInv, [Next]_vars, id = 0 PROVE cells' = cells
  <2>1. ~Execute /\ ~Erase
    BY <1>1, ExecutedPage, ErasedPages DEF IInv, Identified
  <2>2. CASE Restart
    <3>1. ~ready /\ writing = {}
      BY <1>1 DEF IInv, Identified
    <3> QED
      BY <1>1, <2>2, <3>1 DEF Restart, IInv, TypeOK
  <2> QED
    BY <1>1, <2>1, <2>2, CellsKept, OthersKeepCells DEF Next
<1>2. IInv /\ [Next]_vars => [id = 0 => cells' = cells]_vars
  BY <1>1
<1> QED
  BY <1>2, Inductive, PTL DEF Spec, NoByteMatchesUntouched

-----------------------------------------------------------------------------
(* The driver implements BlockDevice.                                      *)

LEMMA DeviceTarget ==
    ASSUME IInv
    PROVE  /\ Device!Target = Target
           /\ \A i : Device!Nth(i) = Nth(i)
<1>1. request.pages \in Nat /\ request.page \in Nat
  BY ChipAssumption DEF IInv, TypeOK, Requests, Kinds, PageNumbers
<1>2. Device!Target = {<<request.block, request.page + i - 1>> : i \in 1 .. request.pages}
  BY DEF Device!Target, Device!Nth
<1>3. ASSUME NEW p PROVE p \in Device!Target => p \in Target
  <2> SUFFICES ASSUME NEW i \in 1 .. request.pages, p = <<request.block, request.page + i - 1>>
               PROVE  p \in Target
    BY <1>2
  <2>1. i - 1 \in 0 .. request.pages - 1 /\ p = <<request.block, request.page + (i - 1)>>
    BY <1>1
  <2> QED
    BY <2>1 DEF Target
<1>4. ASSUME NEW p PROVE p \in Target => p \in Device!Target
  <2> SUFFICES ASSUME NEW i \in 0 .. request.pages - 1, p = <<request.block, request.page + i>>
               PROVE  p \in Device!Target
    BY DEF Target
  <2>1. i + 1 \in 1 .. request.pages /\ p = <<request.block, request.page + (i + 1) - 1>>
    BY <1>1
  <2> QED
    BY <1>2, <2>1
<1> QED
  BY <1>3, <1>4 DEF Device!Nth, Nth

LEMMA DeviceInit == Init => Device!Init
BY NoRequestType DEF Init, Device!Init, Device!Contents, Device!PageNumbers, Contents, PageNumbers

LEMMA DeviceBegin == ASSUME IInv, StartInit \/ littlefs PROVE Device!Begin
<1> USE DEF Goto, caller, chip, bus, Device!Begin
<1>1. result # "pending"
  BY DEF IInv, TypeOK
<1>2. CASE StartInit
  <2>1. request'.kind = "init"
    BY <1>2 DEF StartInit, IInv, TypeOK, Requests, Kinds
  <2> QED
    BY <1>1, <1>2, <2>1 DEF StartInit
<1>3. ASSUME NEW b \in Blocks, NEW p \in PageNumbers, NEW n \in 1 .. Pages - p, StartRead(b, p, n)
      PROVE  Device!Begin
  BY <1>1, <1>3 DEF StartRead
<1>4. ASSUME NEW b \in Blocks, NEW p \in PageNumbers, NEW n \in 1 .. Pages - p,
             NEW content \in [1 .. n -> Data], StartProg(b, p, content)
      PROVE  Device!Begin
  <2>1. n \in 1 .. Pages /\ Len(content) = n /\ DOMAIN content = 1 .. n
    BY ChipAssumption DEF PageNumbers
  <2>2. request' = [kind |-> "prog", block |-> b, page |-> p, pages |-> n] /\ buf' = content
    BY <1>4, <2>1 DEF StartProg
  <2>3. \A q \in Device!Target' : cells[q] = Erased
    <3>1. Device!Target' = {<<b, p + i - 1>> : i \in 1 .. n}
      BY <2>2 DEF Device!Target, Device!Nth
    <3>2. \A i \in 1 .. n : cells[<<b, p + i - 1>>] = Erased
      BY <1>4, <2>1 DEF StartProg
    <3> QED
      BY <3>1, <3>2
  <2> QED
    BY <1>1, <1>4, <2>1, <2>2, <2>3 DEF StartProg
<1>5. ASSUME NEW b \in Blocks, StartErase(b) PROVE Device!Begin
  BY <1>1, <1>5 DEF StartErase
<1> QED
  BY <1>2, <1>3, <1>4, <1>5 DEF littlefs

(* What all parts of a call have in common.                                *)
LEMMA DriverStep ==
    ASSUME IInv, Driver
    PROVE  /\ pc # "idle" /\ (pc' = "idle" => result' \in {"ok", "error"})
           /\ UNCHANGED request
           /\ Sound' => Sound
           /\ Sound' /\ pc' = "idle" /\ result' = "error" => request.kind = "init"
<1>1. pc # "idle" /\ (pc' = "idle" => result' \in {"ok", "error"}) /\ UNCHANGED request
  BY DEF Driver, ReadId, Unlock, Unprotect, Settle, QuadEnable, Fetch, Fetched, ReadCache,
         Load, Enable, Execute, Executed, EnableErase, Erase, ErasedAll, Goto, Return, caller
<1>2. Sound' /\ pc' = "idle" /\ result' = "error" => ReadId
  BY DEF Sound, Driver, ReadId, Unlock, Unprotect, Settle, QuadEnable, Fetch, Fetched, ReadCache,
         Load, Enable, Execute, Executed, EnableErase, Erase, ErasedAll, Goto, Return, Fails, Error
<1>3. ReadId => request.kind = "init"
  BY DEF ReadId, IInv, Shape, InitSteps
<1> QED
  BY <1>1, <1>2, <1>3, SoundBefore

LEMMA DriverBuffer ==
    ASSUME IInv, Driver
    PROVE  IF request.kind = "read"
           THEN /\ \/ buf' = buf
                   \/ Len(buf') = Len(buf) + 1 /\ buf = SubSeq(buf', 1, Len(buf))
                /\ pc' = "idle" => Len(buf') = request.pages
           ELSE buf' = buf
<1>1. CASE ReadCache
  <2>1. request.kind = "read" /\ left \in 1 .. request.pages /\ Len(buf) = request.pages - left
        /\ request.pages \in 0 .. Pages /\ buf \in Seq(Contents)
    BY <1>1 DEF IInv, TypeOK, Requests, Kinds, Shape, ReadCache, ReadSteps
  <2>2. PICK c \in Contents : buf' = Append(buf, c)
    BY <1>1 DEF ReadCache, CacheRead, IInv, TypeOK
  <2>3. Len(buf') = Len(buf) + 1 /\ buf = SubSeq(buf', 1, Len(buf))
    BY <2>1, <2>2
  <2>4. pc' = "idle" => left = 1
    BY <1>1, <2>1 DEF ReadCache, Goto
  <2> QED
    BY <2>1, <2>3, <2>4
<1>2. CASE ~ReadCache
  <2>1. buf' = buf
    BY <1>2 DEF Driver, ReadId, Unlock, Unprotect, Settle, QuadEnable, Fetch, Fetched,
                Load, Enable, Execute, Executed, EnableErase, Erase, ErasedAll, caller
  <2>2. request.kind = "read" => pc \in ReadSteps
    BY <1>2 DEF Driver, ReadId, Unlock, Unprotect, Settle, QuadEnable, Fetch, Fetched,
                Load, Enable, Execute, Executed, EnableErase, Erase, ErasedAll,
                IInv, Shape, InitSteps, ReadSteps, ProgSteps, EraseSteps
  <2>3. request.kind = "read" => pc' # "idle"
    BY <1>2, <2>2 DEF Driver, ReadId, Unlock, Unprotect, Settle, QuadEnable, Fetch, Fetched,
                Load, Enable, Execute, Executed, EnableErase, Erase, ErasedAll, ReadSteps, Goto
  <2> QED
    BY <2>1, <2>3
<1> QED
  BY <1>1, <1>2

(* What a page becomes is what it should become, and in order.             *)
LEMMA DriverDue ==
    ASSUME IInv, SInv, SInv', Driver, Sound', NEW i \in 1 .. request.pages,
           cells'[Nth(i)] # cells[Nth(i)]
    PROVE  Device!Due(i)
<1>1. \A j : Device!Nth(j) = Nth(j)
  BY DeviceTarget
<1>2. Sound /\ UNCHANGED request
  BY DriverStep
<1>3. Nth(i) \in DOMAIN cells
  <2>1. request.block \in Blocks /\ request.page + i - 1 \in PageNumbers
    BY ChipAssumption DEF IInv, TypeOK, Shape, Requests, Kinds, PageNumbers
  <2> QED
    BY <2>1 DEF Nth, IInv, TypeOK
<1>4. CASE Execute
  <2>1. Here = Nth(i) /\ request.kind = "prog"
    BY <1>3, <1>4, ExecutedPage
  <2>2. Here = Nth(At) /\ At \in 1 .. request.pages
    BY <1>4, HerePage DEF IInv, Shape, Execute, ProgSteps
  <2>3. request.page \in Nat /\ At = i
    BY <2>1, <2>2, ChipAssumption DEF Nth, IInv, TypeOK, Requests, Kinds, PageNumbers
  <2>4. pc' = "executed" /\ Here' = Here /\ At' = At /\ buf' = buf
    BY <1>4 DEF Execute, Goto, Here, At, caller
  <2>5. cells'[Nth(i)] = buf[i]
    BY <1>2, <2>1, <2>3, <2>4 DEF SInv, DoneSoFar
  <2>6. \A j \in 1 .. i - 1 : cells[Nth(j)] = buf[j]
    BY <1>2, <1>4, <2>3 DEF SInv, DoneSoFar, Execute, ProgSteps
  <2> QED
    BY <1>1, <2>1, <2>5, <2>6 DEF Device!Due
<1>5. CASE Erase
  BY <1>1, <1>3, <1>5, ErasedPages DEF Device!Due
<1> QED
  BY <1>4, <1>5, CellsKept

LEMMA DeviceServe == ASSUME IInv, IInv', SInv, SInv', Driver PROVE Device!Serve
<1>1. /\ Device!Target = Target /\ Device!Target' = Target'
      /\ \A i : Device!Nth(i) = Nth(i) /\ Nth(i)' = Nth(i)
      /\ UNCHANGED request /\ pc # "idle"
  BY DeviceTarget, DriverStep DEF Nth, Device!Target, Device!Nth, Target
<1>2. ASSUME NEW p \in DOMAIN cells, cells'[p] # cells[p]
      PROVE  Device!Writing /\ p \in Device!Target
  <2>1. CASE Execute
    BY <1>1, <1>2, <2>1, ExecutedPage DEF Device!Writing
  <2>2. CASE Erase
    BY <1>1, <1>2, <2>2, ErasedPages DEF Device!Writing
  <2> QED
    BY <1>2, <2>1, <2>2, CellsKept
<1>3. DOMAIN buf' = 1 .. Len(buf')
  BY DEF IInv, TypeOK
<1>4. ASSUME Sound', request.kind = "read" PROVE Device!ReadSoFar'
  <2>1. pc' = "idle" => result' = "ok" /\ Len(buf') = request.pages
    BY <1>1, <1>4, DriverStep, DriverBuffer
  <2>2. pc' # "idle" => pc' \in ReadSteps
    BY <1>1, <1>4 DEF IInv, TypeOK, Shape, InitSteps, ReadSteps, ProgSteps, EraseSteps
  <2>3. \A i \in 1 .. Len(buf') : buf'[i] = cells'[Nth(i)']
    BY <1>1, <1>4, <2>1, <2>2 DEF SInv, DoneSoFar, OkMeansDone, Nth
  <2> QED
    BY <1>1, <1>3, <2>3 DEF Device!ReadSoFar, Device!Nth, Nth
<1>5. ASSUME Sound', pc' = "idle", result' = "ok" PROVE Device!Done'
  <2>1. OkMeansDone'
    BY <1>5 DEF SInv
  <2>2. CASE request.kind = "read"
    BY <1>1, <1>4, <1>5, <2>2, DriverBuffer DEF Device!Done
  <2>3. CASE request.kind = "prog"
    <3>1. buf' = buf /\ Len(buf) = request.pages
      BY <1>1, <2>3, DriverBuffer DEF IInv, TypeOK, Shape, InitSteps, ReadSteps, ProgSteps, EraseSteps
    <3>2. \A i \in DOMAIN buf' : buf'[i] = cells'[Nth(i)']
      BY <1>1, <1>3, <1>5, <2>1, <2>3, <3>1 DEF OkMeansDone, Nth
    <3> QED
      BY <1>1, <2>3, <3>2 DEF Device!Done, Device!ReadSoFar, Device!Nth, Nth
  <2>4. CASE request.kind = "erase"
    BY <1>1, <1>5, <2>1, <2>4 DEF OkMeansDone, Device!Done
  <2> QED
    BY <1>1, <2>2, <2>3, <2>4 DEF Device!Done
<1>6. Sound' =>
          /\ \A i \in 1 .. request.pages : cells'[Device!Nth(i)] # cells[Device!Nth(i)] => Device!Due(i)
          /\ request.kind = "read" => Device!ReadSoFar'
          /\ pc' = "idle" /\ result' = "ok" => Device!Done'
  BY <1>1, <1>4, <1>5, DriverDue
<1> QED
  <2>1. /\ Sound' => Sound
        /\ pc' = "idle" => result' \in {"ok", "error"}
        /\ Sound' /\ pc' = "idle" /\ result' = "error" => request.kind = "init"
    BY DriverStep
  <2>2. IF request.kind = "read"
        THEN buf' = buf \/ (Len(buf') = Len(buf) + 1 /\ buf = SubSeq(buf', 1, Len(buf)))
        ELSE UNCHANGED buf
    BY DriverBuffer
  <2> QED
    BY <1>1, <1>2, <1>6, <2>1, <2>2 DEF Device!Serve, Sound

LEMMA DeviceRestart == ASSUME IInv, SInv, Restart PROVE Device!Restart
<1>1. /\ request'.kind = "none" /\ buf' = <<>> /\ pc' = "idle" /\ result' = "none" /\ Sound'
  BY NoRequestType DEF Restart, Sound
<1> DEFINE spoiled == {p \in DOMAIN cells : cells'[p] # cells[p]}
<1>2. ASSUME Sound, spoiled # {}
      PROVE  /\ pc # "idle" /\ Device!Writing /\ spoiled \subseteq Device!Target
             /\ request.kind = "prog" =>
                    \E i \in 1 .. request.pages :
                        /\ spoiled = {Device!Nth(i)}
                        /\ \A j \in 1 .. i - 1 : cells[Device!Nth(j)] = buf[j]
                        /\ \A j \in i + 1 .. request.pages : cells[Device!Nth(j)] = Erased
  <2>1. WritingHere /\ DoneSoFar
    BY <1>2 DEF SInv
  <2>2. spoiled \subseteq writing
    BY SpoiledPages
  <2>3. CASE pc = "executed"
    <3>1. request.kind = "prog" /\ left \in 1 .. request.pages
      BY <2>3 DEF IInv, Shape, ProgSteps
    <3>2. Here \in Target /\ Here = Nth(At) /\ At \in 1 .. request.pages
      BY <3>1, HerePage
    <3>3. spoiled = {Nth(At)}
      BY <1>2, <2>1, <2>2, <2>3, <3>2 DEF WritingHere
    <3>4. /\ \A j \in 1 .. At - 1 : cells[Nth(j)] = buf[j]
          /\ \A j \in At + 1 .. request.pages : cells[Nth(j)] = Erased
      BY <2>1, <2>3 DEF DoneSoFar, ProgSteps
    <3> HIDE DEF spoiled
    <3> QED
      BY <2>3, <3>1, <3>2, <3>3, <3>4, DeviceTarget DEF Device!Writing
  <2>4. CASE pc = "erased"
    <3>1. request.kind = "erase"
      BY <2>4 DEF IInv, Shape, EraseSteps
    <3> HIDE DEF spoiled
    <3> QED
      BY <2>1, <2>2, <2>4, <3>1, DeviceTarget DEF WritingHere, Device!Writing
  <2> QED
    BY <1>2, <2>1, <2>2, <2>3, <2>4 DEF WritingHere
<1>3. (~failed /\ ~hasty)' = TRUE
  BY <1>1 DEF Sound
<1> QED
  BY <1>1, <1>2, <1>3 DEF Device!Restart, Sound

(* The driver is the block device littlefs counts on, with any restart and *)
(* loss of power, as long as no protocol call, program or erase fails and  *)
(* no Delay is too short; otherwise at least where it writes is what it    *)
(* was asked for (gd5f1gq5xe.cpp:53-215, 225-229).                         *)
THEOREM DriverIsBlockDevice == Spec => ImplementsDevice
<1>1. ASSUME IInv, IInv', SInv, SInv', [Next]_vars PROVE [Device!Next]_(Device!vars)
  <2>1. CASE StartInit \/ littlefs
    BY <1>1, <2>1, DeviceBegin DEF Device!Next
  <2>2. CASE Driver
    BY <1>1, <2>2, DeviceServe DEF Device!Next
  <2>3. CASE Restart
    BY <1>1, <2>3, DeviceRestart DEF Device!Next
  <2>4. CASE Halt \/ Finish \/ UNCHANGED vars
    BY <2>4 DEF Halt, Goto, caller, Finish, vars, chip, bus, Device!vars
  <2> QED
    BY <1>1, <2>1, <2>2, <2>3, <2>4 DEF Next
<1> QED
  BY <1>1, DeviceInit, Inductive, SoundInductive, PTL DEF Spec, ImplementsDevice, Device!Spec

=============================================================================
