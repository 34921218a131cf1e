---------------------------- MODULE BlockDevice ----------------------------
(***************************************************************************)
(* What littlefs counts on from a driver of a flash chip (the read, prog   *)
(* and erase of its lfs_config, src/flash/gd5f1gq5xe.cpp:225-229): pages   *)
(* are programmed in order and erased block by block, success means done,  *)
(* what was reported as done survives a loss of power, and one in the      *)
(* middle of a call spoils no more than the page, or the erased block,     *)
(* that the call was at.                                                   *)
(*                                                                         *)
(* When something went wrong that the driver cannot or does not see        *)
(* (sound is FALSE) all that is left is which pages a call may change.     *)
(***************************************************************************)
EXTENDS Integers, Sequences

CONSTANTS Blocks, Pages, Data, Erased

VARIABLES
    cells,   \* the pages
    request, \* the last request
    buf,     \* the pages to program, or those read so far
    outcome, \* "pending" while a call is in progress, then its result
    sound    \* nothing went wrong since init() began

vars == <<cells, request, buf, outcome, sound>>

Contents == Data \cup {Erased}
PageNumbers == 0 .. Pages - 1
Writing == request.kind \in {"prog", "erase"}

(* The i-th page of the request.                                           *)
Nth(i) == <<request.block, request.page + i - 1>>
Target == {Nth(i) : i \in 1 .. request.pages}

Init ==
    /\ cells \in [Blocks \X PageNumbers -> Contents]
    /\ request.kind = "none" /\ buf = <<>> /\ outcome = "none" /\ sound = TRUE

(* littlefs calls the driver; it only programs pages that are erased.      *)
Begin ==
    /\ outcome # "pending" /\ outcome' = "pending"
    /\ request'.kind \in {"init", "read", "prog", "erase"}
    /\ CASE request'.kind = "init" -> sound' = TRUE /\ UNCHANGED buf
         [] request'.kind = "prog" -> Len(buf') = request'.pages /\ UNCHANGED sound
         [] OTHER -> buf' = <<>> /\ UNCHANGED sound
    /\ request'.kind = "prog" => \A p \in Target' : cells[p] = Erased
    /\ UNCHANGED cells

(* What a page may become, and when.                                       *)
Due(i) ==
    IF request.kind = "erase" THEN cells'[Nth(i)] = Erased
    ELSE cells'[Nth(i)] = buf[i] /\ \A j \in 1 .. i - 1 : cells[Nth(j)] = buf[j]

ReadSoFar == \A i \in DOMAIN buf : buf[i] = cells[Nth(i)]

Done ==
    CASE request.kind = "read" -> Len(buf) = request.pages /\ ReadSoFar
      [] request.kind = "prog" -> ReadSoFar
      [] request.kind = "erase" -> \A p \in Target : cells[p] = Erased
      [] OTHER -> TRUE

(* Part of a call, its end included.                                       *)
Serve ==
    /\ outcome = "pending" /\ outcome' \in {"pending", "ok", "error"}
    /\ UNCHANGED request /\ (sound' => sound)
    /\ \A p \in DOMAIN cells : cells'[p] # cells[p] => Writing /\ p \in Target
    /\ IF request.kind = "read"
       THEN buf' = buf \/ (Len(buf') = Len(buf) + 1 /\ buf = SubSeq(buf', 1, Len(buf)))
       ELSE UNCHANGED buf
    /\ sound' =>
           /\ \A i \in 1 .. request.pages : cells'[Nth(i)] # cells[Nth(i)] => Due(i)
           /\ request.kind = "read" => ReadSoFar'
           /\ outcome' = "ok" => Done'
           /\ outcome' = "error" => request.kind = "init"

(* The processor restarts, or the power goes: the call is forgotten.       *)
Restart ==
    /\ request'.kind = "none" /\ buf' = <<>> /\ outcome' = "none" /\ sound' = TRUE
    /\ sound =>
           LET spoiled == {p \in DOMAIN cells : cells'[p] # cells[p]}
           IN spoiled = {}
              \/ /\ outcome = "pending" /\ Writing /\ spoiled \subseteq Target
                 /\ request.kind = "prog" =>
                        \E i \in 1 .. request.pages :
                            /\ spoiled = {Nth(i)}
                            /\ \A j \in 1 .. i - 1 : cells[Nth(j)] = buf[j]
                            /\ \A j \in i + 1 .. request.pages : cells[Nth(j)] = Erased

Next == Begin \/ Serve \/ Restart

Spec == Init /\ [][Next]_vars
=============================================================================
