--------------------------- MODULE MCGD5F1GQ5XE ---------------------------
(* The driver with two blocks of two pages, so that a transfer can cross   *)
(* from one page to the next and there is a block it must not touch.       *)
EXTENDS GD5F1GQ5XE
=============================================================================
