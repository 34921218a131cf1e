--------------------------- MODULE MCDoubleBuffer ---------------------------
(* DoubleBuffer with two words of two values: enough for a packet to mix   *)
(* words of two others.                                                    *)
EXTENDS DoubleBuffer
=============================================================================
