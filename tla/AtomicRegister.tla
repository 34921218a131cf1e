--------------------------- MODULE AtomicRegister ---------------------------
(***************************************************************************)
(* What DoubleBuffer (include/tasks/base_task.h) promises to the tasks     *)
(* that share one: a register holding a whole packet.  One task publishes  *)
(* a packet in a single step, another takes the packet that is current in  *)
(* a single step.  Nothing of a packet that was only half built, and no    *)
(* mixture of two packets, is ever taken.                                  *)
(***************************************************************************)
CONSTANTS Packets,   \* the values a packet can have
          Blank      \* the packet both sides start from

VARIABLES published, \* the packet a reader would take now
          taken      \* the packet the reader took last

vars == <<published, taken>>

Init == published = Blank /\ taken = Blank

Publish == \E p \in Packets : published' = p /\ UNCHANGED taken

Take == taken' = published /\ UNCHANGED published

Next == Publish \/ Take

Spec == Init /\ [][Next]_vars
=============================================================================
