----------------------------- MODULE MCRegistry -----------------------------
(* Registry with three subscribers of different masks: one that listens to *)
(* both events, as FlashTask does, and one to each of them.                *)
EXTENDS Registry, TLC

CONSTANTS both, first, second, \* the tasks
          e1, e2               \* the events

MCMask == (both :> {e1, e2}) @@ (first :> {e1}) @@ (second :> {e2})
=============================================================================
