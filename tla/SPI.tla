-------------------------------- MODULE SPI --------------------------------
(***************************************************************************)
(* The SPI protocol (include/protocols/spi.h, src/protocols/spi.cpp): one  *)
(* bus, an SPI object per chip.  read() and write() are alike: they pull   *)
(* the chip's select line low, send the command, move the data, and let    *)
(* the line go when the function is left.  (A write without data, which    *)
(* no sensor makes, ends with the command.)                                *)
(*                                                                         *)
(* External: a chip hears what is sent while its line is low.  The lines   *)
(* are high when the processor starts.                                     *)
(***************************************************************************)
EXTENDS Integers

CONSTANTS Chips, \* the chips on the bus
          Pins   \* the pins, 0 .. 15 of one port, their select lines may be at

SPIAssumption == Pins \subseteq 0 .. 15

VARIABLES
    pin, \* the pin each chip's line is at; pin[c] = n is GPIO_PIN_n = 2^n
    low, \* the pins that are low
    spi  \* the call in progress: where it is, its chip, and its result:
         \* did the HAL report an error?

TypeOK ==
    /\ pin \in [Chips -> Pins] /\ low \subseteq Pins
    /\ spi \in [at : {"idle", "command", "data", "leave"}, chip : Chips, error : BOOLEAN]

Init ==
    /\ pin \in [Chips -> Pins] /\ \A c, d \in Chips : pin[c] = pin[d] => c = d
    /\ low = {}
    /\ spi = [at |-> "idle", chip |-> CHOOSE c \in Chips : TRUE, error |-> FALSE]

(* What the object keeps of GPIO_PIN_n: its low eight bits.                *)
Mask(n) == 2^n % 2^8

(* The pins HAL_GPIO_WritePin changes for a chip's object.                 *)
Driven(c) == {n \in 0 .. 15 : (Mask(pin[c]) \div 2^n) % 2 = 1}

Hears(c) == pin[c] \in low

(* read() or write() is called; the guard is constructed.                  *)
Select(c) ==
    /\ spi.at = "idle" /\ spi' = [at |-> "command", chip |-> c, error |-> FALSE]
    /\ low' = low \cup Driven(c)
    /\ UNCHANGED pin

Command ==
    /\ spi.at = "command"
    /\ \/ spi' = [spi EXCEPT !.at = "data"]
       \/ spi' = [spi EXCEPT !.at = "leave", !.error = TRUE]
    /\ UNCHANGED <<pin, low>>

Data ==
    /\ spi.at = "data"
    /\ \E e \in BOOLEAN : spi' = [spi EXCEPT !.at = "leave", !.error = e]
    /\ UNCHANGED <<pin, low>>

(* Mutation: the line is only let go after a success.                      *)
LeaveOnSuccess ==
    /\ spi.at = "leave" /\ spi' = [spi EXCEPT !.at = "idle"]
    /\ low' = IF spi.error THEN low ELSE low \ Driven(spi.chip)
    /\ UNCHANGED pin

(* The guard is destroyed, whichever way the function is left.             *)
Leave ==
    /\ spi.at = "leave" /\ spi' = [spi EXCEPT !.at = "idle"]
    /\ low' = low \ Driven(spi.chip)
    /\ UNCHANGED pin

(* External: the processor restarts and sets its pins up anew.             *)
Reset ==
    /\ low' = {} /\ spi' = [spi EXCEPT !.at = "idle", !.error = FALSE]
    /\ UNCHANGED pin

-----------------------------------------------------------------------------

(* While bytes are on the bus no chip hears them but the one that is       *)
(* addressed, however the calls before ended (spi.cpp:8-18, 25, 34).       *)
OneChipHears ==
    spi.at \in {"command", "data"} => \A c \in Chips : Hears(c) => c = spi.chip
=============================================================================
