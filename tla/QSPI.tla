-------------------------------- MODULE QSPI --------------------------------
(***************************************************************************)
(* How QSPI (src/protocols/qspi.cpp) makes a QSPI_CommandTypeDef of what   *)
(* read() or write() is given.  All that is left of the bytes is their     *)
(* number: those behind the opcode and the address are dummy bytes.        *)
(*                                                                         *)
(* The code does not compile as it stands (a free function names members   *)
(* of the class and the parameter buffer): this is what it says with those *)
(* in scope.  Its switch compares data_mode, one of the HAL's numbers for  *)
(* the lines of data, with those for the lines of an address.  Where they  *)
(* are not the same numbers the default, an assertion, ends every call:    *)
(* the module that uses this one says so.                                  *)
(***************************************************************************)
EXTENDS Integers

(* What the switch returns for the lines of data, if a label matches.      *)
DummyCyclesPerByte(dataLines) == IF dataLines = 1 THEN 4 ELSE 2

(* cmd has size bytes, addressSize of them an address; data tells whether  *)
(* the buffer is not empty.                                                *)
ConfigureCmd(size, addressSize, data, addressLines, dataLines) ==
    [address |-> addressSize,
     addressLines |-> IF addressSize = 0 THEN 0 ELSE addressLines,
     dummyCycles |-> (size - 1 - addressSize) * DummyCyclesPerByte(dataLines),
     dataLines |-> IF data THEN dataLines ELSE 0]
=============================================================================
