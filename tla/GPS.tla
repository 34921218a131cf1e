-------------------------------- MODULE GPS --------------------------------
(***************************************************************************)
(* The GPS driver (src/sensors/cd-pa1616s.cpp) on its UART                 *)
(* (src/protocols/uart.cpp): init() sends the module a command and starts  *)
(* a reception by DMA, read() searches the buffer for a GGA sentence,      *)
(* copies its line and splits it into fields, while the DMA goes on.       *)
(*                                                                         *)
(* Characters: "$", the five of "GNGGA" or "GPGGA" taken as one, ",",      *)
(* "CR", "LF", "NUL", those of the fields, and "junk" for any other; in    *)
(* the line "junk" is whatever was copied from behind the buffer.          *)
(*                                                                         *)
(* External, module and HAL: the module sends bursts of sentences with a   *)
(* pause between them, and the reception may begin inside one.  The DMA    *)
(* stores the characters from the start of the buffer on, in normal mode   *)
(* (not circular): the reception is over when the line is idle or the      *)
(* buffer is full.  The buffer is zero at first.  What lies behind it is   *)
(* arbitrary, and may be another value each time it is looked at.          *)
(***************************************************************************)
EXTENDS Integers, Sequences, SequencesExt

CONSTANTS BufferSize,   \* sizeof(buffer): 128
          LineSize,     \* sizeof(line): 120
          MaxFields,    \* the fields in fields[][]: 20
          FieldSize,    \* the size of each: 20
          Digits,       \* a latitude has at least so many characters: 4
          GgaBursts,    \* what a module sends that obeys the command of init()
          MixedBursts,  \* what it sends otherwise
          MaxReceptions \* bound: receptions

Altitude == 9 \* the number of the last field that is used

Bursts == GgaBursts \cup MixedBursts
Characters == {"$", "GGA", "CR", "LF", "NUL", "junk"} \cup UNION {Range(b) : b \in Bursts}

(* A sentence of NMEA 0183 has at most 82 characters.                      *)
GPSAssumption ==
    /\ MaxFields \in Nat /\ MaxFields > Altitude
    /\ FieldSize \in Nat /\ Digits \in Nat /\ FieldSize > Digits
    /\ BufferSize \in Nat \ {0} /\ LineSize \in Nat \ {0} /\ MaxReceptions \in Nat
    /\ Bursts \subseteq Seq(Characters)
    /\ \A b \in GgaBursts : Len(b) \in 1 .. BufferSize - 1

VARIABLES
    buffer,
    receiving, \* a reception is in progress
    w,         \* the characters it has stored
    received,  \* history: the bursts of all receptions
    pc,        \* where init() or read() is
    i,         \* read(): the loop's index; then that of gga_start
    line,      \* read(): the line, as far as it was copied
    found,     \* what the last read() put into the packet, if it returned true
    ready,     \* init() returned true
    settled,   \* history: no reception was in progress in the last read()
    overrun    \* history: it looked at what lies behind the buffer

reception == <<buffer, receiving, w, received>>
reading == <<i, line, found, settled, overrun>>
vars == <<reception, pc, reading, ready>>

(* What the memory may hold, k characters from buffer[0] on.               *)
Cells(k) == IF k <= BufferSize THEN {buffer[k]} ELSE Characters

(* Bound: places behind the buffer are not told apart.                     *)
After(k) == IF k <= BufferSize THEN k + 1 ELSE k

TypeOK ==
    /\ buffer \in [1 .. BufferSize -> Characters] /\ receiving \in BOOLEAN
    /\ w \in 0 .. BufferSize
    /\ received \in Seq(Bursts) /\ Len(received) <= MaxReceptions
    /\ pc \in {"idle", "write", "dma", "search", "match", "copy", "parse"}
    /\ i \in 0 .. BufferSize + 1
    /\ line \in Seq(Characters) /\ Len(line) <= LineSize - 1
    /\ ready \in BOOLEAN /\ settled \in BOOLEAN /\ overrun \in BOOLEAN

Init ==
    /\ buffer = [k \in 1 .. BufferSize |-> "NUL"]
    /\ receiving = FALSE /\ w = 0 /\ received = <<>>
    /\ pc = "idle" /\ i = 0 /\ line = <<>> /\ found = {}
    /\ ready = FALSE /\ settled = TRUE /\ overrun = FALSE

-----------------------------------------------------------------------------
(* init().                                                                 *)

(* External: the application calls init() until it returns true.           *)
StartInit ==
    /\ pc = "idle" /\ ~ready /\ pc' = "write"
    /\ UNCHANGED <<reception, reading, ready>>

(* write() is false if all went well; init() then returns false.           *)
SendCommand ==
    /\ pc = "write" /\ pc' \in {"idle", "dma"}
    /\ UNCHANGED <<reception, reading, ready>>

(* readDMA() likewise; the HAL is busy while a reception is in progress.   *)
StartDMA ==
    /\ pc = "dma" /\ pc' = "idle"
    /\ \/ /\ ~receiving /\ Len(received) < MaxReceptions
          /\ \E b \in Bursts : received' = Append(received, b)
          /\ receiving' = TRUE /\ w' = 0
          /\ UNCHANGED <<buffer, ready>>
       \/ ready' = TRUE /\ UNCHANGED reception
    /\ UNCHANGED reading

-----------------------------------------------------------------------------
(* The DMA.                                                                *)

Burst == Last(received)

Arrive ==
    /\ receiving /\ w < Len(Burst)
    /\ buffer' = [buffer EXCEPT ![w + 1] = Burst[w + 1]]
    /\ w' = w + 1 /\ receiving' = (w' < BufferSize)
    /\ UNCHANGED <<received, pc, reading, ready>>

LineIdle ==
    /\ receiving /\ w = Len(Burst) /\ receiving' = FALSE
    /\ UNCHANGED <<buffer, w, received, pc, reading, ready>>

-----------------------------------------------------------------------------
(* read().                                                                 *)

(* SensorTask calls read(), whatever init() returned.                      *)
StartRead ==
    /\ pc = "idle" /\ pc' = "search" /\ i' = 1 /\ found' = {}
    /\ settled' = ~receiving /\ overrun' = FALSE
    /\ UNCHANGED <<reception, line, ready>>

Returns(result) == pc' = "idle" /\ i' = 0 /\ line' = <<>> /\ found' = result

(* Mutation: the index is not advanced.                                    *)
SearchStays ==
    /\ pc = "search"
    /\ \E c \in Cells(i) :
           \/ c = "NUL" /\ Returns({})
           \/ c = "$" /\ pc' = "match" /\ UNCHANGED <<i, line, found>>
           \/ c \notin {"NUL", "$"} /\ UNCHANGED <<i, pc, line, found>>
    /\ overrun' = (overrun \/ i > BufferSize)
    /\ UNCHANGED <<reception, settled, ready>>

(* Mutation: the loop ends with the buffer, a cell too late.               *)
SearchWholeBuffer ==
    /\ pc = "search"
    /\ \E c \in Cells(i) :
           \/ i > BufferSize /\ Returns({})
           \/ i <= BufferSize /\ c = "$" /\ pc' = "match" /\ UNCHANGED <<i, line, found>>
           \/ i <= BufferSize /\ c # "$" /\ i' = i + 1 /\ UNCHANGED <<pc, line, found>>
    /\ overrun' = (overrun \/ i > BufferSize)
    /\ UNCHANGED <<reception, settled, ready>>

Search ==
    /\ pc = "search"
    /\ \E c \in Cells(i) :
           \/ c = "NUL" /\ Returns({})
           \/ c = "$" /\ pc' = "match" /\ UNCHANGED <<i, line, found>>
           \/ c \notin {"NUL", "$"} /\ i' = After(i) /\ UNCHANGED <<pc, line, found>>
    /\ overrun' = (overrun \/ i > BufferSize)
    /\ UNCHANGED <<reception, settled, ready>>

(* Mutation: any sentence will do.                                         *)
IsGgaAlways(c, d) == TRUE

(* The two memcmp.                                                         *)
IsGga(c, d) == c = "$" /\ d = "GGA"

Match ==
    /\ pc = "match"
    /\ \E c \in Cells(i), d \in Cells(i + 1) :
           \/ IsGga(c, d) /\ pc' = "copy" /\ UNCHANGED i
           \/ ~IsGga(c, d) /\ pc' = "search" /\ i' = After(i)
    /\ overrun' = (overrun \/ i + 1 > BufferSize)
    /\ UNCHANGED <<reception, line, found, settled, ready>>

(* The cell that is to be copied next.                                     *)
Here == i + Len(line)

(* Mutation: the line is not limited to the size of its array.             *)
LineEndsUnbounded(c) == c \in {"NUL", "CR", "LF"}

LineEnds(c) == c \in {"NUL", "CR", "LF"} \/ Len(line) = LineSize - 1

(* The character c as it stands in the line.                               *)
Copied(c) == IF Here <= BufferSize THEN c ELSE "junk"

Copy ==
    /\ pc = "copy"
    /\ \E c \in Cells(Here) :
           \/ LineEnds(c) /\ pc' = "parse" /\ UNCHANGED line
           \/ ~LineEnds(c) /\ line' = Append(line, Copied(c)) /\ UNCHANGED pc
    /\ overrun' = (overrun \/ Here > BufferSize)
    /\ UNCHANGED <<reception, i, found, settled, ready>>

(* fields[][] and fieldIndex once the line is split.                       *)
Split(chars) ==
    LET split[k \in 0 .. Len(chars)] ==
            IF k = 0 THEN [fields |-> [f \in 0 .. MaxFields |-> <<>>], index |-> 0]
            ELSE LET s == split[k - 1]
                 IN IF s.index >= MaxFields THEN s
                    ELSE IF chars[k] = "," THEN [s EXCEPT !.index = @ + 1]
                    ELSE IF Len(s.fields[s.index]) < FieldSize - 1
                         THEN [s EXCEPT !.fields[s.index] = Append(@, chars[k])]
                    ELSE s
    IN split[Len(chars)]

(* Degrees: what was converted, and whether the sign was turned.           *)
Degrees(field, hemisphere, negative) ==
    IF Len(field) >= Digits THEN <<field, hemisphere # <<>> /\ hemisphere[1] = negative>>
    ELSE <<>>

(* The packet as read() sets it from the fields f.                         *)
Fix(f) == [latitude |-> Degrees(f[2], f[3], "S"), longitude |-> Degrees(f[4], f[5], "W"),
           fixType |-> f[6], satellites |-> f[7], altitude |-> f[Altitude]]

(* Commas may be among what was copied from behind the buffer.             *)
Parse ==
    /\ pc = "parse"
    /\ LET split == Split(line)
       IN \/ split.index < Altitude /\ Returns({})
          \/ /\ split.index < Altitude => Here > BufferSize + 1
             /\ Returns({Fix(split.fields)})
    /\ UNCHANGED <<reception, settled, overrun, ready>>

(* The steps that look at what other actors change.                        *)
Continue == SendCommand \/ StartDMA \/ Search \/ Match \/ Copy

Next == StartInit \/ StartRead \/ Continue \/ Parse \/ Arrive \/ LineIdle

-----------------------------------------------------------------------------
(* Properties.                                                             *)

(* The n-th field of a sentence: what is between two commas.               *)
Field(s, n) ==
    LET commas == {k \in DOMAIN s : s[k] = ","}
        Before(k) == Cardinality({c \in commas : c < k})
        from == CHOOSE k \in commas : Before(k) = n - 1
    IN SubSeq(s, from + 1, Min({k \in commas : k > from} \cup {Len(s) + 1}) - 1)

(* The GGA sentences of a burst.                                           *)
Sentences(burst) ==
    LET Ends == {e \in (DOMAIN burst) \X (DOMAIN burst) :
                    /\ e[1] < e[2] /\ burst[e[1]] = "$" /\ burst[e[1] + 1] = "GGA"
                    /\ burst[e[2]] = "CR" /\ \A k \in e[1] .. e[2] - 1 : burst[k] # "CR"}
    IN {SubSeq(burst, e[1], e[2] - 1) : e \in Ends}

(* External: what the module sends ends with a line, no character of it is *)
(* NUL, and a GGA sentence and its fields fit into line and fields, in     *)
(* NMEA 0183 with room to spare.                                           *)
WellFormed(burst) ==
    /\ burst # <<>> /\ Last(burst) = "LF"
    /\ \A k \in DOMAIN burst :
           burst[k] # "NUL" /\ (burst[k] = "LF" => k = 1 \/ burst[k - 1] = "CR")
    /\ \A s \in Sentences(burst) :
           /\ Len(s) < LineSize
           /\ \A k \in 1 .. Len(s) - FieldSize + 1 :
                  \E j \in k .. k + FieldSize - 1 : s[j] = ","

(* What read() should put into the packet for each of them.                *)
Expected ==
    [burst \in Bursts |->
        {Fix([n \in 1 .. Altitude |-> Field(s, n)]) : s \in Sentences(burst)}]

(* When read() returns true the packet holds one GGA sentence of those     *)
(* received, field by field, also when the DMA was storing that sentence   *)
(* while it was searched and copied; only the altitude may then be cut     *)
(* off.  Excepted are a buffer read beyond its end, and a reception in     *)
(* progress over the remains of an earlier one (cd-pa1616s.cpp:30-147).    *)
FixOfOneSentence ==
    \A f \in found :
        overrun \/ (~settled /\ Len(received) > 1)
        \/ \E k \in DOMAIN received : \E e \in Expected[received[k]] :
               /\ f = [e EXCEPT !.altitude = f.altitude]
               /\ IF settled THEN f = e ELSE IsPrefix(f.altitude, e.altitude)

(* The loops of read() have no bound of 128: they end in the buffer only   *)
(* because it is never full of characters, as long as the module obeys the *)
(* command and sends GGA sentences only (cd-pa1616s.cpp:19, 33, 52).       *)
GgaOnlyFits == overrun => \E k \in DOMAIN received : received[k] \in MixedBursts

(* The loops over the buffer end, however the DMA changes it meanwhile:    *)
(* what is left of read() then is the line, a variable of its own.  Of a   *)
(* loop that leaves the buffer nothing is said: it may never end           *)
(* (cd-pa1616s.cpp:33-56).                                                 *)
LoopsEnd == pc # "idle" ~> pc \in {"idle", "parse"} \/ overrun

(* When init() has returned true the reception was started.  (What the     *)
(* contract of sensor.h:44-46 asks for.)                                   *)
ReadyMeansReceiving == ready => received # <<>>
=============================================================================
