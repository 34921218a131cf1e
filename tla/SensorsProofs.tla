---------------------------- MODULE SensorsProofs ----------------------------
(***************************************************************************)
(* What holds of the sensors on any pins of the bus, and of the GPS with   *)
(* any buffer and any bursts that it may receive.                          *)
(***************************************************************************)
EXTENDS Sensors, Sequences, TLAPS

Chips == {"accel", "gyro", "baro"}
Parts == Bosch!Parts
InitCalls == Bosch!InitCalls
ReadCalls == Bosch!ReadCalls

-----------------------------------------------------------------------------
(* The invariant of the Bosch sensors.                                     *)

(* Each chip has a line of its own, and a line is low only in a call, to   *)
(* the part the driver is at.                                              *)
Lines ==
    /\ \A c, d \in Chips : pin[c] = pin[d] => c = d
    /\ low = IF spi.at = "idle" THEN {} ELSE Bosch!Bus!Driven(spi.chip)

Calling ==
    /\ IF fn = "none" THEN pos = 0 ELSE Parts # {} /\ pos \in 1 .. Len(Bosch!Calls)
    /\ fn = "init" => dev /\ ~ready
    /\ spi.at # "idle" => fn # "none" /\ dev /\ spi.chip = Bosch!Part

(* The calls init() makes for a part, its reset the first of them, and     *)
(* what it keeps of them once n calls were made.                           *)
First(p) == IF p = "gyro" THEN 7 ELSE 1
LastOf(p) == IF p = "gyro" THEN 11 ELSE 6
Kept(p, n) == [k \in 1 .. n - First(p) |-> InitCalls[First(p) + k][2]]

(* The calls init() has made, and those of them that were for a part.      *)
Made == IF spi.at = "leave" THEN pos ELSE pos - 1
MadeFor(p) == IF Made < LastOf(p) THEN Made ELSE LastOf(p)

Configured ==
    /\ ready => \A p \in Parts : pin[p] < 8 /\ config[p] = Kept(p, LastOf(p))
    /\ fn = "init" /\ ~(spi.at = "leave" /\ spi.error = TRUE) =>
           \A p \in Parts :
               /\ pos > First(p) + 1 => pin[p] < 8
               /\ pin[p] < 8 /\ Made >= First(p) => config[p] = Kept(p, MadeFor(p))

(* No part keeps more than it is sent after its reset.                     *)
Bounded == \A p \in Parts : Len(config[p]) <= LastOf(p) - First(p)

(* The parts read() is done with.                                          *)
FetchedFrom ==
    /\ fn = "read" /\ dev =>
           \A k \in 1 .. pos - 1 :
               LET p == ReadCalls[k][1] IN data[p] = p \/ p \in missed \/ pin[p] >= 8
    /\ Bosch!PacketFromParts

BoschInv == Bosch!TypeOK /\ Lines /\ Calling /\ Configured /\ Bounded /\ FetchedFrom

-----------------------------------------------------------------------------
(* The invariant of the GPS.                                               *)

(* Where the DMA and read() are.                                           *)
Indices ==
    /\ receiving => received # <<>> /\ w < BufferSize
    /\ pc \in {"search", "match", "copy", "parse"} => i \in 1 .. BufferSize + 1
    /\ pc \in {"match", "copy", "parse"} => i <= BufferSize \/ overrun
    /\ pc \in {"copy", "parse"} => Gps!Here <= BufferSize + 1 \/ overrun
    /\ pc \notin {"copy", "parse"} => line = <<>>

(* As long as only GGA sentences came, the last cell is never written to   *)
(* and read() stops there at the latest.                                   *)
Stops ==
    (\A k \in DOMAIN received : received[k] \notin MixedBursts) =>
        /\ buffer[BufferSize] = "NUL" /\ ~overrun
        /\ pc = "search" => i <= BufferSize
        /\ pc = "match" => i < BufferSize
        /\ pc = "copy" => Gps!Here <= BufferSize

GpsInv == Gps!TypeOK /\ Indices /\ Stops

IInv == BoschInv /\ GpsInv
-----------------------------------------------------------------------------
(* The GPS.                                                                *)

LEMMA GpsSizes ==
    BufferSize \in Nat /\ BufferSize > 0 /\ LineSize \in Nat /\ LineSize > 0 /\ MaxReceptions \in Nat
BY SensorsAssumption DEF Gps!GPSAssumption

LEMMA GpsBursts ==
    /\ \A b \in Gps!Bursts : b \in Seq(Gps!Characters)
    /\ \A b \in GgaBursts : Len(b) < BufferSize
BY SensorsAssumption DEF Gps!GPSAssumption

LEMMA CellNames == {"$", "GGA", "CR", "LF", "NUL", "junk"} \subseteq Gps!Characters
BY DEF Gps!Characters

LEMMA GpsInit == Gps!Init => GpsInv
<1> SUFFICES ASSUME Gps!Init PROVE GpsInv
  OBVIOUS
<1> USE GpsSizes DEF Gps!Init
<1>1. Gps!TypeOK
  <2>1. /\ buffer \in [1 .. BufferSize -> Gps!Characters] /\ buffer[BufferSize] = "NUL"
        /\ received \in Seq(Gps!Bursts) /\ Len(received) = 0
        /\ line \in Seq(Gps!Characters) /\ Len(line) = 0
    BY CellNames
  <2>2. receiving \in BOOLEAN /\ started \in BOOLEAN /\ settled \in BOOLEAN /\ overrun \in BOOLEAN
    OBVIOUS
  <2>3. w \in 0 .. BufferSize /\ i \in 0 .. BufferSize + 1
    OBVIOUS
  <2> QED
    BY <2>1, <2>2, <2>3 DEF Gps!TypeOK
<1>2. Indices /\ Stops
  BY DEF Indices, Stops
<1> QED
  BY <1>1, <1>2 DEF GpsInv

(* Only what lies in the buffer is known.                                  *)
LEMMA CellType ==
    ASSUME Gps!TypeOK, NEW k \in Nat \ {0}, NEW c \in Gps!Cells(k)
    PROVE  c \in Gps!Characters /\ (k <= BufferSize => c = buffer[k])
BY GpsSizes DEF Gps!Cells, Gps!TypeOK

LEMMA GpsInitCalls ==
    ASSUME GpsInv, Gps!StartInit \/ Gps!SendCommand \/ Gps!StartDMA
    PROVE  GpsInv'
<1> USE DEF GpsInv, Gps!reception, Gps!reading
<1>1. CASE Gps!StartInit \/ Gps!SendCommand
  <2>1. UNCHANGED <<buffer, receiving, w, received, i, line, found, settled, overrun, started>>
        /\ pc \in {"idle", "write"} /\ pc' \in {"idle", "write", "dma"}
    BY <1>1 DEF Gps!StartInit, Gps!SendCommand
  <2>2. Gps!TypeOK'
    BY <2>1 DEF Gps!TypeOK
  <2>3. Indices' /\ Stops'
    BY <2>1 DEF Indices, Stops
  <2> QED
    BY <2>2, <2>3
<1>2. CASE Gps!StartDMA
  <2>1. /\ UNCHANGED <<buffer, i, line, found, settled, overrun>> /\ pc' = "idle" /\ pc = "dma"
        /\ started' \in BOOLEAN
    BY <1>2 DEF Gps!StartDMA, Gps!TypeOK
  <2>2. CASE UNCHANGED <<receiving, w, received>>
    <3>1. Gps!TypeOK'
      BY <2>1, <2>2 DEF Gps!TypeOK
    <3>2. Indices' /\ Stops'
      BY <2>1, <2>2 DEF Indices, Stops
    <3> QED
      BY <3>1, <3>2
  <2>3. CASE ~UNCHANGED <<receiving, w, received>>
    <3>1. /\ receiving' = TRUE /\ w' = 0 /\ Len(received) < MaxReceptions
          /\ \E b \in Gps!Bursts : received' = Append(received, b)
      BY <1>2, <2>3 DEF Gps!StartDMA
    <3>2. PICK b \in Gps!Bursts : received' = Append(received, b)
      BY <3>1
    <3>3. /\ received' \in Seq(Gps!Bursts) /\ received' # <<>>
          /\ Len(received') = Len(received) + 1
          /\ \A k \in DOMAIN received : k \in DOMAIN received' /\ received'[k] = received[k]
      BY <3>2 DEF Gps!TypeOK
    <3>4. Gps!TypeOK'
      <4>1. Len(received') <= MaxReceptions
        BY <3>1, <3>3, GpsSizes DEF Gps!TypeOK
      <4> QED
        BY <2>1, <3>1, <3>3, <4>1, GpsSizes DEF Gps!TypeOK
    <3>5. Indices'
      BY <2>1, <3>1, <3>3, GpsSizes DEF Indices
    <3>6. Stops'
      BY <2>1, <3>3 DEF Stops
    <3> QED
      BY <3>4, <3>5, <3>6
  <2> QED
    BY <2>2, <2>3
<1> QED
  BY <1>1, <1>2

LEMMA GpsReception == ASSUME GpsInv, Gps!Arrive \/ Gps!LineIdle PROVE GpsInv'
<1> USE DEF GpsInv
<1>1. UNCHANGED <<received, pc, i, line, found, settled, overrun, started>>
  BY DEF Gps!Arrive, Gps!LineIdle, Gps!reading
<1>2. CASE Gps!Arrive
  <2>1. /\ receiving /\ w < Len(Gps!Burst) /\ w' = w + 1 /\ receiving' = (w' < BufferSize)
        /\ buffer' = [buffer EXCEPT ![w + 1] = Gps!Burst[w + 1]]
    BY <1>2 DEF Gps!Arrive
  <2>2. Gps!Burst = received[Len(received)] /\ Len(received) \in DOMAIN received
        /\ Gps!Burst \in Seq(Gps!Characters) /\ w \in 0 .. BufferSize - 1
    BY <2>1, GpsSizes, GpsBursts DEF Gps!Burst, Gps!Last, Indices, Gps!TypeOK
  <2>3. Gps!Burst[w + 1] \in Gps!Characters
    BY <2>1, <2>2
  <2>4. buffer' \in [1 .. BufferSize -> Gps!Characters] /\ w' \in 0 .. BufferSize
    BY SMTT(30), <2>1, <2>2, <2>3, GpsSizes DEF Gps!TypeOK
  <2>5. Gps!TypeOK'
    BY <1>1, <2>1, <2>4 DEF Gps!TypeOK
  <2>6. Indices'
    BY <1>1, <2>1, <2>2 DEF Indices, Gps!Here
  <2>7. Stops'
    <3>1. ASSUME \A k \in DOMAIN received : received[k] \notin MixedBursts
          PROVE  buffer'[BufferSize] = buffer[BufferSize]
      <4>1. Gps!Burst \in GgaBursts
        BY <2>2, <3>1 DEF Gps!TypeOK, Gps!Bursts
      <4>2. w + 1 # BufferSize
        BY <2>1, <2>2, <4>1, GpsBursts
      <4> QED
        BY <2>1, <4>2, GpsSizes DEF Gps!TypeOK
    <3> QED
      BY <1>1, <3>1 DEF Stops, Gps!Here
  <2> QED
    BY <2>5, <2>6, <2>7
<1>3. CASE Gps!LineIdle
  <2>1. receiving' = FALSE /\ UNCHANGED <<buffer, w>>
    BY <1>3 DEF Gps!LineIdle
  <2>2. Gps!TypeOK'
    BY <1>1, <2>1 DEF Gps!TypeOK
  <2> QED
    BY <1>1, <2>1, <2>2 DEF Indices, Stops, Gps!Here
<1> QED
  BY <1>2, <1>3

LEMMA GpsReading ==
    ASSUME GpsInv, Gps!StartRead \/ Gps!Search \/ Gps!Match \/ Gps!Copy \/ Gps!Parse
    PROVE  GpsInv'
<1> USE DEF GpsInv, Gps!reception, Gps!Returns
<1>1. UNCHANGED <<buffer, receiving, w, received, started>>
  BY DEF Gps!StartRead, Gps!Search, Gps!Match, Gps!Copy, Gps!Parse
<1>2. CASE Gps!StartRead
  <2>1. Gps!TypeOK'
    <3>1. settled' \in BOOLEAN /\ overrun' \in BOOLEAN
      BY <1>2 DEF Gps!StartRead, Gps!TypeOK
    <3>2. i' \in 0 .. BufferSize + 1 /\ pc' = "search" /\ line' = line
      BY <1>2, GpsSizes DEF Gps!StartRead
    <3> QED
      BY <1>1, <3>1, <3>2 DEF Gps!TypeOK
  <2> QED
    BY <1>1, <1>2, <2>1, GpsSizes DEF Gps!StartRead, Indices, Stops
<1>3. CASE Gps!Search
  <2>1. i \in 1 .. BufferSize + 1 /\ line = <<>> /\ pc = "search"
    BY <1>3 DEF Gps!Search, Indices
  <2>2. PICK c \in Gps!Cells(i) :
            \/ c = "NUL" /\ pc' = "idle" /\ i' = 0 /\ line' = <<>>
            \/ c = "$" /\ pc' = "match" /\ i' = i /\ line' = line
            \/ c # "NUL" /\ pc' = pc /\ i' = Gps!After(i) /\ line' = line
    BY <1>3 DEF Gps!Search
  <2>3. line' = <<>> /\ overrun' = (overrun \/ i > BufferSize) /\ settled' = settled
    BY <1>3, <2>1 DEF Gps!Search
  <2>4. \/ pc' = "idle" /\ i' = 0
        \/ pc' = "match" /\ i' = i /\ c # "NUL"
        \/ pc' = "search" /\ i' = Gps!After(i) /\ c # "NUL"
    BY <2>1, <2>2
  <2>5. /\ i' \in 0 .. BufferSize + 1
        /\ pc' \in {"search", "match"} => i' \in 1 .. BufferSize + 1
        /\ pc' = "search" /\ i < BufferSize => i' <= BufferSize
    BY <2>1, <2>4, GpsSizes DEF Gps!After
  <2>6. Gps!TypeOK'
    BY <1>1, <2>3, <2>4, <2>5, GpsSizes DEF Gps!TypeOK
  <2>7. Indices'
    <3>1. pc' = "match" => i' <= BufferSize \/ overrun'
      <4>1. i <= BufferSize \/ i > BufferSize
        BY <2>1, GpsSizes
      <4>2. pc' = "match" => i' = i
        BY <2>4
      <4> QED
        BY <2>3, <4>1, <4>2
    <3> QED
      BY <1>1, <2>3, <2>4, <2>5, <3>1 DEF Indices
  <2>8. Stops'
    <3> SUFFICES ASSUME \A k \in DOMAIN received : received[k] \notin MixedBursts
                 PROVE  /\ buffer[BufferSize] = "NUL" /\ ~overrun'
                        /\ pc' = "search" => i' <= BufferSize
                        /\ pc' = "match" => i' < BufferSize
      BY <1>1, <2>4 DEF Stops
    <3>1. buffer[BufferSize] = "NUL" /\ ~overrun /\ i <= BufferSize
      BY <2>1 DEF Stops
    <3>2. c = buffer[i]
      BY <2>1, <2>2, <3>1, CellType
    <3>3. c # "NUL" => i < BufferSize
      BY <2>1, <3>1, <3>2, GpsSizes
    <3>4. ~(i > BufferSize)
      BY <2>1, <3>1, GpsSizes
    <3>5. ~overrun'
      BY <2>3, <3>1, <3>4
    <3> QED
      BY <2>4, <2>5, <3>1, <3>3, <3>5
  <2> QED
    BY <2>6, <2>7, <2>8
<1>4. CASE Gps!Match
  <2>1. i \in 1 .. BufferSize + 1 /\ (i <= BufferSize \/ overrun) /\ line = <<>> /\ pc = "match"
    BY <1>4 DEF Gps!Match, Indices
  <2>2. line' = <<>> /\ overrun' = (overrun \/ i + 1 > BufferSize) /\ settled' = settled
    BY <1>4, <2>1 DEF Gps!Match
  <2>3. \/ pc' = "copy" /\ i' = i
        \/ pc' = "search" /\ i' = Gps!After(i)
    BY <1>4 DEF Gps!Match
  <2>4. /\ i' \in 1 .. BufferSize + 1 /\ i' + 0 <= BufferSize + 1
        /\ i < BufferSize => i' <= BufferSize
    BY <2>1, <2>3, GpsSizes DEF Gps!After
  <2>5. Gps!TypeOK'
    BY <1>1, <2>1, <2>2, <2>3, <2>4, GpsSizes DEF Gps!TypeOK
  <2>6. Indices'
    <3>1. pc' = "copy" => i' <= BufferSize \/ overrun'
      BY <2>1, <2>2, <2>3
    <3>2. Len(line') = 0
      BY <2>2
    <3>3. Gps!Here' <= BufferSize + 1
      BY <2>4, <3>2 DEF Gps!Here
    <3> QED
      BY <1>1, <2>2, <2>3, <2>4, <3>1, <3>3 DEF Indices
  <2>7. Stops'
    <3> SUFFICES ASSUME \A k \in DOMAIN received : received[k] \notin MixedBursts
                 PROVE  /\ buffer[BufferSize] = "NUL" /\ ~overrun'
                        /\ pc' = "search" => i' <= BufferSize
                        /\ pc' = "copy" => i' + Len(line') <= BufferSize
      BY <1>1, <2>3 DEF Stops, Gps!Here
    <3>1. buffer[BufferSize] = "NUL" /\ ~overrun /\ i < BufferSize
      BY <2>1 DEF Stops
    <3>2. ~(i + 1 > BufferSize) /\ Len(line') = 0
      BY <2>1, <2>2, <3>1, GpsSizes
    <3>3. ~overrun'
      BY <2>2, <3>1, <3>2
    <3>4. pc' = "copy" => i' + Len(line') <= BufferSize
      BY <2>1, <2>3, <3>1, <3>2, GpsSizes
    <3> QED
      BY <2>4, <3>1, <3>3, <3>4
  <2> QED
    BY <2>5, <2>6, <2>7
<1>5. CASE Gps!Copy
  <2>1. /\ i \in 1 .. BufferSize + 1 /\ pc = "copy" /\ i' = i /\ settled' = settled
        /\ line \in Seq(Gps!Characters) /\ Len(line) \in Nat
        /\ Gps!Here \in Nat \ {0} /\ Gps!Here = i + Len(line)
        /\ overrun' = (overrun \/ Gps!Here > BufferSize)
    BY <1>5, GpsSizes DEF Gps!Copy, Indices, Gps!Here, Gps!TypeOK
  <2>2. PICK c \in Gps!Cells(Gps!Here) :
            \/ pc' = "parse" /\ line' = line
            \/ /\ pc' = "copy" /\ c # "NUL" /\ Len(line) # LineSize - 1
               /\ line' = Append(line, Gps!Copied(c))
    BY <1>5, <2>1 DEF Gps!Copy, Gps!LineEnds
  <2>3. Gps!Copied(c) \in Gps!Characters /\ (Gps!Here <= BufferSize => c = buffer[Gps!Here])
    BY <2>1, <2>2, CellType, CellNames DEF Gps!Copied
  <2>4. /\ line' \in Seq(Gps!Characters) /\ Len(line') <= LineSize - 1
        /\ pc' = "copy" => Len(line') = Len(line) + 1
        /\ pc' = "parse" => Len(line') = Len(line)
    <3>1. Len(line) <= LineSize - 1
      BY DEF Gps!TypeOK
    <3> QED
      BY SMTT(30), <2>1, <2>2, <2>3, <3>1, GpsSizes
  <2>5. Gps!TypeOK'
    BY <1>1, <2>1, <2>2, <2>4 DEF Gps!TypeOK
  <2>6. Indices'
    <3>1. i <= BufferSize \/ overrun
      BY <2>1 DEF Indices
    <3>2. Gps!Here <= BufferSize + 1 \/ overrun
      BY <2>1 DEF Indices
    <3>3. Gps!Here > BufferSize \/ i + Len(line') <= BufferSize + 1
      BY <2>1, <2>2, <2>4, GpsSizes
    <3>4. i + Len(line') <= BufferSize + 1 \/ overrun'
      BY <2>1, <3>3
    <3>5. Gps!Here' <= BufferSize + 1 \/ overrun'
      BY <2>1, <3>4 DEF Gps!Here
    <3> QED
      BY <1>1, <2>1, <2>2, <3>1, <3>5 DEF Indices
  <2>7. Stops'
    <3> SUFFICES ASSUME \A k \in DOMAIN received : received[k] \notin MixedBursts
                 PROVE  /\ buffer[BufferSize] = "NUL" /\ ~overrun'
                        /\ pc' = "copy" => i + Len(line') <= BufferSize
      BY <1>1, <2>1, <2>2 DEF Stops, Gps!Here
    <3>1. buffer[BufferSize] = "NUL" /\ ~overrun /\ Gps!Here <= BufferSize
      BY <2>1 DEF Stops
    <3>2. pc' = "copy" => Gps!Here < BufferSize
      BY <2>1, <2>2, <2>3, <3>1, GpsSizes
    <3>3. ~(Gps!Here > BufferSize)
      BY <2>1, <3>1, GpsSizes
    <3>4. ~overrun'
      BY <2>1, <3>1, <3>3
    <3>5. pc' = "copy" => i + Len(line') <= BufferSize
      BY <2>1, <2>4, <3>2, GpsSizes
    <3> QED
      BY <3>1, <3>4, <3>5
  <2> QED
    BY <2>5, <2>6, <2>7
<1>6. CASE Gps!Parse
  <2>1. pc' = "idle" /\ i' = 0 /\ line' = <<>> /\ UNCHANGED <<settled, overrun>>
    BY <1>6 DEF Gps!Parse
  <2>2. Gps!TypeOK'
    BY <1>1, <2>1, GpsSizes DEF Gps!TypeOK
  <2> QED
    BY <1>1, <2>1, <2>2 DEF Indices, Stops
<1> QED
  BY <1>2, <1>3, <1>4, <1>5, <1>6

LEMMA GpsNext == ASSUME GpsInv, Gps!Next PROVE GpsInv'
BY GpsInitCalls, GpsReception, GpsReading DEF Gps!Next, Gps!Continue

-----------------------------------------------------------------------------
(* The bus.                                                                *)

Bits == <<1, 2, 4, 8, 16, 32, 64, 128, 256, 512, 1024, 2048, 4096, 8192, 16384, 32768>>

LEMMA PowersOfTwo == ASSUME NEW n \in 0 .. 15 PROVE 2 ^ n = Bits[n + 1]
<1>1. n = 0 => 2 ^ n = 1
  OBVIOUS
<1>2. n = 1 => 2 ^ n = 2
  OBVIOUS
<1>3. n = 2 => 2 ^ n = 4
  OBVIOUS
<1>4. n = 3 => 2 ^ n = 8
  OBVIOUS
<1>5. n = 4 => 2 ^ n = 16
  OBVIOUS
<1>6. n = 5 => 2 ^ n = 32
  OBVIOUS
<1>7. n = 6 => 2 ^ n = 64
  OBVIOUS
<1>8. n = 7 => 2 ^ n = 128
  OBVIOUS
<1>9. n = 8 => 2 ^ n = 256
  OBVIOUS
<1>10. n = 9 => 2 ^ n = 512
  OBVIOUS
<1>11. n = 10 => 2 ^ n = 1024
  OBVIOUS
<1>12. n = 11 => 2 ^ n = 2048
  OBVIOUS
<1>13. n = 12 => 2 ^ n = 4096
  OBVIOUS
<1>14. n = 13 => 2 ^ n = 8192
  OBVIOUS
<1>15. n = 14 => 2 ^ n = 16384
  OBVIOUS
<1>16. n = 15 => 2 ^ n = 32768
  OBVIOUS
<1> QED
  BY <1>1, <1>2, <1>3, <1>4, <1>5, <1>6, <1>7, <1>8, <1>9, <1>10, <1>11, <1>12, <1>13, <1>14, <1>15, <1>16 DEF Bits

LEMMA MaskedBits ==
    ASSUME NEW n \in 0 .. 15
    PROVE  Bosch!Bus!Mask(n) = IF n < 8 THEN Bits[n + 1] ELSE 0
<1>1. n \in {0, 1, 2, 3, 4, 5, 6, 7, 8, 9, 10, 11, 12, 13, 14, 15}
  OBVIOUS
<1>2. Bits[n + 1] % 256 = IF n < 8 THEN Bits[n + 1] ELSE 0
  BY <1>1 DEF Bits
<1>3. 2 ^ n = Bits[n + 1]
  BY PowersOfTwo
<1>4. 2 ^ 8 = 256
  OBVIOUS
<1> QED
  BY <1>2, <1>3, <1>4 DEF Bosch!Bus!Mask

LEMMA OneBit ==
    ASSUME NEW m \in 0 .. 15, NEW n \in 0 .. 15
    PROVE  (Bosch!Bus!Mask(m) \div 2 ^ n) % 2 = IF m = n /\ m < 8 THEN 1 ELSE 0
<1>1. n \in {0, 1, 2, 3, 4, 5, 6, 7, 8, 9, 10, 11, 12, 13, 14, 15}
  OBVIOUS
<1>2. 2 ^ n = Bits[n + 1]
  BY PowersOfTwo
<1>3. CASE m < 8
  <2>1. m \in {0, 1, 2, 3, 4, 5, 6, 7}
    BY <1>3
  <2>2. (Bits[m + 1] \div Bits[n + 1]) % 2 = IF m = n THEN 1 ELSE 0
    BY <1>1, <2>1 DEF Bits
  <2> QED
    BY <1>2, <1>3, <2>2, MaskedBits
<1>4. CASE ~(m < 8)
  <2>1. (0 \div Bits[n + 1]) % 2 = 0
    BY <1>1 DEF Bits
  <2> QED
    BY <1>2, <1>4, <2>1, MaskedBits
<1> QED
  BY <1>3, <1>4

(* An object drives the line of its chip, or none: its own eight bits hold *)
(* no pin from 8 on.                                                       *)
LEMMA DrivenPins ==
    ASSUME Bosch!Bus!TypeOK, NEW c \in Chips
    PROVE  Bosch!Bus!Driven(c) = IF pin[c] < 8 THEN {pin[c]} ELSE {}
<1>1. pin[c] \in 0 .. 15
  BY SensorsAssumption DEF Bosch!Bus!TypeOK, Bosch!Bus!SPIAssumption, Chips
<1>2. ASSUME NEW n \in 0 .. 15
      PROVE  (Bosch!Bus!Mask(pin[c]) \div 2 ^ n) % 2 = 1 <=> pin[c] = n /\ pin[c] < 8
  <2>1. (Bosch!Bus!Mask(pin[c]) \div 2 ^ n) % 2 = IF pin[c] = n /\ pin[c] < 8 THEN 1 ELSE 0
    BY <1>1, OneBit
  <2> QED
    BY <2>1
<1>3. Bosch!Bus!Driven(c) = {n \in 0 .. 15 : pin[c] = n /\ pin[c] < 8}
  BY <1>2 DEF Bosch!Bus!Driven
<1> QED
  BY <1>1, <1>3

(* In a call nobody but the part that is called hears what is sent, and it *)
(* does if its line is in reach.                                           *)
LEMMA WhoHears ==
    ASSUME Bosch!Bus!TypeOK, Lines, spi.at # "idle", NEW c \in Chips
    PROVE  Bosch!Bus!Hears(c) <=> c = spi.chip /\ pin[c] < 8
<1>1. spi.chip \in Chips
  BY DEF Bosch!Bus!TypeOK, Chips
<1>2. low = IF pin[spi.chip] < 8 THEN {pin[spi.chip]} ELSE {}
  BY <1>1, DrivenPins DEF Lines
<1> QED
  BY <1>1, <1>2 DEF Lines, Bosch!Bus!Hears

(* The steps of a call.                                                    *)
LEMMA BusSelect ==
    ASSUME Bosch!Bus!TypeOK, Lines, NEW c \in Chips, Bosch!Bus!Select(c)
    PROVE  /\ Bosch!Bus!TypeOK' /\ Lines' /\ UNCHANGED pin
           /\ spi.at = "idle" /\ spi'.at = "command" /\ spi'.chip = c
<1>1. /\ spi.at = "idle" /\ spi' = [at |-> "command", chip |-> c, error |-> FALSE]
      /\ low' = low \cup Bosch!Bus!Driven(c) /\ UNCHANGED pin
  BY DEF Bosch!Bus!Select
<1>2. low' = Bosch!Bus!Driven(c)
  BY <1>1 DEF Lines
<1>3. low' \subseteq Pins
  BY <1>2, DrivenPins DEF Bosch!Bus!TypeOK, Chips
<1>4. Bosch!Bus!TypeOK'
  BY <1>1, <1>3 DEF Bosch!Bus!TypeOK, Chips
<1>5. low' = IF pin'[c] < 8 THEN {pin'[c]} ELSE {}
  BY <1>1, <1>2, DrivenPins
<1>6. Bosch!Bus!Driven(spi.chip)' = Bosch!Bus!Driven(c)
  BY <1>1 DEF Bosch!Bus!Driven
<1> QED
  BY <1>1, <1>2, <1>4, <1>6 DEF Lines

LEMMA BusTransfer ==
    ASSUME Bosch!Bus!TypeOK, Lines, Bosch!Bus!Command \/ Bosch!Bus!Data
    PROVE  /\ Bosch!Bus!TypeOK' /\ Lines' /\ UNCHANGED <<pin, low>>
           /\ spi.at \in {"command", "data"} /\ spi'.chip = spi.chip
           /\ Bosch!Bus!Command =>
                  spi.at = "command" /\ (spi'.at = "data" \/ (spi'.at = "leave" /\ spi'.error = TRUE))
           /\ Bosch!Bus!Data => spi.at = "data" /\ spi'.at = "leave"
<1>1. /\ spi \in [at : {"idle", "command", "data", "leave"}, chip : Chips, error : BOOLEAN]
  BY DEF Bosch!Bus!TypeOK, Chips
<1>2. CASE Bosch!Bus!Command
  <2>1. UNCHANGED <<pin, low>> /\ spi.at = "command"
    BY <1>2 DEF Bosch!Bus!Command
  <2>2. \/ spi' = [spi EXCEPT !.at = "data"]
        \/ spi' = [spi EXCEPT !.at = "leave", !.error = TRUE]
    BY <1>2 DEF Bosch!Bus!Command
  <2>3. /\ spi' \in [at : {"idle", "command", "data", "leave"}, chip : Chips, error : BOOLEAN]
        /\ spi'.chip = spi.chip /\ (spi'.at = "data" \/ (spi'.at = "leave" /\ spi'.error = TRUE))
    <3>1. CASE spi' = [spi EXCEPT !.at = "data"]
      <4>1. spi'.at = "data" /\ spi'.chip = spi.chip
        BY <1>1, <3>1
      <4>2. spi' \in [at : {"idle", "command", "data", "leave"}, chip : Chips, error : BOOLEAN]
        BY <1>1, <3>1
      <4> QED
        BY <4>1, <4>2
    <3>2. CASE spi' = [spi EXCEPT !.at = "leave", !.error = TRUE]
      BY <1>1, <3>2
    <3> QED
      BY <2>2, <3>1, <3>2
  <2>4. Bosch!Bus!Driven(spi.chip)' = Bosch!Bus!Driven(spi.chip)
    BY <2>1, <2>3 DEF Bosch!Bus!Driven
  <2>5. ~Bosch!Bus!Data
    BY <2>1 DEF Bosch!Bus!Data
  <2> QED
    BY <2>1, <2>3, <2>4, <2>5 DEF Bosch!Bus!TypeOK, Lines, Chips
<1>3. CASE Bosch!Bus!Data
  <2>1. UNCHANGED <<pin, low>> /\ spi.at = "data"
        /\ \E e \in BOOLEAN : spi' = [spi EXCEPT !.at = "leave", !.error = e]
    BY <1>3 DEF Bosch!Bus!Data
  <2>2. /\ spi' \in [at : {"idle", "command", "data", "leave"}, chip : Chips, error : BOOLEAN]
        /\ spi'.chip = spi.chip /\ spi'.at = "leave"
    BY <1>1, <2>1
  <2>3. Bosch!Bus!Driven(spi.chip)' = Bosch!Bus!Driven(spi.chip)
    BY <2>1, <2>2 DEF Bosch!Bus!Driven
  <2>4. ~Bosch!Bus!Command
    BY <2>1 DEF Bosch!Bus!Command
  <2> QED
    BY <2>1, <2>2, <2>3, <2>4 DEF Bosch!Bus!TypeOK, Lines, Chips
<1> QED
  BY <1>2, <1>3

LEMMA BusEnds ==
    ASSUME Bosch!Bus!TypeOK, Lines, Bosch!Bus!Leave \/ Bosch!Bus!Reset
    PROVE  /\ Bosch!Bus!TypeOK' /\ Lines' /\ UNCHANGED pin /\ spi'.at = "idle"
           /\ Bosch!Bus!Leave => spi.at = "leave"
<1>1. spi \in [at : {"idle", "command", "data", "leave"}, chip : Chips, error : BOOLEAN]
  BY DEF Bosch!Bus!TypeOK, Chips
<1>2. UNCHANGED pin /\ low' = {} /\ (Bosch!Bus!Leave => spi.at = "leave")
  BY DEF Lines, Bosch!Bus!Leave, Bosch!Bus!Reset
<1>3. \/ spi' = [spi EXCEPT !.at = "idle"]
      \/ spi' = [spi EXCEPT !.at = "idle", !.error = FALSE]
  BY DEF Bosch!Bus!Leave, Bosch!Bus!Reset
<1>4. /\ spi' \in [at : {"idle", "command", "data", "leave"}, chip : Chips, error : BOOLEAN]
      /\ spi'.at = "idle"
  BY <1>1, <1>3
<1> QED
  BY <1>2, <1>4 DEF Bosch!Bus!TypeOK, Lines, Chips

-----------------------------------------------------------------------------
(* The sequences of calls.                                                 *)

LEMMA PartNames ==
    /\ Parts \subseteq Chips
    /\ Parts # {} => device \in {"BMI088", "BMP581"}
BY DEF Parts, Bosch!Parts, Chips

LEMMA InitSequence ==
    ASSUME Parts # {}
    PROVE  /\ Len(InitCalls) = (IF device = "BMI088" THEN 11 ELSE 6)
           /\ DOMAIN InitCalls = 1 .. Len(InitCalls)
           /\ \A k \in 1 .. Len(InitCalls) :
                  InitCalls[k][1] \in Parts /\ InitCalls[k][2] \in Bosch!CallNames
           /\ \A p \in Parts :
                  /\ First(p) \in 1 .. Len(InitCalls) /\ LastOf(p) \in First(p) + 2 .. Len(InitCalls)
                  /\ \A k \in 1 .. Len(InitCalls) :
                         /\ InitCalls[k][1] = p <=> k \in First(p) .. LastOf(p)
                         /\ InitCalls[k][1] = p => (InitCalls[k][2] = "soft_reset" <=> k = First(p))
                         /\ InitCalls[k][1] = p => (InitCalls[k][2] = "init" <=> k = First(p) + 1)
<1>1. CASE device = "BMI088"
  <2>1. InitCalls = Bosch!Bmi088Init /\ Parts = {"accel", "gyro"}
    BY <1>1 DEF InitCalls, Bosch!InitCalls, Parts, Bosch!Parts
  <2> QED
    BY <1>1, <2>1 DEF Bosch!Bmi088Init, Bosch!CallNames, First, LastOf
<1>2. CASE device = "BMP581"
  <2>1. InitCalls = Bosch!Bmp581Init /\ Parts = {"baro"}
    BY <1>2 DEF InitCalls, Bosch!InitCalls, Parts, Bosch!Parts
  <2> QED
    BY <1>2, <2>1 DEF Bosch!Bmp581Init, Bosch!CallNames, First, LastOf
<1> QED
  BY <1>1, <1>2, PartNames

LEMMA ReadSequence ==
    ASSUME Parts # {}
    PROVE  /\ Len(ReadCalls) \in 1 .. Len(InitCalls)
           /\ \A k \in 1 .. Len(ReadCalls) : ReadCalls[k][1] \in Parts
           /\ \A p \in Parts : \E k \in 1 .. Len(ReadCalls) : ReadCalls[k][1] = p
<1>1. CASE device = "BMI088"
  <2>1. ReadCalls = << <<"accel", "get_data">>, <<"gyro", "get_data">> >>
        /\ Parts = {"accel", "gyro"} /\ Len(InitCalls) = 11
    BY <1>1, InitSequence DEF ReadCalls, Bosch!ReadCalls, Parts, Bosch!Parts
  <2> QED
    BY <2>1
<1>2. CASE device = "BMP581"
  <2>1. ReadCalls = << <<"baro", "get_data">> >> /\ Parts = {"baro"} /\ Len(InitCalls) = 6
    BY <1>2, InitSequence DEF ReadCalls, Bosch!ReadCalls, Parts, Bosch!Parts
  <2> QED
    BY <2>1
<1> QED
  BY <1>1, <1>2, PartNames

(* The device stays, and with it the parts and the sequences.              *)
LEMMA SameDevice ==
    ASSUME device' = device
    PROVE  /\ Parts' = Parts /\ InitCalls' = InitCalls /\ ReadCalls' = ReadCalls
           /\ Bosch!Parts' = Parts /\ Bosch!InitCalls' = InitCalls
           /\ \A p, n : Kept(p, n)' = Kept(p, n)
BY DEF Parts, InitCalls, ReadCalls, Kept, Bosch!Parts, Bosch!InitCalls, Bosch!ReadCalls

LEMMA KeptCalls ==
    ASSUME Parts # {}, NEW p \in Parts, NEW n \in First(p) .. LastOf(p)
    PROVE  /\ Kept(p, n) \in Seq(Bosch!CallNames) /\ Len(Kept(p, n)) = n - First(p)
           /\ n = First(p) => Kept(p, n) = <<>>
           /\ n > First(p) => Kept(p, n) = Append(Kept(p, n - 1), InitCalls[n][2])
<1>1. /\ First(p) \in Nat \ {0} /\ LastOf(p) \in Nat /\ LastOf(p) <= Len(InitCalls)
      /\ Len(InitCalls) \in Nat
      /\ \A k \in 1 .. Len(InitCalls) : InitCalls[k][2] \in Bosch!CallNames
  BY InitSequence DEF First, LastOf
<1>2. /\ n - First(p) \in Nat
      /\ \A k \in 1 .. n - First(p) : InitCalls[First(p) + k][2] \in Bosch!CallNames
  BY <1>1
<1>3. Kept(p, n) \in Seq(Bosch!CallNames) /\ Len(Kept(p, n)) = n - First(p)
  BY <1>2 DEF Kept
<1>4. ASSUME n = First(p) PROVE Kept(p, n) = <<>>
  BY <1>3, <1>4
<1>5. ASSUME n > First(p) PROVE Kept(p, n) = Append(Kept(p, n - 1), InitCalls[n][2])
  BY <1>1, <1>2, <1>5 DEF Kept
<1> QED
  BY <1>3, <1>4, <1>5

-----------------------------------------------------------------------------
(* The steps of the drivers.                                               *)

LEMMA CallsOf ==
    ASSUME BoschInv, fn # "none"
    PROVE  /\ Parts # {} /\ pos \in 1 .. Len(Bosch!Calls) /\ Len(Bosch!Calls) \in 1 .. Len(InitCalls)
           /\ Bosch!Calls = IF fn = "init" THEN InitCalls ELSE ReadCalls
           /\ Bosch!Part = Bosch!Calls[pos][1] /\ Bosch!Part \in Parts /\ Bosch!Part \in Chips
<1>1. Parts # {} /\ pos \in 1 .. Len(Bosch!Calls)
  BY DEF BoschInv, Calling
<1>2. Bosch!Calls = IF fn = "init" THEN InitCalls ELSE ReadCalls
  BY DEF Bosch!Calls, InitCalls, ReadCalls
<1>3. /\ Len(InitCalls) \in Nat \ {0}
      /\ \A k \in 1 .. Len(InitCalls) : InitCalls[k][1] \in Parts
  BY <1>1, InitSequence
<1>4. /\ Len(ReadCalls) \in 1 .. Len(InitCalls)
      /\ \A k \in 1 .. Len(ReadCalls) : ReadCalls[k][1] \in Parts
  BY <1>1, ReadSequence
<1>5. Bosch!Calls[pos][1] \in Parts /\ Len(Bosch!Calls) \in 1 .. Len(InitCalls)
  BY <1>1, <1>2, <1>3, <1>4
<1> QED
  BY <1>1, <1>2, <1>5, PartNames DEF Bosch!Part

LEMMA BoschInit == Bosch!Init => BoschInv
<1> SUFFICES ASSUME Bosch!Init PROVE BoschInv
  OBVIOUS
<1> USE DEF Bosch!Init
<1>1. /\ pin \in [Chips -> Pins] /\ \A c, d \in Chips : pin[c] = pin[d] => c = d
      /\ low = {} /\ spi = [at |-> "idle", chip |-> CHOOSE c \in Chips : TRUE, error |-> FALSE]
  BY DEF Bosch!Bus!Init, Chips
<1>2. (CHOOSE c \in Chips : TRUE) \in Chips
  BY DEF Chips
<1>3. Bosch!Bus!TypeOK
  BY <1>1, <1>2 DEF Bosch!Bus!TypeOK, Chips
<1>4. /\ config \in [Parts -> Seq(Bosch!CallNames)]
      /\ \A p \in Parts : Len(config[p]) <= 1
  <2>1. /\ <<>> \in Seq(Bosch!CallNames) /\ Len(<<>>) <= 1
        /\ <<"other">> \in Seq(Bosch!CallNames) /\ Len(<<"other">>) <= 1
    BY DEF Bosch!CallNames
  <2>2. config \in [Parts -> {<<>>, <<"other">>}]
    BY DEF Parts
  <2> QED
    BY <2>1, <2>2
<1>5. Bounded
  BY <1>4 DEF Bounded, First, LastOf
<1>6. /\ data \in [Parts -> Parts \cup {"floating", "garbage"}]
      /\ packet \in [Parts -> Parts \cup {"blank", "floating", "garbage"}]
      /\ \A p \in Parts : packet[p] = "blank"
  BY DEF Bosch!Uninitialised, Parts
<1>7. Len(InitCalls) \in Nat \ {0}
  BY DEF InitCalls, Bosch!InitCalls, Bosch!Bmi088Init, Bosch!Bmp581Init
<1>8. Bosch!TypeOK
  <2>1. /\ device \in Devices /\ fn \in {"none", "init", "read"}
        /\ dev \in BOOLEAN /\ ready \in BOOLEAN /\ missed \subseteq Parts
    OBVIOUS
  <2>2. pos \in 0 .. Len(InitCalls)
    BY <1>7
  <2>3. \A p \in Parts : Len(config[p]) <= Len(InitCalls)
    BY <1>4, <1>7
  <2> QED
    BY <1>3, <1>4, <1>6, <2>1, <2>2, <2>3 DEF Bosch!TypeOK, Parts, InitCalls
<1>9. Lines /\ Calling /\ Configured
  BY <1>1 DEF Lines, Calling, Configured
<1>10. FetchedFrom
  BY <1>6 DEF FetchedFrom, Bosch!PacketFromParts, Parts
<1> QED
  BY <1>5, <1>8, <1>9, <1>10 DEF BoschInv

(* What stays as it is in the steps below.                                 *)
LEMMA BoschType ==
    ASSUME Bosch!TypeOK, Bosch!Bus!TypeOK', device' = device,
           fn' \in {"none", "init", "read"}, pos' \in 0 .. Len(InitCalls),
           dev' \in BOOLEAN, ready' \in BOOLEAN, missed' \subseteq Parts,
           config' \in [Parts -> Seq(Bosch!CallNames)],
           \A p \in Parts : Len(config'[p]) <= Len(InitCalls),
           data' \in [Parts -> Parts \cup {"floating", "garbage"}],
           packet' \in [Parts -> Parts \cup {"blank", "floating", "garbage"}]
    PROVE  Bosch!TypeOK'
BY SameDevice DEF Bosch!TypeOK, Parts, InitCalls

LEMMA BoschStart == ASSUME BoschInv, Bosch!StartInit \/ Bosch!StartRead PROVE BoschInv'
<1> USE DEF Bosch!bus
<1>1. /\ fn = "none" /\ Parts # {} /\ pos' = 1 /\ fn' \in {"init", "read"}
      /\ UNCHANGED <<device, config, ready, data, packet, pin, low, spi>>
  BY DEF Bosch!StartInit, Bosch!StartRead, Parts
<1>2. /\ dev' \in BOOLEAN /\ ready' \in BOOLEAN /\ missed' \subseteq Parts
      /\ fn' = "init" => dev' /\ ~ready
  BY DEF Bosch!StartInit, Bosch!StartRead, BoschInv, Bosch!TypeOK, Parts
<1>3. spi.at = "idle" /\ ~(fn' = "none")
  BY <1>1 DEF BoschInv, Calling
<1>4. Len(InitCalls) \in Nat \ {0} /\ Len(ReadCalls) \in Nat \ {0}
  BY <1>1, InitSequence, ReadSequence
<1>5. Bosch!TypeOK'
  <2>1. Bosch!Bus!TypeOK'
    BY <1>1 DEF BoschInv, Bosch!TypeOK, Bosch!Bus!TypeOK
  <2>2. pos' \in 0 .. Len(InitCalls)
    BY <1>1, <1>4
  <2> QED
    BY <1>1, <1>2, <2>1, <2>2, BoschType DEF BoschInv, Bosch!TypeOK, Parts, InitCalls
<1>6. Lines'
  BY <1>1 DEF BoschInv, Lines, Bosch!Bus!Driven
<1>7. Calling'
  <2>1. Bosch!Calls' = InitCalls \/ Bosch!Calls' = ReadCalls
    BY <1>1, SameDevice DEF Bosch!Calls, InitCalls, ReadCalls
  <2>2. pos' \in 1 .. Len(Bosch!Calls')
    BY <1>1, <1>4, <2>1
  <2> QED
    BY <1>1, <1>2, <1>3, <2>2, SameDevice DEF Calling
<1>8. Configured'
  <2>1. \A p \in Parts : ~(pos' > First(p) + 1) /\ ~(Made' >= First(p))
    BY <1>1, <1>3 DEF Made, First
  <2> QED
    BY <1>1, <2>1, SameDevice DEF BoschInv, Configured, First
<1>9. Bounded' /\ FetchedFrom'
  <2>1. fn' # "read" => missed' = missed
    BY <1>1 DEF Bosch!StartInit, Bosch!StartRead
  <2> QED
    BY <1>1, <2>1, SameDevice DEF BoschInv, Bounded, FetchedFrom, Bosch!PacketFromParts, Parts
<1> QED
  BY <1>5, <1>6, <1>7, <1>8, <1>9 DEF BoschInv


(* The beginning of a call, until the chip has heard all of it or the HAL  *)
(* has reported an error.                                                  *)
LEMMA BoschCallBegins == ASSUME BoschInv, Bosch!CallBegins \/ Bosch!CallCommand PROVE BoschInv'
<1> USE DEF Bosch!local
<1>1. UNCHANGED <<device, config, fn, pos, dev, ready, data, missed, packet>>
  BY DEF Bosch!CallBegins, Bosch!CallCommand
<1>2. Bosch!Bus!TypeOK /\ Lines /\ Bosch!TypeOK
  BY DEF BoschInv, Bosch!TypeOK
<1>3. /\ Bosch!Bus!TypeOK' /\ Lines' /\ UNCHANGED pin
      /\ fn # "none" /\ dev /\ spi'.chip = Bosch!Part
      /\ spi.at # "leave" /\ (spi'.at = "leave" => spi'.error = TRUE)
  <2>1. CASE Bosch!CallBegins
    <3>1. fn # "none" /\ dev /\ Bosch!Bus!Select(Bosch!Part)
      BY <2>1 DEF Bosch!CallBegins
    <3>2. Bosch!Part \in Chips
      BY <3>1, CallsOf
    <3> QED
      BY <1>2, <3>1, <3>2, BusSelect
  <2>2. CASE Bosch!CallCommand
    <3>1. Bosch!Bus!Command
      BY <2>2 DEF Bosch!CallCommand
    <3>2. /\ Bosch!Bus!TypeOK' /\ Lines' /\ UNCHANGED pin /\ spi'.chip = spi.chip
          /\ spi.at = "command" /\ (spi'.at = "leave" => spi'.error = TRUE)
      BY <1>2, <3>1, BusTransfer
    <3> QED
      BY <3>2 DEF BoschInv, Calling
  <2> QED
    BY <2>1, <2>2
<1>4. Bosch!TypeOK'
  BY <1>1, <1>2, <1>3, BoschType DEF Bosch!TypeOK, Parts, InitCalls
<1>5. Calling'
  <2>1. Bosch!Calls' = Bosch!Calls /\ Bosch!Part' = Bosch!Part
    BY <1>1, SameDevice DEF Bosch!Calls, Bosch!Part, Bosch!InitCalls, Bosch!ReadCalls
  <2> QED
    BY <1>1, <1>3, <2>1, SameDevice DEF BoschInv, Calling
<1>6. Configured'
  <2>1. spi'.at # "leave" => Made' = Made /\ \A p : MadeFor(p)' = MadeFor(p)
    BY <1>1, <1>3 DEF Made, MadeFor
  <2> QED
    BY <1>1, <1>3, <2>1, SameDevice DEF BoschInv, Configured
<1>7. Bounded' /\ FetchedFrom'
  BY <1>1, <1>3, SameDevice DEF BoschInv, Bounded, FetchedFrom, Bosch!PacketFromParts, Parts
<1> QED
  BY <1>3, <1>4, <1>5, <1>6, <1>7 DEF BoschInv

(* What a part is left with by a call of init() that it hears, the rest of *)
(* the parts as they were.                                                 *)
LEMMA HeardCall ==
    ASSUME BoschInv, fn = "init", spi.at = "data", NEW p \in Parts,
           config' = Bosch!CarriedOut(Bosch!Calls[pos][2])
    PROVE  /\ ~(p = Bosch!Part /\ pin[p] < 8) => config'[p] = config[p]
           /\ p = Bosch!Part /\ pin[p] < 8 =>
                  /\ pos \in First(p) .. LastOf(p) /\ config'[p] = Kept(p, pos)
<1>1. /\ Parts # {} /\ pos \in 1 .. Len(InitCalls) /\ Bosch!Calls = InitCalls
      /\ Bosch!Part = InitCalls[pos][1] /\ p \in Chips
  BY CallsOf, PartNames
<1>2. Bosch!Bus!Hears(p) <=> p = Bosch!Part /\ pin[p] < 8
  BY <1>1, WhoHears DEF BoschInv, Bosch!TypeOK, Calling
<1>3. config'[p] = IF ~Bosch!Bus!Hears(p) THEN config[p]
                   ELSE IF InitCalls[pos][2] = "soft_reset" THEN <<>>
                   ELSE Append(config[p], InitCalls[pos][2])
  BY <1>1 DEF Bosch!CarriedOut, Parts
<1>5. ASSUME ~(p = Bosch!Part /\ pin[p] < 8) PROVE config'[p] = config[p]
  BY <1>2, <1>3, <1>5
<1>6. ASSUME p = Bosch!Part, pin[p] < 8
      PROVE  pos \in First(p) .. LastOf(p) /\ config'[p] = Kept(p, pos)
  <2>1. /\ pos \in First(p) .. LastOf(p)
        /\ InitCalls[pos][2] = "soft_reset" <=> pos = First(p)
    BY <1>1, <1>6, InitSequence
  <2>2. CASE pos = First(p)
    BY <1>2, <1>3, <1>6, <2>1, <2>2, KeptCalls, <1>1
  <2>3. CASE pos # First(p)
    <3>1. Made = pos - 1 /\ MadeFor(p) = pos - 1 /\ Made >= First(p)
      BY <2>1, <2>3 DEF Made, MadeFor, First, LastOf
    <3>2. config[p] = Kept(p, pos - 1)
      BY <1>6, <3>1 DEF BoschInv, Configured
    <3>3. pos \in First(p) .. LastOf(p) /\ pos > First(p)
      BY <2>1, <2>3 DEF First, LastOf
    <3>4. Kept(p, pos) = Append(Kept(p, pos - 1), InitCalls[pos][2])
      BY <1>1, <3>3, KeptCalls
    <3> QED
      BY <1>2, <1>3, <1>6, <2>1, <2>3, <3>2, <3>4
  <2> QED
    BY <2>2, <2>3
<1> QED
  BY <1>5, <1>6

LEMMA BoschCallData == ASSUME BoschInv, Bosch!CallData PROVE BoschInv'
<1>1. /\ UNCHANGED <<device, fn, pos, dev, ready, data, missed, packet>> /\ Bosch!Bus!Data
      /\ \/ config' = Bosch!CarriedOut(Bosch!Calls[pos][2])
         \/ spi'.error /\ config' = config
  BY DEF Bosch!CallData
<1>2. Bosch!Bus!TypeOK /\ Lines /\ Bosch!TypeOK
  BY DEF BoschInv, Bosch!TypeOK
<1>3. /\ Bosch!Bus!TypeOK' /\ Lines' /\ UNCHANGED pin
      /\ spi.at = "data" /\ spi'.at = "leave" /\ spi'.chip = spi.chip
  BY <1>1, <1>2, BusTransfer
<1>4. /\ fn # "none" /\ dev /\ spi.chip = Bosch!Part /\ (fn = "init" => ~ready)
  BY <1>3 DEF BoschInv, Calling
<1>5. Parts # {} /\ pos \in 1 .. Len(Bosch!Calls) /\ Bosch!Part \in Parts /\ Len(InitCalls) \in Nat
  BY <1>4, CallsOf, InitSequence
<1>6. /\ config' \in [Parts -> Seq(Bosch!CallNames)]
      /\ \A p \in Parts :
             \/ config'[p] = config[p] /\ (fn = "init" => spi'.error \/ ~(p = Bosch!Part /\ pin[p] < 8))
             \/ /\ fn = "init" /\ p = Bosch!Part
                /\ pos \in First(p) .. LastOf(p) /\ config'[p] = Kept(p, pos)
  <2>1. config \in [Parts -> Seq(Bosch!CallNames)]
    BY <1>2 DEF Bosch!TypeOK, Parts
  <2>2. CASE config' = config /\ (fn = "init" => spi'.error)
    BY <2>1, <2>2
  <2>3. CASE fn # "init" /\ config' = Bosch!CarriedOut(Bosch!Calls[pos][2])
    <3>1. fn = "read"
      BY <1>2, <1>4, <2>3 DEF Bosch!TypeOK
    <3>2. config' = [p \in Parts |-> config[p]]
      BY <2>3, <3>1 DEF Bosch!CarriedOut, Parts
    <3> QED
      BY <2>1, <2>3, <3>2
  <2>4. CASE fn = "init" /\ config' = Bosch!CarriedOut(Bosch!Calls[pos][2])
    <3>1. ASSUME NEW p \in Parts
          PROVE  /\ config'[p] \in Seq(Bosch!CallNames)
                 /\ \/ config'[p] = config[p] /\ ~(p = Bosch!Part /\ pin[p] < 8)
                    \/ /\ p = Bosch!Part
                       /\ pos \in First(p) .. LastOf(p) /\ config'[p] = Kept(p, pos)
      <4>1. /\ ~(p = Bosch!Part /\ pin[p] < 8) => config'[p] = config[p]
            /\ p = Bosch!Part /\ pin[p] < 8 =>
                   pos \in First(p) .. LastOf(p) /\ config'[p] = Kept(p, pos)
        BY <1>3, <2>4, HeardCall
      <4>2. config[p] \in Seq(Bosch!CallNames)
        BY <2>1
      <4> QED
        BY <1>5, <4>1, <4>2, KeptCalls
    <3>2. DOMAIN config' = Parts /\ config' = [p \in Parts |-> config'[p]]
      BY <2>4 DEF Bosch!CarriedOut, Parts
    <3> QED
      BY <2>4, <3>1, <3>2
  <2> QED
    BY <1>1, <2>2, <2>3, <2>4
<1>7. Bounded'
  <2> SUFFICES ASSUME NEW p \in Parts PROVE Len(config'[p]) <= LastOf(p) - First(p)
    BY <1>1, SameDevice DEF Bounded
  <2>1. CASE config'[p] = config[p]
    BY <2>1 DEF BoschInv, Bounded
  <2>2. CASE pos \in First(p) .. LastOf(p) /\ config'[p] = Kept(p, pos)
    <3>1. Len(config'[p]) = pos - First(p)
      BY <1>5, <2>2, KeptCalls
    <3> QED
      BY <2>2, <3>1 DEF First, LastOf
  <2> QED
    BY <1>6, <2>1, <2>2
<1>8. Bosch!TypeOK'
  <2>1. \A p \in Parts : Len(config'[p]) <= Len(InitCalls)
    <3>1. \A p \in Parts : /\ Len(config'[p]) <= LastOf(p) - First(p) /\ LastOf(p) <= Len(InitCalls)
                           /\ Len(config'[p]) \in Nat
      BY <1>1, <1>5, <1>6, <1>7, InitSequence, SameDevice DEF Bounded
    <3>2. \A p \in Parts : First(p) \in Nat /\ LastOf(p) \in Nat
      BY DEF First, LastOf
    <3> QED
      BY <1>5, <3>1, <3>2
  <2> QED
    BY <1>1, <1>2, <1>3, <1>6, <2>1, BoschType DEF Bosch!TypeOK, Parts, InitCalls
<1>9. Calling'
  <2>1. Bosch!Calls' = Bosch!Calls /\ Bosch!Part' = Bosch!Part
    BY <1>1, SameDevice DEF Bosch!Calls, Bosch!Part, Bosch!InitCalls, Bosch!ReadCalls
  <2> QED
    BY <1>1, <1>3, <1>4, <2>1, SameDevice DEF BoschInv, Calling
<1>10. Configured'
  <2>1. CASE fn = "init"
    <3>1. ~ready' /\ Made' = pos /\ Made = pos - 1 /\ pos \in 1 .. Len(InitCalls)
      BY <1>1, <1>3, <1>4, <2>1, CallsOf DEF Made
    <3>2. ASSUME ~spi'.error, NEW p \in Parts
          PROVE  /\ pos > First(p) + 1 => pin[p] < 8
                 /\ pin[p] < 8 /\ pos >= First(p) => config'[p] = Kept(p, MadeFor(p)')
      <4>1. /\ pos > First(p) + 1 => pin[p] < 8
            /\ pin[p] < 8 /\ pos - 1 >= First(p) => config[p] = Kept(p, MadeFor(p))
        BY <1>3, <2>1, <3>1 DEF BoschInv, Configured
      <4>2. MadeFor(p)' = IF pos < LastOf(p) THEN pos ELSE LastOf(p)
        BY <3>1 DEF MadeFor
      <4>3. CASE p = Bosch!Part /\ pin[p] < 8
        <5>1. pos \in First(p) .. LastOf(p) /\ config'[p] = Kept(p, pos)
          BY <1>6, <3>2, <4>3, <2>1
        <5> QED
          BY <3>1, <4>1, <4>2, <5>1 DEF LastOf, First
      <4>4. CASE p # Bosch!Part /\ pin[p] < 8 /\ pos >= First(p)
        <5>1. config'[p] = config[p]
          BY <1>6, <4>4
        <5>2. ~(pos \in First(p) .. LastOf(p))
          <6>1. Bosch!Part = InitCalls[pos][1]
            BY <1>4, <2>1, CallsOf
          <6>2. InitCalls[pos][1] = p <=> pos \in First(p) .. LastOf(p)
            BY <1>5, <3>1, InitSequence
          <6> QED
            BY <4>4, <6>1, <6>2
        <5>3. pos > LastOf(p) /\ MadeFor(p) = LastOf(p) /\ pos - 1 >= First(p)
          BY <3>1, <4>4, <5>2 DEF MadeFor, First, LastOf
        <5> QED
          BY <3>1, <4>1, <4>2, <5>1, <5>3 DEF LastOf
      <4> QED
        BY <4>1, <4>3, <4>4
    <3> QED
      BY <1>1, <1>3, <3>1, <3>2, SameDevice DEF Configured, First
  <2>2. CASE fn # "init"
    <3>1. config' = config
      <4>1. \A p \in Parts : config'[p] = config[p]
        BY <1>6, <2>2
      <4>2. config \in [Parts -> Seq(Bosch!CallNames)]
        BY <1>2 DEF Bosch!TypeOK, Parts
      <4> QED
        BY <1>6, <4>1, <4>2
    <3> QED
      BY <1>1, <1>3, <2>2, <3>1, SameDevice DEF BoschInv, Configured
  <2> QED
    BY <2>1, <2>2
<1>11. FetchedFrom'
  BY <1>1, <1>3, SameDevice DEF BoschInv, FetchedFrom, Bosch!PacketFromParts, Parts
<1> QED
  BY <1>3, <1>7, <1>8, <1>9, <1>10, <1>11 DEF BoschInv

(* A call made by init() returns.                                          *)
LEMMA BoschInitReturns == ASSUME BoschInv, Bosch!InitReturns PROVE BoschInv'
<1>1. /\ UNCHANGED <<device, config, dev, data, missed, packet>> /\ Bosch!Bus!Leave /\ fn = "init"
      /\ \/ Bosch!CallOk /\ pos # Len(Bosch!Calls) /\ pos' = pos + 1 /\ UNCHANGED <<fn, ready>>
         \/ /\ Bosch!CallOk /\ pos = Len(Bosch!Calls)
            /\ pos' = 0 /\ fn' = "none" /\ ready' = TRUE
         \/ pos' = 0 /\ fn' = "none" /\ UNCHANGED ready
  BY DEF Bosch!InitReturns, Bosch!Last
<1>2. Bosch!Bus!TypeOK /\ Lines /\ Bosch!TypeOK
  BY DEF BoschInv, Bosch!TypeOK
<1>3. Bosch!Bus!TypeOK' /\ Lines' /\ UNCHANGED pin /\ spi.at = "leave" /\ spi'.at = "idle"
  BY <1>1, <1>2, BusEnds
<1>4. /\ Parts # {} /\ Len(InitCalls) \in Nat /\ pos \in 1 .. Len(InitCalls)
      /\ Bosch!Calls = InitCalls /\ Bosch!Part = InitCalls[pos][1]
      /\ spi.chip = Bosch!Part /\ dev /\ ~ready
  BY SMTT(30), <1>1, <1>3, CallsOf, InitSequence DEF BoschInv, Calling
<1>5. ASSUME Bosch!CallOk, NEW p \in Parts
      PROVE  /\ pos > First(p) => pin[p] < 8
             /\ pin[p] < 8 /\ pos >= First(p) => config[p] = Kept(p, MadeFor(p))
             /\ Made = pos
  <2>1. Made = pos
    BY <1>3 DEF Made
  <2>2. ~spi.error /\ (InitCalls[pos][2] = "init" => Bosch!Bus!Hears(Bosch!Part))
    BY <1>4, <1>5 DEF Bosch!CallOk
  <2>3. /\ pos > First(p) + 1 => pin[p] < 8
        /\ pin[p] < 8 /\ pos >= First(p) => config[p] = Kept(p, MadeFor(p))
    BY <1>1, <2>1, <2>2 DEF BoschInv, Configured
  <2>4. ASSUME pos = First(p) + 1 PROVE pin[p] < 8
    <3>1. InitCalls[pos][1] = p /\ InitCalls[pos][2] = "init"
      BY <1>4, <2>4, InitSequence DEF First, LastOf
    <3>2. Bosch!Bus!Hears(p) /\ p \in Chips
      BY <1>4, <2>2, <3>1, PartNames
    <3> QED
      BY <1>2, <1>3, <3>2, WhoHears
  <2> QED
    BY <1>4, <2>1, <2>3, <2>4 DEF First
<1>6. ASSUME Bosch!CallOk /\ pos # Len(InitCalls) /\ pos' = pos + 1 /\ UNCHANGED <<fn, ready>>
      PROVE  /\ Calling' /\ Configured' /\ fn' # "read"
             /\ pos' \in 0 .. Len(InitCalls) /\ fn' \in {"none", "init", "read"} /\ ready' \in BOOLEAN
  <2>1. pos' \in 1 .. Len(InitCalls)
    BY <1>4, <1>6
  <2>2. Calling'
    <3>1. Bosch!Calls' = InitCalls
      BY <1>1, <1>4, <1>6, SameDevice DEF Bosch!Calls, InitCalls
    <3> QED
      BY <1>1, <1>3, <1>4, <1>6, <2>1, <3>1, SameDevice DEF Calling
  <2>3. Configured'
    <3>1. Made' = pos
      BY <1>3, <1>4, <1>6 DEF Made
    <3>2. \A p \in Parts : MadeFor(p)' = MadeFor(p)
      BY <1>3, <3>1 DEF MadeFor, Made
    <3>3. \A p \in Parts :
              /\ pos' > First(p) + 1 => pin[p] < 8
              /\ pin[p] < 8 /\ pos >= First(p) => config[p] = Kept(p, MadeFor(p))
      BY <1>4, <1>5, <1>6 DEF First
    <3> QED
      BY <1>1, <1>3, <1>4, <1>6, <3>1, <3>2, <3>3, SameDevice DEF Configured, First
  <2>4. pos' \in 0 .. Len(InitCalls) /\ fn' \in {"none", "init", "read"} /\ ready' \in BOOLEAN
    BY <1>2, <1>6, <2>1 DEF Bosch!TypeOK
  <2> QED
    BY <1>1, <1>6, <2>2, <2>3, <2>4
<1>7. ASSUME Bosch!CallOk /\ pos = Len(InitCalls) /\ pos' = 0 /\ fn' = "none" /\ ready' = TRUE
      PROVE  /\ Calling' /\ Configured' /\ fn' # "read"
             /\ pos' \in 0 .. Len(InitCalls) /\ fn' \in {"none", "init", "read"} /\ ready' \in BOOLEAN
  <2>1. Calling'
    BY <1>3, <1>7 DEF Calling
  <2>2. \A p \in Parts : pin[p] < 8 /\ config[p] = Kept(p, LastOf(p))
    <3> SUFFICES ASSUME NEW p \in Parts PROVE pin[p] < 8 /\ config[p] = Kept(p, LastOf(p))
      OBVIOUS
    <3>1. First(p) \in Nat /\ LastOf(p) \in First(p) + 2 .. pos
      BY <1>4, <1>7, InitSequence DEF First
    <3>2. pos > First(p) /\ pos >= First(p) /\ ~(pos < LastOf(p))
      BY <1>4, <3>1
    <3>3. MadeFor(p) = IF pos < LastOf(p) THEN pos ELSE LastOf(p)
      BY <1>5, <1>7 DEF MadeFor
    <3>4. pos < LastOf(p) => FALSE
      BY <3>2
    <3> QED
      BY <1>5, <1>7, <3>2, <3>3, <3>4
  <2>3. Configured'
    BY <1>1, <1>3, <1>7, <2>2, SameDevice DEF Configured, LastOf
  <2>4. pos' \in 0 .. Len(InitCalls) /\ fn' \in {"none", "init", "read"} /\ ready' \in BOOLEAN
    BY <1>4, <1>7
  <2> QED
    BY <1>7, <2>1, <2>3, <2>4
<1>8. ASSUME pos' = 0 /\ fn' = "none" /\ UNCHANGED ready
      PROVE  /\ Calling' /\ Configured' /\ fn' # "read"
             /\ pos' \in 0 .. Len(InitCalls) /\ fn' \in {"none", "init", "read"} /\ ready' \in BOOLEAN
  <2>1. Calling' /\ Configured'
    BY <1>3, <1>4, <1>8 DEF Calling, Configured
  <2>2. pos' \in 0 .. Len(InitCalls) /\ fn' \in {"none", "init", "read"} /\ ready' \in BOOLEAN
    BY <1>2, <1>4, <1>8 DEF Bosch!TypeOK
  <2> QED
    BY <1>8, <2>1, <2>2
<1>9. /\ Calling' /\ Configured' /\ fn' # "read"
      /\ pos' \in 0 .. Len(InitCalls) /\ fn' \in {"none", "init", "read"} /\ ready' \in BOOLEAN
  BY <1>1, <1>4, <1>6, <1>7, <1>8
<1>10. Bosch!TypeOK'
  BY <1>1, <1>2, <1>3, <1>9, BoschType DEF Bosch!TypeOK, Parts, InitCalls
<1>11. Bounded' /\ FetchedFrom'
  BY <1>1, <1>3, <1>9, SameDevice DEF BoschInv, Bounded, FetchedFrom, Bosch!PacketFromParts, Parts
<1> QED
  BY <1>3, <1>9, <1>10, <1>11 DEF BoschInv

(* What read() has fetched when a fetch returns.                           *)
LEMMA FetchedData ==
    ASSUME BoschInv, fn = "read", Bosch!Bus!Leave,
           missed' = IF spi.error THEN missed \cup {Bosch!Part} ELSE missed
    PROVE  /\ Bosch!Fetched \in [Parts -> Parts \cup {"floating", "garbage"}]
           /\ missed' \subseteq Parts
           /\ \A k \in 1 .. pos :
                  LET p == ReadCalls[k][1]
                  IN  Bosch!Fetched[p] = p \/ p \in missed' \/ pin[p] >= 8
<1>1. Bosch!TypeOK /\ Bosch!Bus!TypeOK /\ Lines /\ Calling /\ FetchedFrom
  BY DEF BoschInv, Bosch!TypeOK
<1>2. spi.at = "leave"
  BY <1>1, BusEnds
<1>3. /\ dev /\ spi.chip = Bosch!Part /\ Parts # {} /\ Bosch!Part \in Parts /\ Bosch!Part \in Chips
      /\ pos \in 1 .. Len(ReadCalls) /\ Len(ReadCalls) \in Nat /\ Bosch!Part = ReadCalls[pos][1]
      /\ \A k \in 1 .. Len(ReadCalls) : ReadCalls[k][1] \in Parts
  BY <1>1, <1>2, CallsOf, ReadSequence DEF Calling
<1>4. Bosch!Bus!Hears(Bosch!Part) <=> pin[Bosch!Part] < 8
  BY <1>1, <1>2, <1>3, WhoHears
<1>5. data \in [Parts -> Parts \cup {"floating", "garbage"}] /\ missed \subseteq Parts
  BY <1>1 DEF Bosch!TypeOK, Parts
<1>6. Bosch!Fetched = IF spi.error THEN data
                      ELSE [data EXCEPT ![Bosch!Part] = IF Bosch!Bus!Hears(Bosch!Part) THEN Bosch!Part
                                                        ELSE "floating"]
  BY DEF Bosch!Fetched
<1>7. pin[Bosch!Part] < 8 \/ pin[Bosch!Part] >= 8
  <2>1. pin[Bosch!Part] \in 0 .. 15
    BY <1>1, <1>3, SensorsAssumption DEF Bosch!Bus!TypeOK, Bosch!Bus!SPIAssumption, Chips
  <2> QED
    BY <2>1
<1>8. Bosch!Fetched \in [Parts -> Parts \cup {"floating", "garbage"}] /\ missed' \subseteq Parts
  BY <1>3, <1>5, <1>6
<1>9. ASSUME NEW k \in 1 .. pos, NEW p, p = ReadCalls[k][1]
      PROVE  Bosch!Fetched[p] = p \/ p \in missed' \/ pin[p] >= 8
  <2>1. p \in Parts
    BY <1>3, <1>9
  <2>2. CASE p = Bosch!Part
    BY <1>3, <1>4, <1>5, <1>6, <1>7, <2>2
  <2>3. CASE p # Bosch!Part
    <3>1. k \in 1 .. pos - 1
      BY <1>3, <1>9, <2>3
    <3>2. data[p] = p \/ p \in missed \/ pin[p] >= 8
      BY <1>1, <1>3, <1>9, <3>1 DEF FetchedFrom
    <3>3. Bosch!Fetched[p] = data[p]
      BY <1>5, <1>6, <2>1, <2>3
    <3> QED
      BY <3>2, <3>3
  <2> QED
    BY <2>2, <2>3
<1> QED
  BY <1>8, <1>9

LEMMA BoschReadReturns == ASSUME BoschInv, Bosch!ReadReturns PROVE BoschInv'
<1>1. /\ UNCHANGED <<device, config, dev, ready>> /\ Bosch!Bus!Leave /\ fn = "read"
      /\ missed' = IF spi.error THEN missed \cup {Bosch!Part} ELSE missed
      /\ \/ /\ pos # Len(Bosch!Calls) /\ pos' = pos + 1
            /\ data' = Bosch!Fetched /\ UNCHANGED <<fn, packet>>
         \/ /\ pos = Len(Bosch!Calls) /\ pos' = 0 /\ fn' = "none"
            /\ packet' = Bosch!Fetched /\ data' = Bosch!Uninitialised
  BY DEF Bosch!ReadReturns, Bosch!Last
<1>2. Bosch!Bus!TypeOK /\ Lines /\ Bosch!TypeOK
  BY DEF BoschInv, Bosch!TypeOK
<1>3. Bosch!Bus!TypeOK' /\ Lines' /\ UNCHANGED pin /\ spi.at = "leave" /\ spi'.at = "idle"
  BY <1>1, <1>2, BusEnds
<1>4. /\ Parts # {} /\ Len(InitCalls) \in Nat /\ Len(ReadCalls) \in 1 .. Len(InitCalls)
      /\ pos \in 1 .. Len(ReadCalls) /\ Bosch!Calls = ReadCalls /\ dev
  BY SMTT(30), <1>1, <1>3, CallsOf, InitSequence, ReadSequence DEF BoschInv, Calling
<1>5. /\ Bosch!Fetched \in [Parts -> Parts \cup {"floating", "garbage"}] /\ missed' \subseteq Parts
      /\ \A k \in 1 .. pos :
             LET p == ReadCalls[k][1]
             IN  Bosch!Fetched[p] = p \/ p \in missed' \/ pin[p] >= 8
  BY <1>1, FetchedData
<1>6. ASSUME pos # Len(ReadCalls)
      PROVE  Bosch!TypeOK' /\ Calling' /\ FetchedFrom' /\ fn' # "init"
  <2>1. pos' = pos + 1 /\ data' = Bosch!Fetched /\ UNCHANGED <<fn, packet>>
    BY <1>1, <1>4, <1>6
  <2>2. pos' \in 1 .. Len(ReadCalls) /\ pos' \in 0 .. Len(InitCalls) /\ pos' - 1 = pos
    BY <1>4, <1>6, <2>1
  <2>3. Bosch!Calls' = ReadCalls
    BY <1>1, <2>1, SameDevice DEF Bosch!Calls, ReadCalls, Bosch!ReadCalls
  <2>4. Calling'
    BY <1>1, <1>3, <1>4, <2>1, <2>2, <2>3, SameDevice DEF Calling
  <2>5. FetchedFrom'
    BY <1>1, <1>3, <1>5, <2>1, <2>2, SameDevice DEF FetchedFrom, Bosch!PacketFromParts
  <2>6. Bosch!TypeOK'
    BY <1>1, <1>2, <1>3, <1>5, <2>1, <2>2, BoschType DEF Bosch!TypeOK, Parts, InitCalls
  <2> QED
    BY <1>1, <2>1, <2>4, <2>5, <2>6
<1>7. ASSUME pos = Len(ReadCalls)
      PROVE  Bosch!TypeOK' /\ Calling' /\ FetchedFrom' /\ fn' # "init"
  <2>1. pos' = 0 /\ fn' = "none" /\ packet' = Bosch!Fetched /\ data' = Bosch!Uninitialised
    BY <1>1, <1>4, <1>7
  <2>2. Calling'
    BY <1>3, <2>1 DEF Calling
  <2>3. FetchedFrom'
    <3>1. \A p \in Parts : packet'[p] = p \/ p \in missed' \/ pin[p] >= 8
      BY <1>4, <1>5, <1>7, <2>1, ReadSequence
    <3> QED
      BY <1>1, <1>3, <2>1, <3>1, SameDevice DEF FetchedFrom, Bosch!PacketFromParts
  <2>4. /\ data' \in [Parts -> Parts \cup {"floating", "garbage"}]
        /\ packet' \in [Parts -> Parts \cup {"blank", "floating", "garbage"}]
    <3>1. data' \in [Parts -> Parts \cup {"floating", "garbage"}]
      BY <2>1 DEF Bosch!Uninitialised, Parts
    <3>2. packet' \in [Parts -> Parts \cup {"blank", "floating", "garbage"}]
      BY <1>5, <2>1
    <3> QED
      BY <3>1, <3>2
  <2>5. Bosch!TypeOK'
    <3>1. pos' \in 0 .. Len(InitCalls)
      BY <1>4, <2>1
    <3> QED
      BY <1>1, <1>2, <1>3, <1>5, <2>1, <2>4, <3>1, BoschType DEF Bosch!TypeOK, Parts, InitCalls
  <2> QED
    BY <2>1, <2>2, <2>3, <2>5
<1>8. Bosch!TypeOK' /\ Calling' /\ FetchedFrom' /\ fn' # "init"
  BY <1>1, <1>6, <1>7
<1>9. Configured' /\ Bounded'
  BY <1>1, <1>3, <1>8, SameDevice DEF BoschInv, Configured, Bounded
<1> QED
  BY <1>3, <1>8, <1>9 DEF BoschInv

LEMMA BoschOther == ASSUME BoschInv, Bosch!ReadUnset \/ Bosch!Restart PROVE BoschInv'
<1>1. UNCHANGED <<device, config>> /\ pos' = 0 /\ fn' = "none"
  BY DEF Bosch!ReadUnset, Bosch!Restart
<1>2. Bosch!Bus!TypeOK /\ Lines /\ Bosch!TypeOK /\ Len(InitCalls) \in Nat
  BY DEF BoschInv, Bosch!TypeOK, InitCalls, Bosch!InitCalls, Bosch!Bmi088Init, Bosch!Bmp581Init
<1>3. CASE Bosch!ReadUnset
  <2>1. /\ fn = "read" /\ ~dev /\ packet' = data /\ missed' = Parts
        /\ UNCHANGED <<dev, ready, data, pin, low, spi>>
    BY <1>3 DEF Bosch!ReadUnset, Bosch!bus, Parts
  <2>2. spi.at = "idle"
    BY <2>1 DEF BoschInv, Calling
  <2>3. Bosch!Bus!TypeOK' /\ Lines'
    BY <1>2, <2>1 DEF Bosch!Bus!TypeOK, Lines, Bosch!Bus!Driven
  <2>4. Bosch!TypeOK'
    <3>1. /\ packet' \in [Parts -> Parts \cup {"blank", "floating", "garbage"}]
          /\ pos' \in 0 .. Len(InitCalls) /\ missed' \subseteq Parts
      BY <1>1, <1>2, <2>1 DEF Bosch!TypeOK, Parts
    <3> QED
      BY <1>1, <1>2, <2>1, <2>3, <3>1, BoschType DEF Bosch!TypeOK, Parts, InitCalls
  <2>5. Calling' /\ Configured' /\ Bounded'
    BY <1>1, <2>1, <2>2, SameDevice DEF BoschInv, Calling, Configured, Bounded
  <2>6. FetchedFrom'
    BY <1>1, <2>1, SameDevice DEF FetchedFrom, Bosch!PacketFromParts
  <2> QED
    BY <2>3, <2>4, <2>5, <2>6 DEF BoschInv
<1>4. CASE Bosch!Restart
  <2>1. /\ dev' = FALSE /\ ready' = FALSE /\ missed' = {} /\ Bosch!Bus!Reset
        /\ data' = Bosch!Uninitialised /\ packet' = [p \in Parts |-> "blank"]
    BY <1>4 DEF Bosch!Restart, Parts
  <2>2. Bosch!Bus!TypeOK' /\ Lines' /\ spi'.at = "idle"
    BY <1>2, <2>1, BusEnds
  <2>3. Bosch!TypeOK'
    <3>1. /\ packet' \in [Parts -> Parts \cup {"blank", "floating", "garbage"}]
          /\ data' \in [Parts -> Parts \cup {"floating", "garbage"}]
      BY <2>1 DEF Bosch!Uninitialised, Parts
    <3>2. pos' \in 0 .. Len(InitCalls)
      BY <1>1, <1>2
    <3> QED
      BY <1>1, <1>2, <2>1, <2>2, <3>1, <3>2, BoschType DEF Bosch!TypeOK, Parts, InitCalls
  <2>4. Calling' /\ Configured' /\ Bounded'
    BY <1>1, <2>1, <2>2, SameDevice DEF BoschInv, Calling, Configured, Bounded
  <2>5. FetchedFrom'
    BY <1>1, <2>1, SameDevice DEF FetchedFrom, Bosch!PacketFromParts
  <2> QED
    BY <2>2, <2>3, <2>4, <2>5 DEF BoschInv
<1> QED
  BY <1>3, <1>4

LEMMA BoschNext == ASSUME BoschInv, Bosch!Next PROVE BoschInv'
BY BoschStart, BoschCallBegins, BoschCallData, BoschInitReturns, BoschReadReturns, BoschOther
   DEF Bosch!Next

-----------------------------------------------------------------------------
(* The theorems.                                                           *)

LEMMA BoschKept == ASSUME BoschInv, UNCHANGED bosch PROVE BoschInv'
<1>1. UNCHANGED <<device, config, fn, pos, dev, ready, data, missed, packet, pin, low, spi>>
  BY DEF bosch
<1>2. Bosch!TypeOK /\ Lines /\ Bosch!Bus!TypeOK
  BY DEF BoschInv, Bosch!TypeOK
<1>3. Bosch!Bus!TypeOK'
  BY <1>1, <1>2 DEF Bosch!Bus!TypeOK
<1>4. Bosch!TypeOK'
  BY <1>1, <1>2, <1>3, BoschType DEF Bosch!TypeOK, Parts, InitCalls
<1>5. Lines'
  BY <1>1, <1>2 DEF Lines, Bosch!Bus!Driven
<1>6. Calling'
  <2>1. Bosch!Calls' = Bosch!Calls /\ Bosch!Part' = Bosch!Part
    BY <1>1, SameDevice DEF Bosch!Calls, Bosch!Part, Bosch!InitCalls, Bosch!ReadCalls
  <2> QED
    BY <1>1, <2>1, SameDevice DEF BoschInv, Calling
<1>7. Configured'
  <2>1. Made' = Made /\ \A p : MadeFor(p)' = MadeFor(p)
    BY <1>1 DEF Made, MadeFor
  <2> QED
    BY <1>1, <2>1, SameDevice DEF BoschInv, Configured
<1>8. Bounded' /\ FetchedFrom'
  BY <1>1, SameDevice DEF BoschInv, Bounded, FetchedFrom, Bosch!PacketFromParts, Parts
<1> QED
  BY <1>4, <1>5, <1>6, <1>7, <1>8 DEF BoschInv

LEMMA GpsKept == ASSUME GpsInv, UNCHANGED gps PROVE GpsInv'
BY DEF gps, GpsInv, Gps!TypeOK, Indices, Stops, Gps!Here

LEMMA Inductive == Spec => []IInv
<1>1. Init => IInv
  BY BoschInit, GpsInit DEF Init, IInv
<1>2. IInv /\ [Next]_vars => IInv'
  BY BoschNext, GpsNext, BoschKept, GpsKept DEF IInv, Next, BoschStep, GpsStep, vars
<1> QED
  BY <1>1, <1>2, PTL DEF Spec

(* Every variable has its type, however often calls fail.                  *)
THEOREM TypeCorrect == Spec => []TypeOK
<1>1. IInv => TypeOK
  BY DEF IInv, BoschInv, GpsInv, TypeOK
<1> QED
  BY <1>1, Inductive, PTL

(* A sensor that is ready is configured by all calls that follow the reset *)
(* of each part and by nothing else (bmi088.cpp, bmp581.cpp, sensor.h:44). *)
THEOREM RetryIsSound == Spec => []ReadyMeansConfigured
<1>1. ASSUME IInv, ready, NEW p \in Parts
      PROVE  \E from, to \in DOMAIN InitCalls :
                 /\ {k \in DOMAIN InitCalls : InitCalls[k][1] = p} = from .. to
                 /\ config[p] = [k \in 1 .. to - from |-> InitCalls[from + k][2]]
  <2>1. config[p] = Kept(p, LastOf(p))
    BY <1>1 DEF IInv, BoschInv, Configured
  <2>2. /\ DOMAIN InitCalls = 1 .. Len(InitCalls) /\ Len(InitCalls) \in Nat
        /\ First(p) \in DOMAIN InitCalls /\ LastOf(p) \in DOMAIN InitCalls
        /\ \A k \in DOMAIN InitCalls : InitCalls[k][1] = p <=> k \in First(p) .. LastOf(p)
    BY InitSequence DEF First, LastOf
  <2>3. {k \in DOMAIN InitCalls : InitCalls[k][1] = p} = First(p) .. LastOf(p)
    BY <2>2
  <2> QED
    BY <2>1, <2>2, <2>3 DEF Kept
<1>2. IInv => ReadyMeansConfigured
  BY <1>1 DEF ReadyMeansConfigured, Bosch!ReadyMeansConfigured, Parts, InitCalls
<1> QED
  BY <1>2, Inductive, PTL

(* init() never succeeds with a part whose line is at one of the pins 8 to *)
(* 15 (spi.h:30).                                                          *)
THEOREM SilentBusIsNoDevice == Spec => []UnreachableNeverReady
<1>1. IInv => UnreachableNeverReady
  BY DEF IInv, BoschInv, Configured, UnreachableNeverReady, Bosch!UnreachableNeverReady, Parts
<1> QED
  BY <1>1, Inductive, PTL

(* What read() puts into the packet was fetched in this very call, unless  *)
(* a fetch failed or a line is out of reach (bmi088.cpp:166-187,           *)
(* bmp581.cpp:145-152).                                                    *)
THEOREM PacketIsFetched == Spec => []PacketFromParts
<1>1. IInv => PacketFromParts
  BY DEF IInv, BoschInv, FetchedFrom, PacketFromParts
<1> QED
  BY <1>1, Inductive, PTL

(* Nobody but the addressed chip hears what is sent, however the calls     *)
(* before ended (spi.cpp:8-18, 25, 34).                                    *)
THEOREM BusIsExclusive == Spec => []OneChipHears
<1>1. ASSUME IInv PROVE Bosch!Bus!OneChipHears
  <2>1. Bosch!Bus!TypeOK /\ Lines
    BY <1>1 DEF IInv, BoschInv, Bosch!TypeOK
  <2> QED
    BY <2>1, WhoHears DEF Bosch!Bus!OneChipHears, Chips
<1> QED
  BY <1>1, Inductive, PTL DEF OneChipHears

(* read() stays in its buffer as long as only GGA sentences come, whatever *)
(* they contain and whenever they come (cd-pa1616s.cpp:19, 33, 52).        *)
THEOREM GgaStaysInBuffer == Spec => []GgaOnlyFits
<1>1. IInv => GgaOnlyFits
  BY DEF IInv, GpsInv, Stops, GgaOnlyFits, Gps!GgaOnlyFits
<1> QED
  BY <1>1, Inductive, PTL
=============================================================================
