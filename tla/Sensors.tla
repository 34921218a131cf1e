------------------------------ MODULE Sensors ------------------------------
(***************************************************************************)
(* The sensors of the application.  Their drivers share no state and a     *)
(* task calls them one after the other, so that a behaviour follows one of *)
(* them: a Bosch sensor on the SPI bus, whose other chips are wired too,   *)
(* or the GPS with its DMA.                                                *)
(***************************************************************************)
EXTENDS Integers

CONSTANTS Devices, Pins
CONSTANTS BufferSize, LineSize, MaxFields, FieldSize, Digits,
          GgaBursts, MixedBursts, MaxReceptions

VARIABLES device, config, fn, pos, dev, ready, data, missed, packet, pin, low, spi
VARIABLES buffer, receiving, w, received, pc, i, line, found, started, settled, overrun

bosch == <<device, config, fn, pos, dev, ready, data, missed, packet, pin, low, spi>>
gps == <<buffer, receiving, w, received, pc, i, line, found, started, settled, overrun>>
vars == <<bosch, gps>>

Bosch == INSTANCE BoschSensor
Gps == INSTANCE GPS WITH ready <- started

ASSUME SensorsAssumption ==
    /\ Devices \subseteq {"BMI088", "BMP581", "GPS"}
    /\ Bosch!Bus!SPIAssumption /\ Gps!GPSAssumption

(* What the GPS module sends, whatever it was told to send.                *)
ASSUME SentencesAssumption == \A b \in Gps!Bursts : Gps!WellFormed(b)

TypeOK == Bosch!TypeOK /\ Gps!TypeOK

(* The wiring of the bus is nothing to the GPS: one will do.               *)
Init ==
    /\ Bosch!Init /\ Gps!Init
    /\ device = "GPS" =>
           pin = CHOOSE f \in [DOMAIN pin -> Pins] :
                     \A c, d \in DOMAIN pin : f[c] = f[d] => c = d

BoschStep == Bosch!Next /\ UNCHANGED gps

GpsStep == device = "GPS" /\ Gps!Next /\ UNCHANGED bosch

Next == BoschStep \/ GpsStep

(* A function of the GPS driver that was begun goes on: SensorTask is not  *)
(* kept from running for ever.                                             *)
Spec == Init /\ [][Next]_vars /\ WF_vars(device = "GPS" /\ Gps!Continue /\ UNCHANGED bosch)

-----------------------------------------------------------------------------
(* The properties of the parts, each stated where it belongs.              *)

(* BoschSensor: a sensor that is ready is configured by one whole sequence.*)
ReadyMeansConfigured == Bosch!ReadyMeansConfigured

(* BoschSensor: init() never succeeds with a line at the pins 8 to 15.     *)
UnreachableNeverReady == Bosch!UnreachableNeverReady

(* BoschSensor: where the values come from that read() puts in the packet. *)
PacketFromParts == Bosch!PacketFromParts

(* SPI: nobody but the addressed chip hears what is sent.                  *)
OneChipHears == Bosch!Bus!OneChipHears

(* GPS: the packet holds the fields of one sentence.                       *)
FixOfOneSentence == Gps!FixOfOneSentence

(* GPS: read() stays in its buffer while only GGA sentences come.          *)
GgaOnlyFits == Gps!GgaOnlyFits

(* GPS: the loops over the buffer end or leave it.                        *)
LoopsEnd == Gps!LoopsEnd

(* GPS: init() returns true only if the reception was started.             *)
ReadyMeansReceiving == Gps!ReadyMeansReceiving
=============================================================================
