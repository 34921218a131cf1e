---------------------------- MODULE BoschSensor ----------------------------
(***************************************************************************)
(* The drivers of the two Bosch sensors (src/sensors/bmi088.cpp,           *)
(* bmp581.cpp) on their SPI bus.  init() makes a fixed sequence of calls   *)
(* to the vendor's library and gives up at the first that fails; read()    *)
(* fetches from each part and never looks at a result.  The application    *)
(* calls init() again after a failure (include/sensors/sensor.h:44) and    *)
(* after a restart of the processor.                                       *)
(*                                                                         *)
(* External, library and device: a call of the library is one transfer on  *)
(* the bus here.  It returns an error if the bus does, if the device       *)
(* refuses, or if init() of the library does not find the id of the chip.  *)
(* A part carries out what it hears, and keeps it until it is reset: a     *)
(* restart of the processor leaves it as it is, so that init() may meet it *)
(* set up in any way.  A call that fails may or may not have reached it.   *)
(***************************************************************************)
EXTENDS Integers, Sequences

CONSTANTS Devices, \* the devices of the application: "BMI088", "BMP581", and
                   \* any that have nothing to do with this module
          Pins     \* the pins its select lines may be at

VARIABLES
    device,  \* the device this behaviour is about
    config,  \* device: per part, the calls it has carried out since its reset
    fn,      \* the member function in progress
    pos,     \* the call it is at; 0 outside of a function
    dev,     \* dev holds the callbacks to the protocol
    ready,   \* init() returned true
    data,    \* read(): what was fetched
    missed,  \* history: the parts whose fetch failed in the last read()
    packet,  \* the fields of the packet, one per part
    pin, low, spi

local == <<device, config, fn, pos, dev, ready, data, missed, packet>>
bus == <<pin, low, spi>>
vars == <<local, bus>>

Bus == INSTANCE SPI WITH Chips <- {"accel", "gyro", "baro"}

-----------------------------------------------------------------------------
(* The calls of init(), each as <<part, call>>.                            *)

(* Mutation: the gyroscope is not reset.                                   *)
Bmi088InitKeepsGyro ==
    << <<"accel", "soft_reset">>, <<"accel", "init">>,
       <<"accel", "load_config_file">>, <<"accel", "set_power_mode">>,
       <<"accel", "set_meas_conf">>, <<"accel", "set_int_config">>,
       <<"gyro", "init">>, <<"gyro", "set_power_mode">>,
       <<"gyro", "set_meas_conf">>, <<"gyro", "set_int_config">> >>

Bmi088Init ==
    << <<"accel", "soft_reset">>, <<"accel", "init">>,
       <<"accel", "load_config_file">>, <<"accel", "set_power_mode">>,
       <<"accel", "set_meas_conf">>, <<"accel", "set_int_config">>,
       <<"gyro", "soft_reset">>, <<"gyro", "init">>,
       <<"gyro", "set_power_mode">>, <<"gyro", "set_meas_conf">>,
       <<"gyro", "set_int_config">> >>

Bmp581Init ==
    << <<"baro", "soft_reset">>, <<"baro", "init">>,
       <<"baro", "set_osr_odr_press_config">>, <<"baro", "int_source_select">>,
       <<"baro", "configure_interrupt">>, <<"baro", "set_power_mode">> >>

CallNames ==
    {"other"} \cup {Bmi088Init[k][2] : k \in DOMAIN Bmi088Init}
              \cup {Bmp581Init[k][2] : k \in DOMAIN Bmp581Init}

InitCalls == IF device = "BMI088" THEN Bmi088Init ELSE Bmp581Init

(* Mutation: both fetches are from the accelerometer.                      *)
ReadCallsTwice ==
    IF device = "BMI088" THEN << <<"accel", "get_data">>, <<"accel", "get_data">> >>
    ELSE << <<"baro", "get_data">> >>

ReadCalls ==
    IF device = "BMI088" THEN << <<"accel", "get_data">>, <<"gyro", "get_data">> >>
    ELSE << <<"baro", "get_data">> >>

Calls == IF fn = "init" THEN InitCalls ELSE ReadCalls

Parts ==
    CASE device = "BMI088" -> {"accel", "gyro"}
      [] device = "BMP581" -> {"baro"}
      [] OTHER -> {}

Last == pos = Len(Calls)
Part == Calls[pos][1]

(* A local variable nobody has written to yet.                             *)
Uninitialised == [p \in Parts |-> "garbage"]

-----------------------------------------------------------------------------

TypeOK ==
    /\ Bus!TypeOK
    /\ device \in Devices /\ fn \in {"none", "init", "read"}
    /\ config \in [Parts -> Seq(CallNames)]
    /\ \A p \in Parts : Len(config[p]) <= Len(InitCalls)
    /\ pos \in 0 .. Len(InitCalls) /\ dev \in BOOLEAN /\ ready \in BOOLEAN
    /\ data \in [Parts -> Parts \cup {"floating", "garbage"}]
    /\ packet \in [Parts -> Parts \cup {"blank", "floating", "garbage"}]
    /\ missed \subseteq Parts

Init ==
    /\ device \in Devices
    /\ config \in [Parts -> {<<>>, <<"other">>}]
    /\ fn = "none" /\ pos = 0 /\ dev = FALSE /\ ready = FALSE
    /\ data = Uninitialised /\ missed = {}
    /\ packet = [p \in Parts |-> "blank"]
    /\ Bus!Init

(* External: the application calls init().                                 *)
StartInit ==
    /\ fn = "none" /\ ~ready /\ Parts # {}
    /\ fn' = "init" /\ pos' = 1 /\ dev' = TRUE
    /\ UNCHANGED <<device, config, ready, data, missed, packet, bus>>

(* SensorTask calls read(), whatever init() returned.                      *)
StartRead ==
    /\ fn = "none" /\ Parts # {}
    /\ fn' = "read" /\ pos' = 1 /\ missed' = {}
    /\ UNCHANGED <<device, config, dev, ready, data, packet, bus>>

(* The library calls back with intf_ptr, the protocol of the part.         *)
CallBegins ==
    /\ fn # "none" /\ dev /\ Bus!Select(Part)
    /\ UNCHANGED local

CallCommand == Bus!Command /\ UNCHANGED local

(* External: what the parts keep of a call they hear.                      *)
CarriedOut(call) ==
    [p \in Parts |->
        IF ~Bus!Hears(p) \/ fn = "read" THEN config[p]
        ELSE IF call = "soft_reset" THEN <<>>
        ELSE Append(config[p], call)]

CallData ==
    /\ Bus!Data
    /\ \/ config' = CarriedOut(Calls[pos][2])
       \/ spi'.error /\ UNCHANGED config
    /\ UNCHANGED <<device, fn, pos, dev, ready, data, missed, packet>>

(* External: the library's own result.                                     *)
CallOk == ~spi.error /\ (Calls[pos][2] = "init" => Bus!Hears(Part))

(* Mutation: the result of the call is not looked at.                      *)
InitReturnsUnchecked ==
    /\ fn = "init" /\ Bus!Leave
    /\ fn' = (IF Last THEN "none" ELSE "init") /\ pos' = (IF Last THEN 0 ELSE pos + 1)
    /\ ready' = Last
    /\ UNCHANGED <<device, config, dev, data, missed, packet>>

(* A call made by init() returns: the next one, or the end.                *)
InitReturns ==
    /\ fn = "init" /\ Bus!Leave
    /\ \/ CallOk /\ ~Last /\ pos' = pos + 1 /\ UNCHANGED <<fn, ready>>
       \/ CallOk /\ Last /\ pos' = 0 /\ fn' = "none" /\ ready' = TRUE
       \/ ~CallOk /\ pos' = 0 /\ fn' = "none" /\ UNCHANGED ready
    /\ UNCHANGED <<device, config, dev, data, missed, packet>>

(* A fetch made by read() returns.  With nobody on the line the bytes are  *)
(* those of a line that floats.                                            *)
Fetched ==
    IF spi.error THEN data
    ELSE [data EXCEPT ![Part] = IF Bus!Hears(Part) THEN Part ELSE "floating"]

ReadReturns ==
    /\ fn = "read" /\ Bus!Leave
    /\ missed' = IF spi.error THEN missed \cup {Part} ELSE missed
    /\ \/ ~Last /\ pos' = pos + 1 /\ data' = Fetched /\ UNCHANGED <<fn, packet>>
       \/ Last /\ pos' = 0 /\ fn' = "none" /\ packet' = Fetched /\ data' = Uninitialised
    /\ UNCHANGED <<device, config, dev, ready>>

(* Before the first init() the library finds no callbacks in dev.          *)
ReadUnset ==
    /\ fn = "read" /\ ~dev
    /\ pos' = 0 /\ fn' = "none" /\ packet' = data /\ missed' = Parts
    /\ UNCHANGED <<device, config, dev, ready, data, bus>>

(* External: the processor restarts, the device keeps its power.           *)
Restart ==
    /\ fn' = "none" /\ pos' = 0 /\ dev' = FALSE /\ ready' = FALSE
    /\ data' = Uninitialised /\ missed' = {}
    /\ packet' = [p \in Parts |-> "blank"]
    /\ Bus!Reset /\ UNCHANGED <<device, config>>

Next ==
    \/ StartInit \/ StartRead \/ CallBegins \/ CallCommand \/ CallData
    \/ InitReturns \/ ReadReturns \/ ReadUnset \/ Restart

-----------------------------------------------------------------------------

(* However many attempts failed before, and however the device was set up  *)
(* when the processor restarted, once init() has returned true each part   *)
(* is configured by all calls that follow its reset, and by nothing that   *)
(* was left from before, also not by calls meant for the other part:       *)
(* retrying init() is sound (sensor.h:44).                                 *)
ReadyMeansConfigured ==
    ready =>
        \A p \in Parts : \E first, last \in DOMAIN InitCalls :
            /\ {k \in DOMAIN InitCalls : InitCalls[k][1] = p} = first .. last
            /\ config[p] = [k \in 1 .. last - first |-> InitCalls[first + k][2]]

(* A part whose line is at one of the pins 8 to 15 is never selected, for  *)
(* the object keeps eight bits of the pin (spi.h:30): init() fails every   *)
(* time and does not take a silent bus for a device.                       *)
UnreachableNeverReady == ready => \A p \in Parts : pin[p] < 8

(* What read() puts into the packet for a part was fetched from that part  *)
(* in this very call, unless its fetch failed or its line is out of reach: *)
(* only then, and without a word to the caller, other values get in        *)
(* (bmi088.cpp:166-187, bmp581.cpp:145-152).                               *)
PacketFromParts ==
    fn # "read" =>
        \A p \in Parts :
            packet[p] \in {"blank", p} \/ p \in missed \/ pin[p] >= 8
=============================================================================
