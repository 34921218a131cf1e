----------------------------- MODULE MCSensors -----------------------------
(* Three chips at three of the pins, one of them above 7.  The characters  *)
(* of a sentence are fewer than in reality, and the sizes with them: a GGA *)
(* sentence fits into the line and the buffer, a sentence and a half fit   *)
(* into neither, and the buffer may end within an altitude.                *)
EXTENDS Sensors, Sequences

MCDevices == {"BMI088", "BMP581", "GPS"}
MCPins == {3, 6, 9}

Gga(lat, ns, lon, ew, alt) ==
    <<"$", "GGA", ",", ",", lat, ",", ns, ",", lon, ",", ew, ",", "1", ",", "8", ",", ",">>
        \o alt \o <<"CR", "LF">>
South == Gga("40", "S", "74", "W", <<"5", "4">>)
NoFix == <<"$", "GGA", ",", ",", ",", ",", ",", ",", "0", ",", "0", ",", ",", "CR", "LF">>
Rmc == <<"$", "RMC", ",", ",", "V", ",", ",", ",", ",", ",", ",", ",", "CR", "LF">>

MCGgaBursts == {South, NoFix, SubSeq(South, 9, Len(South))}
MCMixedBursts == {Rmc \o South}
=============================================================================
