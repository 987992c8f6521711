---------------------------- MODULE MCAirQuality ----------------------------
(* The air quality window on small instances.                              *)
EXTENDS AirQuality

S(pm25, pm10, temp, rh, voc) ==
  [f \in Fields |-> CASE f = "pm25" -> pm25 [] f = "pm10" -> pm10 [] f = "temp" -> temp
                      [] f = "rh" -> rh [] f = "voc" -> voc]

\* Low and high readings, a SEN50 (no RH/T/gas), a part not yet converting, and
\* temperatures below zero, an odd one among them.
MCSamples ==
  { S(5, 9, 4600, 4000, 65535), S(80, 7, 4601, 3900, 1000), S(0, 200, 65493, 0, 990),
    S(60, 61, 65535, 65535, 65535), S(65535, 65535, 65535, 65535, 65535),
    S(65534, 65535, 65534, 10, 0) }
=============================================================================
