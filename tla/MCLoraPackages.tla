---------------------------- MODULE MCLoraPackages ----------------------------
(***************************************************************************)
(* LoraPackages for TLC: what the sensors return at the edges of their     *)
(* ranges, an empty text, and one as long as the fourteen bytes of the     *)
(* readings.                                                               *)
(***************************************************************************)
EXTENDS LoraPackages

MCBattery == [t \in Repeaters |-> IF t = 1 THEN 3700 ELSE 255]

Weather(sixteenths, humidity, soil, rain, wind, battery) ==
    [sixteenths |-> sixteenths, humidity |-> humidity, soil |-> soil, rain |-> rain,
     wind |-> wind, battery |-> battery]

\* Warm and dry, cold and wet with the soil and rain sensors beyond their ranges.
AboveZero == {Weather(415, 20, 2172, 3200, 75, 4200), Weather(7, 99, 142, 1300, 1075, 256)}

\* The mountain on a winter night, -5 degrees; and a scratchpad that cannot be read, which
\* is decoded as 16#8000 sixteenths and used although the error is counted.
BelowZero == {Weather(-80, 90, 1500, 3165, 300, 4000),
              Weather(-32768, 90, 1500, 3165, 300, 4000)}

MCTexts == {<<>>, [i \in 1..14 |-> 64 + i]}
=============================================================================
