------------------------------- MODULE MCEeprom --------------------------------
(* Two sectors: the first has the settings and one station, and a save of  *)
(* two stations reaches over the border.                                   *)
EXTENDS Eeprom, Bitwise

MCRanges == {<<2, 3>>}
MCBoth(a, b) == a & b
==============================================================================
