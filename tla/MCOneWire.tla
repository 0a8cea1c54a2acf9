----------------------------- MODULE MCOneWire -----------------------------
(* Codes of three bytes of two bits for four sensors, two of them of one   *)
(* family, chosen so that a disturbed search assembles no code of a sensor *)
(* that is not there; two bytes for the transfers, and room for one report *)
(* more than there are sensors.                                            *)
EXTENDS OneWire

MCSensor == {<<0, 1, 0, 1, 1, 0>>, <<0, 1, 1, 1, 1, 1>>, <<1, 0, 0, 1, 1, 1>>, <<1, 1, 0, 0, 0, 0>>}
MCByte   == {68, 190}    \* DS18B20_FUNCTION_TEMP_CONVERT, DS18B20_FUNCTION_SCRATCHPAD_READ
=============================================================================
