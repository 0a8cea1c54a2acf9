--------------------------- MODULE MCSensorTask ---------------------------
(***************************************************************************)
(* SensorTask for TLC. Nothing in it orders the ROM codes, so permuting    *)
(* them is a symmetry of the specification and of the safety properties;   *)
(* the runs that check a liveness property do without.                     *)
(***************************************************************************)
EXTENDS SensorTask, TLC

Symmetry == Permutations(Sensor)

=============================================================================
