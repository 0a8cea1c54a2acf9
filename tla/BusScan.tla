------------------------------ MODULE BusScan ------------------------------
(***************************************************************************)
(* What a scan of the 1-Wire bus promises to discover_locked (sensor.c):   *)
(* the sensors that are on the bus and no others, each once, all of them.  *)
(* A disturbance during the scan may make it end early, and makes it       *)
(* possible that a sensor is reported once more; SensorTask assumes this.  *)
(***************************************************************************)
EXTENDS Naturals, Sequences

CONSTANTS
    Sensor,      \* the sensors that may be on the bus
    MaxDevices   \* MAX_DEVICES, the reports discover_locked has room for

VARIABLES
    present,     \* the sensors on the bus
    scanning,    \* a scan is running
    disturbed,   \* it has been disturbed
    reports      \* the sensors it reported, in order

vars == <<present, scanning, disturbed, reports>>

Reported == {reports[i] : i \in DOMAIN reports}

Init ==
    /\ present \in SUBSET Sensor
    /\ scanning = FALSE
    /\ disturbed = FALSE
    /\ reports = <<>>

\* Between scans the bus is rewired, and the reports of the last one are forgotten.
Rewire ==
    /\ ~scanning
    /\ present' \in SUBSET Sensor
    /\ reports' \in {reports, <<>>}
    /\ UNCHANGED <<scanning, disturbed>>

Begin ==
    /\ ~scanning
    /\ scanning' = TRUE
    /\ reports' = <<>>
    /\ UNCHANGED <<present, disturbed>>

Disturb ==
    /\ scanning
    /\ disturbed' = TRUE
    /\ UNCHANGED <<present, scanning, reports>>

Report(s) ==
    /\ scanning
    /\ s \in present
    /\ s \in Reported => disturbed
    /\ Len(reports) < MaxDevices
    /\ reports' = Append(reports, s)
    /\ UNCHANGED <<present, scanning, disturbed>>

End ==
    /\ scanning
    /\ \/ present = Reported
       \/ Len(reports) = MaxDevices
       \/ disturbed
    /\ scanning' = FALSE
    /\ disturbed' = FALSE
    /\ UNCHANGED <<present, reports>>

Next == Rewire \/ Begin \/ Disturb \/ (\E s \in Sensor : Report(s)) \/ End

\* A scan that has begun ends.
Spec == Init /\ [][Next]_vars /\ WF_vars(End \/ \E s \in Sensor : Report(s))
=============================================================================
