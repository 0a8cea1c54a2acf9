------------------------------ MODULE Ds18b20 ------------------------------
(***************************************************************************)
(* firmware/components/esp32-ds18b20/ds18b20.c: the handle of a sensor and *)
(* the sensor's scratchpad, as discover_locked, the reading cycle and      *)
(* read_sensor() of sensor.c use them; one transaction with the sensor is  *)
(* one step. SensorTask says who holds the bus: here one job follows the   *)
(* other, each finding the conversions of the one before it over.          *)
(*                                                                         *)
(* A measurement is "new" when it was started by the running job. Time is  *)
(* counted in conversions of 9 bits: n bits take 2^(n-9). The trigger      *)
(* bytes, which nothing uses, keep one value.                              *)
(***************************************************************************)
EXTENDS Crc8, FiniteSets, FiniteSetsExt

CONSTANTS
    Sensors,    \* the slots, numbered from 1, have one sensor each
    Eeprom,     \* resolutions a sensor may start with
    NoisyBits,  \* bound: the bits of a byte that noise turns over
    MaxFaults   \* bound: disturbances in one job

Resolution == 12   \* DS18B20_RESOLUTION
Resolutions == 9 .. 12
Sensor == 1 .. Sensors

ASSUME Ds18b20Assumption == Sensors \in Nat \ {0} /\ Eeprom \subseteq Resolutions /\ NoisyBits \subseteq 0 .. 7 /\ MaxFaults \in Nat

VARIABLES
    present,    \* the sensors that answer
    cfg,        \* the resolution in a sensor's scratchpad
    temp,       \* the measurement in it
    busy,       \* what is left of its conversion
    handle,     \* DS18B20_Info of a slot
    parasitic,  \* use_parasitic_power of the bus
    job,        \* what the bus is used for: nothing, a scan (that found one), a cycle, or GET /sensor
    pc,         \* the transaction to come
    todo,       \* the slots the job has still to see to
    reading,    \* what the job read of a slot
    hits        \* disturbances in the job

world == <<present, cfg, temp, busy>>
vars  == <<world, handle, parasitic, job, pc, todo, reading, hits>>

NoHandle == [res |-> 0, solo |-> FALSE, crc |-> FALSE]
Handle   == [res: Resolutions, solo: BOOLEAN, crc: BOOLEAN]
Handled  == {s \in Sensor : handle[s] # NoHandle}
cur      == Min(todo)          \* the slot the loop is at
Values   == {"poweron", "old", "new"}
Units(res) == Power[res - 8]   \* T_CONV / divisor

TypeOK ==
    /\ present \subseteq Sensor /\ cfg \in [Sensor -> Resolutions]
    /\ temp \in [Sensor -> Values] /\ busy \in [Sensor -> 0 .. Units(12)]
    /\ handle \in [Sensor -> Handle \cup {NoHandle}]
    /\ parasitic \in BOOLEAN
    /\ job \in {"none", "scan", "solo", "cycle", "http"}
    /\ pc \in {"idle", "init", "get", "write", "verify", "refresh", "power", "convert", "wait", "read"}
    /\ todo \subseteq Sensor
    /\ reading \in [Sensor -> Values \cup {"none", "error", "zero", "other"}]
    /\ hits \in 0 .. MaxFaults

-----------------------------------------------------------------------------
(* The scratchpad on the wire.                                              *)

Zeros == [i \in 1 .. 9 |-> 0]
Ones  == [i \in 1 .. 9 |-> 255]

\* The bytes of a measurement: low, high, and the reserved one, which is 12 only at power-on. New
\* measurements are of 85.0 degrees, the power-on value.
Measured(t) == CASE t = "poweron" -> <<80, 5, 12>>
                 [] t = "old" -> <<71, 1, 9>>
                 [] t = "new" -> <<80, 5, 16>>

\* A sensor's nine bytes.
Frame == [t \in Values |-> [c \in Resolutions |->
    LET m == Measured(t)
        data == <<m[1], m[2], 75, 70, (c - 9) * 32 + 31, 255, m[3], 16>>
    IN Append(data, Crc(data))]]

\* Several sensors that send at once: the line is low when one of them pulls it low.
Wired(senders) ==
    LET frames == {Frame[temp[s]][cfg[s]] : s \in senders}
        both(i, k) == IF \A f \in frames : BitOf(f[i], k) = 1 THEN 1 ELSE 0
    IN [i \in 1 .. 9 |-> ByteOf([k \in 1 .. 8 |-> both(i, k)])]

\* A disturbed transfer: a byte is missed, a bit turned over, or no byte is received at all.
Missed(f, i)    == [f EXCEPT ![i] = 0]
Turned(f, i, b) == [f EXCEPT ![i] = Xor(f[i], Power[b + 1])]
Garbled(f) ==
    {Zeros} \cup {Missed(f, i) : i \in 1 .. 9} \cup {Turned(f, i, b) : i \in 1 .. 9, b \in NoisyBits}

\* What is left to see once it is known that the CRC tells every byte received wrong: a byte of a
\* scratchpad that is missed is wrong, since none is 0, zeros pass, and the idle line does not,
\* disturbed or not.
ASSUME CrcAssumption ==
    /\ \A t \in Values, c \in Resolutions, i \in 1 .. 9 : Frame[t][c][i] # 0
    /\ Crc(Zeros) = 0 /\ Crc(Ones) # 0
    /\ \A i \in 1 .. 9 : Crc(Missed(Ones, i)) # 0 /\ \A b \in 0 .. 7 : Crc(Turned(Ones, i, b)) # 0

\* _address_device: the sensors a command through handle h reaches.
Reached(s, h) == IF h.solo THEN present ELSE present \cap {s}

\* The scratchpad as count bytes leave it in a buffer of zeros.
First(f, count) == [i \in 1 .. 9 |-> IF i <= count THEN f[i] ELSE 0]

\* Mutant: the CRC is not looked at.
ErrorOfNone(h, f) == "ok"

ErrorOf(h, f) == IF h.crc /\ Crc(f) # 0 THEN "crc" ELSE "ok"

\* _read_scratchpad through handle h of s: the buffer and the error it may leave.
Transfers(s, h, count) ==
    LET n == IF h.crc THEN 9 ELSE count
        Read(f, bad) == [buf |-> First(f, n), err |-> ErrorOf(h, First(f, n)), bad |-> bad]
        Absent(bad)  == [buf |-> Zeros, err |-> "device", bad |-> bad]
        frame == Wired(Reached(s, h))
    IN {IF present = {} THEN Absent(FALSE) ELSE Read(frame, FALSE)}
       \cup IF hits < MaxFaults
            THEN {Absent(TRUE), Read(Ones, TRUE)} \cup {Read(f, TRUE) : f \in Garbled(frame)}
            ELSE {}

Charge(bad) == hits' = IF bad THEN hits + 1 ELSE hits

\* Mutant: the bits above the field are not cut off.
ConfiguredUnmasked(buf) == 9 + (buf[5] \div 32)

\* The resolution in a configuration byte.
Configured(buf) == 9 + ((buf[5] \div 32) % 4)

-----------------------------------------------------------------------------
(* The world outside.                                                       *)

Plug(s) ==
    /\ s \notin present
    /\ job # "none" => hits < MaxFaults
    /\ present' = present \cup {s}
    /\ \E c \in Eeprom : cfg' = [cfg EXCEPT ![s] = c]
    /\ temp' = [temp EXCEPT ![s] = "poweron"]
    /\ busy' = [busy EXCEPT ![s] = 0]
    /\ Charge(job # "none")
    /\ UNCHANGED <<handle, parasitic, job, pc, todo, reading>>

Unplug(s) ==
    /\ s \in present
    /\ job # "none" => hits < MaxFaults
    /\ present' = present \ {s}
    /\ cfg' = [cfg EXCEPT ![s] = 12]
    /\ temp' = [temp EXCEPT ![s] = "poweron"]
    /\ busy' = [busy EXCEPT ![s] = 0]
    /\ Charge(job # "none")
    /\ UNCHANGED <<handle, parasitic, job, pc, todo, reading>>

Init ==
    /\ present \in SUBSET Sensor
    /\ cfg \in [Sensor -> Eeprom]
    /\ temp = [s \in Sensor |-> "poweron"] /\ busy = [s \in Sensor |-> 0]
    /\ handle = [s \in Sensor |-> NoHandle]
    /\ parasitic = FALSE
    /\ job = "none" /\ pc = "idle" /\ todo = {}
    /\ reading = [s \in Sensor |-> "none"]
    /\ hits = 0

-----------------------------------------------------------------------------
(* The second half of discover_locked.                                      *)

Start(kind, first, slots) ==
    /\ job = "none"
    /\ job' = kind /\ pc' = first /\ todo' = slots
    /\ reading' = [s \in Sensor |-> "none"]
    /\ hits' = 0
    /\ UNCHANGED <<world, handle, parasitic>>

\* The search has found the sensors that are there.
Scan == /\ present # {}
        /\ Start(IF Cardinality(present) = 1 THEN "solo" ELSE "scan", "init", present)

\* ds18b20_init, ds18b20_init_solo: the configuration is read without a CRC, and whatever became
\* of that, the buffer decides the handle's resolution. ds18b20_use_crc follows.
InitHandle ==
    /\ pc = "init" /\ pc' = "get"
    /\ LET fresh == [res |-> 9, solo |-> job = "solo", crc |-> FALSE] IN
       \E t \in Transfers(cur, fresh, 5) :
          /\ handle' = [handle EXCEPT ![cur] =
                           [res |-> Configured(t.buf), solo |-> job = "solo", crc |-> TRUE]]
          /\ Charge(t.bad)
    /\ UNCHANGED <<world, parasitic, job, todo, reading>>

\* Mutant: the field is the resolution itself.
FieldOfLate(res) == res % 4

\* ds18b20_set_resolution: the configuration field for a resolution.
FieldOf(res) == (res - 1) % 4

Written == 9 + FieldOf(Resolution)

\* ds18b20_set_resolution: the scratchpad is read, and its trigger bytes are what the sensor will
\* hold afterwards, right or wrong: the error is not looked at ...
GetPad ==
    /\ pc = "get" /\ pc' = "write"
    /\ \E t \in Transfers(cur, handle[cur], 5) : Charge(t.bad)
    /\ UNCHANGED <<world, handle, parasitic, job, todo, reading>>

\* ... bytes 3 to 5 go back with the new configuration, which a disturbed sensor does not get or
\* gets wrong ...
WritePad ==
    /\ pc = "write"
    /\ \/ /\ cfg' = [s \in Sensor |-> IF s \in Reached(cur, handle[cur]) THEN Written ELSE cfg[s]]
          /\ pc' = IF present = {} THEN "refresh" ELSE "verify"
          /\ UNCHANGED hits
       \/ /\ hits < MaxFaults /\ hits' = hits + 1
          /\ \/ UNCHANGED cfg
             \/ \E s \in present : cfg' = [cfg EXCEPT ![s] = 9]
          /\ pc' \in {"refresh", "verify"}
    /\ UNCHANGED <<present, temp, busy, handle, parasitic, job, todo, reading>>

NextHandle == /\ todo' = todo \ {cur}
              /\ pc' = IF todo = {cur} THEN "power" ELSE "init"

\* ... and are read back: the handle has the resolution it was to get, ...
VerifyPad ==
    /\ pc = "verify"
    /\ \E t \in Transfers(cur, handle[cur], 5) :
          /\ Charge(t.bad)
          /\ IF t.err = "ok" /\ \A i \in 3 .. 5 : t.buf[i] = Frame["old"][Written][i]
             THEN handle' = [handle EXCEPT ![cur].res = Resolution] /\ NextHandle
             ELSE pc' = "refresh" /\ UNCHANGED <<handle, todo>>
    /\ UNCHANGED <<world, parasitic, job, reading>>

\* ... or the one another read gives, its error not looked at either (ds18b20_read_resolution).
RefreshHandle ==
    /\ pc = "refresh"
    /\ \E t \in Transfers(cur, handle[cur], 5) :
          /\ handle' = [handle EXCEPT ![cur].res = Configured(t.buf)]
          /\ Charge(t.bad)
    /\ NextHandle
    /\ UNCHANGED <<world, parasitic, job, reading>>

Finish == job' = "none" /\ pc' = "idle" /\ todo' = {}

\* ds18b20_check_for_parasite_power: a failed reset leaves the variable false, a failed read
\* says there are such sensors; then owb_use_parasitic_power.
CheckPower ==
    /\ pc = "power"
    /\ \E wrong \in BOOLEAN :
          /\ wrong => hits < MaxFaults
          /\ Charge(wrong)
          /\ parasitic' = wrong
    /\ Finish
    /\ UNCHANGED <<world, handle, reading>>

-----------------------------------------------------------------------------
(* The reading cycle and read_sensor().                                     *)

Cycle   == Handled # {} /\ Start("cycle", "convert", Handled)
Http(s) == s \in Handled /\ Start("http", "convert", {s})

\* What the sensors in reach do at a conversion command: the last result is now an old one.
Converting(reach) ==
    /\ temp' = [s \in Sensor |-> IF temp[s] = "new" THEN "old" ELSE temp[s]]
    /\ busy' = [s \in Sensor |-> IF s \in reach THEN Units(cfg[s]) ELSE 0]

\* ds18b20_convert_all goes to all sensors and is not checked; ds18b20_convert ends read_sensor()
\* when nobody answers. Strong pull-up is not used (owb_set_strong_pullup: no such pin).
Convert ==
    /\ pc = "convert"
    /\ \/ /\ Converting(IF job = "cycle" THEN present ELSE Reached(cur, handle[cur]))
          /\ IF job # "cycle" /\ present = {}
             THEN Finish
             ELSE pc' = "wait" /\ UNCHANGED <<job, todo>>
          /\ UNCHANGED hits
       \/ /\ hits < MaxFaults /\ hits' = hits + 1
          /\ \E reach \in SUBSET present :
                /\ Converting(reach)
                /\ \/ pc' = "wait" /\ UNCHANGED <<job, todo>>
                   \/ job = "http" /\ reach = {} /\ Finish
    /\ UNCHANGED <<present, cfg, handle, parasitic, reading>>

\* Mutant: the time for nine bits does for all.
PatienceShort(h) == Units(9)

\* The time a handle's own resolution takes; the ten percent more of _wait_for_device_signal and
\* the rounding up to ticks are less than a unit.
Patience(h) == Units(h.res)

\* ds18b20_wait_for_conversion for the first handle, once for all sensors: the time it is given
\* (_wait_for_duration), or until no sensor pulls the line low (_wait_for_device_signal). A read
\* slot that is misread ends the wait.
Wait ==
    /\ pc = "wait" /\ pc' = "read"
    /\ \E spent \in {IF parasitic THEN Patience(handle[cur]) ELSE Min({Patience(handle[cur]), Max({busy[s] : s \in Sensor})})}
                    \cup (IF hits < MaxFaults /\ ~parasitic THEN {0} ELSE {}) :
          /\ busy' = [s \in Sensor |-> IF busy[s] <= spent THEN 0 ELSE busy[s] - spent]
          /\ temp' = [s \in Sensor |-> IF busy[s] \in 1 .. spent THEN "new" ELSE temp[s]]
          /\ Charge(spent = 0 /\ \E s \in Sensor : busy[s] > 0)
    /\ UNCHANGED <<present, cfg, handle, parasitic, job, todo, reading>>

\* The power-on value.
Refused(buf) == buf[7] = 12 /\ buf[1] = 80 /\ buf[2] = 5

\* _decode_temp: the bits below the handle's resolution are dropped.
Decoded(buf, res) == buf[2] * 256 + (buf[1] \div Power[13 - res]) * Power[13 - res]

\* ds18b20_read_temp, as the measurement its value stands for.
Reading(s, buf, err) ==
    LET degrees == Decoded(buf, handle[s].res) \div 16 IN
    IF err # "ok" \/ Refused(buf) THEN "error"
    ELSE CASE degrees = 0 -> "zero"
           [] degrees = 20 -> "old"
           [] degrees = 85 -> IF buf[7] = 12 THEN "poweron" ELSE "new"
           [] OTHER -> "other"

\* After the last slot the conversions still running end.
ReadTemp ==
    /\ pc = "read"
    /\ \E t \in Transfers(cur, handle[cur], 2) :
          /\ reading' = [reading EXCEPT ![cur] = Reading(cur, t.buf, t.err)]
          /\ IF todo = {cur}
             THEN /\ Finish
                  /\ temp' = [s \in Sensor |-> IF busy[s] > 0 THEN "old" ELSE temp[s]]
                  /\ busy' = [s \in Sensor |-> 0]
             ELSE /\ todo' = todo \ {cur}
                  /\ UNCHANGED <<pc, job, temp, busy>>
          /\ Charge(t.bad)
    /\ UNCHANGED <<present, cfg, handle, parasitic>>

-----------------------------------------------------------------------------
Next ==
    \/ \E s \in Sensor : Plug(s) \/ Unplug(s)
    \/ Scan \/ InitHandle \/ GetPad \/ WritePad \/ VerifyPad \/ RefreshHandle \/ CheckPower
    \/ Cycle \/ (\E s \in Sensor : Http(s)) \/ Convert \/ Wait \/ ReadTemp

Spec == Init /\ [][Next]_vars

-----------------------------------------------------------------------------
(* What sensor.c relies on.                                                 *)

\* A value from before the first conversion is never a reading, and neither is one no sensor
\* ever measured, whatever one disturbance does to the answer of one sensor: but for the 0.0
\* degrees of a line that gives nothing but zeros, which pass the CRC (_read_scratchpad,
\* ds18b20_read_temp).
ReadingsMeasured ==
    [][pc = "read" /\ Cardinality(Reached(cur, handle[cur])) < 2 =>
           reading'[cur] \notin {"poweron", "other"}]_vars

\* The slot whose handle the job waits by.
Waiter == IF job = "cycle" THEN Min(Handled) ELSE cur

\* A job nothing disturbs reads every sensor that is there and addressed alone, and reads what
\* it has just measured, 85.0 degrees too, if the handle it waits by knows the sensors' time.
FreshWhenUndisturbed ==
    [][(/\ pc = "read" /\ hits' = 0
        /\ Reached(cur, handle[cur]) = {cur}
        /\ \A s \in present : handle[Waiter].res >= cfg[s]) => reading'[cur] = "new"]_vars

\* After a scan nothing disturbs, handles and sensors agree (ds18b20_set_resolution): every
\* later wait is long enough.
HandlesAgree ==
    pc = "power" /\ hits = 0 => \A s \in present : handle[s].res = Resolution /\ cfg[s] = Resolution

-----------------------------------------------------------------------------
(* What the repository says of the driver and the code does not keep.       *)

\* ds18b20.h:166 "Wait for the maximum conversion time according to the current resolution of the
\* device": in a job nothing disturbs, the sensor of the handle waited by has finished.
WaitsForDevice ==
    [][pc = "wait" /\ hits' = 0 => busy'[cur] = 0]_vars
=============================================================================
