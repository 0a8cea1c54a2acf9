------------------------------ MODULE OneWire ------------------------------
(***************************************************************************)
(* firmware/components/esp32-owb/owb.c over the RMT driver (Rmt): the ROM  *)
(* search, one slot at a time, as discover_locked calls it, the check of   *)
(* one code, the reading of a lone sensor's code, and byte transfers.      *)
(*                                                                         *)
(* A call's status is left out: _search and the transfers ignore the one   *)
(* the driver returns. So is the CRC itself: the codes that pass it are    *)
(* the sensors' own and the zero code. See Ds18b20 for the table.          *)
(***************************************************************************)
EXTENDS Rmt, FiniteSets

CONSTANTS
    RomBytes,    \* bytes of a ROM code: 8 in the code
    ByteBits,    \* bits of each of them: 8 in the code
    Sensor,      \* the ROM codes of the sensors that may be on the bus
    MaxDevices,  \* MAX_DEVICES
    Byte,        \* the values transferred
    MaxFaults    \* bound: disturbances in one job

RomBits == ByteBits * RomBytes
Rom     == [1 .. RomBits -> Bit]
NoRom   == [i \in 1 .. RomBits |-> 0]
Family(rom) == [i \in 1 .. ByteBits |-> rom[i]]

\* The first bits of a code's bytes.
ByteStart == {1 + ByteBits * k : k \in 0 .. RomBytes - 1}

\* What one disturbance makes of a code that is read: nobody sends it, a bit is turned over, the
\* receiver dies after n bits, a byte is lost, a byte is not asked for and all that follow come late.
Flipped(s, i)    == [s EXCEPT ![i] = 1 - s[i]]
ZeroPadded(s, n) == [i \in 1 .. RomBits |-> IF i <= n THEN s[i] ELSE 0]
Lost(s, b)       == [i \in 1 .. RomBits |-> IF i \in b .. b + ByteBits - 1 THEN 0 ELSE s[i]]
Late(s, b)       == [i \in 1 .. RomBits |-> IF i < b THEN s[i] ELSE IF i < b + ByteBits THEN 0 ELSE s[i - ByteBits]]
Misread(s) ==
    {[i \in 1 .. RomBits |-> 1]} \cup {Flipped(s, i) : i \in 1 .. RomBits}
        \cup UNION {{ZeroPadded(s, b - 1), Lost(s, b), Late(s, b)} : b \in ByteStart}

\* The sensors have a family code. The CRC tells a code from the ones it is misread as: always
\* when a bit is turned over or a byte is lost, and but for one code in 256 otherwise.
ASSUME SensorAssumption ==
    /\ Sensor \subseteq Rom
    /\ \A s \in Sensor : Family(s) # Family(NoRom) /\ Misread(s) \cap Sensor \subseteq {s}
ASSUME BoundsAssumption ==
    /\ RomBytes \in Nat \ {0} /\ ByteBits \in 1 .. MAX_BITS
    /\ MaxDevices \in Nat \ {0} /\ MaxFaults \in Nat /\ Byte \subseteq 0 .. 255

CrcHolds(rom) == rom \in Sensor \cup {NoRom}

VARIABLES
    present,  \* the sensors on the bus
    rb,       \* the receiver's ring buffer
    hits,     \* disturbances in the job
    dead,     \* the receiver has stopped giving entries for the rest of the job
    on,       \* the sensors that take part in the search
    turn,     \* what they do in the next slot: send a bit, its complement, or listen
    place,    \* the bit of the code they are at
    job,      \* what the bus is used for: a scan, the check of a code, the reading of one
    pc,       \* where its call is
    st,       \* OneWireBus_SearchState
    bitno,    \* id_bit_number
    zero,     \* last_zero
    id,       \* id_bit
    dir,      \* search_direction
    target,   \* the code to be verified
    answer,   \* the code last verified or read, or NoRom
    byte,     \* the byte last read
    reports   \* the codes the scan has reported

sensors == <<on, turn, place>>
caller  == <<job, st, bitno, zero, target, answer, byte, reports>>
vars    == <<present, rb, hits, dead, sensors, pc, id, dir, caller>>

Blank  == [rom |-> NoRom, last_discrepancy |-> 0, last_device |-> FALSE]
Search == [rom: Rom, last_discrepancy: 0 .. RomBits, last_device: BOOLEAN]

TypeOK ==
    /\ present \subseteq Sensor /\ on \subseteq present
    /\ Len(rb) <= 1 /\ \A e \in {rb[i] : i \in DOMAIN rb} : e \in Seq([low: Nat, up: BOOLEAN, high: Nat])
    /\ hits \in 0 .. MaxFaults /\ dead \in BOOLEAN
    /\ turn \in {"bit", "complement", "listen"} /\ place \in 1 .. RomBits + 1
    /\ job \in {"none", "scan", "verify", "read"}
    /\ pc \in {"idle", "enter", "reset", "id", "complement", "write", "code", "check", "judge"}
    /\ st \in Search
    /\ bitno \in 1 .. RomBits + 1 /\ zero \in 0 .. RomBits
    /\ id \in Bit /\ dir \in Bit
    /\ target \in Rom /\ answer \in Rom /\ byte \in 0 .. 255
    /\ reports \in Seq(Sensor)

Init ==
    /\ present \in SUBSET Sensor
    /\ rb = <<>> /\ hits = 0 /\ dead = FALSE
    /\ on = {} /\ turn = "bit" /\ place = 1
    /\ job = "none" /\ pc = "idle"
    /\ st = Blank
    /\ bitno = 1 /\ zero = 0 /\ id = 0 /\ dir = 0
    /\ target = NoRom /\ answer = NoRom /\ byte = 0 /\ reports = <<>>

-----------------------------------------------------------------------------
(* The line and the sensors.                                                *)

\* The calls the driver may make of a wire, within the faults that are left.
Calls(wire, t, noisy) ==
    LET calls == Listen(rb, wire, t, noisy)
        Silent == {c \in calls.disturbed : c.got = <<>> /\ c.driven /\ c.left = <<>>}
    IN IF dead THEN {[c EXCEPT !.bad = FALSE] : c \in Silent}
       ELSE calls.clean \cup (IF hits < MaxFaults THEN calls.disturbed ELSE {})

Attend(c) == rb' = c.left /\ hits' = IF c.bad THEN hits + 1 ELSE hits

\* The line is low when any sensor pulls it low.
Wired(bits) == IF 0 \in bits THEN 0 ELSE 1

\* What the sensors send in the next slot.
SensorsSend ==
    IF place > RomBits \/ turn = "listen" THEN 1
    ELSE Wired({IF turn = "bit" THEN s[place] ELSE 1 - s[place] : s \in on})

\* A slot in which the master wrote b; a read slot looks like a written 1.
Slot(b) ==
    /\ turn' = IF place > RomBits THEN turn
               ELSE CASE turn = "bit" -> "complement"
                      [] turn = "complement" -> "listen"
                      [] turn = "listen" -> "bit"
    /\ IF place <= RomBits /\ turn = "listen"
       THEN /\ on' = {s \in on : s[place] = b}
            /\ place' = place + 1
       ELSE UNCHANGED <<on, place>>

ReceiverDies ==
    /\ job # "none" /\ ~dead
    /\ hits < MaxFaults
    /\ hits' = hits + 1
    /\ dead' = TRUE
    /\ UNCHANGED <<present, rb, sensors, pc, id, dir, caller>>

Rewire ==
    /\ job = "none"
    /\ present' \in SUBSET Sensor
    /\ on' = {}
    /\ UNCHANGED <<rb, hits, dead, turn, place, pc, id, dir, caller>>

-----------------------------------------------------------------------------
(* The jobs.                                                                *)

Begin(kind) ==
    /\ job = "none"
    /\ job' = kind
    /\ pc' = IF kind = "read" THEN "reset" ELSE "enter"
    /\ byte' = 0 /\ answer' = NoRom /\ reports' = <<>> /\ hits' = 0
    /\ UNCHANGED <<present, rb, dead, sensors, id, dir, bitno, zero>>

\* What a job leaves behind: the ring buffer, and its result.
Return(result) ==
    /\ job' = "none" /\ pc' = "idle"
    /\ hits' = 0 /\ dead' = FALSE
    /\ on' = {} /\ turn' = "bit" /\ place' = 1
    /\ id' = 0 /\ dir' = 0 /\ bitno' = 1 /\ zero' = 0
    /\ st' = Blank /\ target' = NoRom
    /\ answer' = result

\* owb_search_first: discover_locked starts its loop.
SearchFirst == Begin("scan") /\ st' = Blank /\ target' = NoRom

\* Mutant: the search is a first one.
VerifyFirst(rom) ==
    /\ Begin("verify")
    /\ st' = [Blank EXCEPT !.rom = rom]
    /\ target' = rom

\* owb_verify_rom: a search that follows the code to its last bit.
Verify(rom) ==
    /\ Begin("verify")
    /\ st' = [rom |-> rom, last_discrepancy |-> RomBits, last_device |-> FALSE]
    /\ target' = rom

ReadRom == Begin("read") /\ UNCHANGED <<st, target>>

\* owb_write_byte, owb_read_byte: a device sends back the byte it heard.
Transfer(v) ==
    LET sent == [i \in 1 .. MAX_BITS |-> Heard(WriteSlots(v, MAX_BITS)[i])] IN
    /\ job = "none"
    /\ \E c \in Calls(ReadWire(sent), RX_IDLE, NoisyWires(sent)) :
          /\ Attend(c)
          /\ byte' = Assembled(Bits(c.got, MAX_BITS))
    /\ UNCHANGED <<present, dead, sensors, pc, id, dir, job, st, bitno, zero, target, answer, reports>>

\* _search: nothing is left to find after the last device.
Enter ==
    /\ pc = "enter"
    /\ bitno' = 1 /\ zero' = 0
    /\ pc' = IF st.last_device THEN "judge" ELSE "reset"
    /\ UNCHANGED <<present, rb, hits, dead, sensors, id, dir, job, st, target, answer, byte, reports>>

\* The reset and the command byte after it, which one of the sensors may not make out, and none
\* gets when the driver fails to send it (_write_bits).
ResetBus ==
    /\ pc = "reset"
    /\ \E c \in Calls(ResetWire(present # {}), RESET_IDLE, NoisyResets(present # {})) :
          /\ pc' = IF ~Presence(c.got) THEN "judge" ELSE IF job = "read" THEN "code" ELSE "id"
          /\ \/ Attend(c) /\ on' = present
             \/ /\ hits < MaxFaults
                /\ Attend([c EXCEPT !.bad = TRUE])
                /\ on' \in {{}} \cup {present \ {s} : s \in present}
    /\ turn' = "bit" /\ place' = 1
    /\ UNCHANGED <<present, dead, id, dir, caller>>

\* owb_read_bit: the value is taken whatever became of the call.
ReadBit(bit) ==
    LET wire == ReadWire(<<SensorsSend>>) IN
    \E c \in Calls(wire, RX_IDLE, NoisyWires(<<SensorsSend>>)) :
        /\ Attend(c)
        /\ bit = Assembled(Bits(c.got, 1))
        /\ IF c.driven THEN Slot(1) ELSE UNCHANGED sensors

ReadId ==
    /\ pc = "id"
    /\ \E b \in Bit : ReadBit(b) /\ id' = b
    /\ pc' = "complement"
    /\ UNCHANGED <<present, dead, dir, caller>>

\* Mutant: the bit of the last discrepancy is taken from the code found before.
DirectionAgain(complement) ==
    IF id # complement THEN id
    ELSE IF bitno <= st.last_discrepancy THEN st.rom[bitno] ELSE 0

\* The branch to follow: the sensors' common bit, else before the last discrepancy the same as
\* last time, there 1, after it 0.
Direction(complement) ==
    IF id # complement THEN id
    ELSE IF bitno < st.last_discrepancy THEN st.rom[bitno]
    ELSE IF bitno = st.last_discrepancy THEN 1 ELSE 0

\* Two ones: nobody is left, the search fails. Two zeros: sensors with either bit.
ReadComplement ==
    /\ pc = "complement"
    /\ \E b \in Bit :
          /\ ReadBit(b)
          /\ IF id = 1 /\ b = 1
             THEN pc' = "judge" /\ UNCHANGED <<dir, st, zero>>
             ELSE /\ pc' = "write"
                  /\ dir' = Direction(b)
                  /\ st' = [st EXCEPT !.rom[bitno] = Direction(b)]
                  /\ zero' = IF id = b /\ Direction(b) = 0 THEN bitno ELSE zero
    /\ UNCHANGED <<present, dead, id, job, bitno, target, answer, byte, reports>>

\* owb_write_bit: sensors with the other bit drop out, but for one that mishears the slot. There
\* is no slot at all when the driver fails to send it, which _search does not see.
WriteDirection ==
    /\ pc = "write"
    /\ \/ Slot(Heard(WriteSlots(dir, 1)[1])) /\ UNCHANGED hits
       \/ hits < MaxFaults /\ hits' = hits + 1 /\ UNCHANGED sensors
       \/ /\ turn = "listen" /\ hits < MaxFaults /\ ~dead
          /\ hits' = hits + 1
          /\ \E s \in on : /\ on' = {r \in on : r[place] = dir} \cup {s}
                           /\ turn' = "bit" /\ place' = place + 1
    /\ bitno' = bitno + 1
    /\ pc' = IF bitno = RomBits THEN "judge" ELSE "id"
    /\ UNCHANGED <<present, rb, dead, id, dir, job, st, zero, target, answer, byte, reports>>

\* owb_read_rom: all sensors send their code at once, a byte a call (owb_read_bytes), ...
ReadCode ==
    LET sent == [i \in 1 .. ByteBits |-> Wired({s[place + i - 1] : s \in on})] IN
    /\ pc = "code"
    /\ \E c \in Calls(ReadWire(sent), RX_IDLE, NoisyWires(sent)) :
          LET bits == Bits(c.got, ByteBits) IN
          /\ Attend(c)
          /\ place' = IF c.driven THEN place + ByteBits ELSE place
          /\ answer' = [i \in 1 .. RomBits |->
                           IF i \in bitno .. bitno + ByteBits - 1 THEN bits[i - bitno + 1] ELSE answer[i]]
    /\ bitno' = bitno + ByteBits
    /\ pc' = IF bitno' > RomBits THEN "check" ELSE "code"
    /\ UNCHANGED <<present, dead, on, turn, id, dir, job, st, zero, target, byte, reports>>

\* ... and it is dropped when the CRC fails.
CheckCode ==
    /\ pc = "check"
    /\ Return(IF CrcHolds(answer) THEN answer ELSE NoRom)
    /\ UNCHANGED <<present, rb, byte, reports>>

\* Mutant: a code of zeros counts as a sensor's.
FoundAnything == bitno > RomBits /\ CrcHolds(st.rom)

Found ==
    /\ bitno > RomBits
    /\ CrcHolds(st.rom)
    /\ Family(st.rom) # Family(NoRom)

\* The end of _search, and what its caller does: discover_locked goes on until nothing is found
\* or its arrays are full, owb_verify_rom compares the code found.
Judge ==
    /\ pc = "judge"
    /\ IF job = "scan" /\ Found /\ Len(reports) < MaxDevices
       THEN /\ reports' = Append(reports, st.rom)
            /\ st' = [st EXCEPT !.last_discrepancy = zero, !.last_device = (zero = 0)]
            /\ pc' = "enter"
            /\ UNCHANGED <<hits, dead, sensors, id, dir, bitno, zero, job, target, answer>>
       ELSE /\ Return(IF job = "verify" /\ Found /\ st.rom = target THEN target ELSE NoRom)
            /\ UNCHANGED reports
    /\ UNCHANGED <<present, rb, byte>>

-----------------------------------------------------------------------------
Step == Enter \/ ResetBus \/ ReadId \/ ReadComplement \/ WriteDirection \/ ReadCode \/ CheckCode \/ Judge

Next ==
    \/ SearchFirst \/ (\E rom \in Sensor : Verify(rom)) \/ ReadRom
    \/ \E v \in Byte : Transfer(v)
    \/ Step
    \/ ReceiverDies \/ Rewire

\* The sensor task runs on: none of the calls waits longer than 100 ms.
Spec == Init /\ [][Next]_vars /\ WF_vars(Step)

-----------------------------------------------------------------------------
(* What the callers rely on.                                                *)

Undisturbed == hits' = hits /\ ~dead

\* What a scan promises (BusScan): the sensors on the bus and no others, whatever one
\* disturbance does to _search, each once and all of them when there is none, and an end.
Scan == INSTANCE BusScan WITH
            scanning  <- job = "scan",
            disturbed <- job = "scan" /\ hits > 0
ScanKeepsPromise == Scan!Spec

\* An answer is the answer to this call: an entry that came too late for the call before, or any
\* other left in the ring buffer, is not taken for it (_reset, _read_bits).
AnswersAreOwn ==
    [][/\ pc = "reset" /\ pc' # pc /\ Undisturbed => (pc' \in {"id", "code"} <=> present # {})
       /\ pc = "id" /\ pc' # pc /\ Undisturbed => id' = SensorsSend
       /\ pc = "idle" /\ pc' = pc /\ byte' # byte /\ Undisturbed => \E v \in Byte : Transfer(v) /\ byte' = v]_vars

\* A code is confirmed exactly when its sensor is there (owb_verify_rom), and what is read as a
\* lone sensor's code is that code or nothing, whatever one disturbance does (owb_read_rom).
CodesAreRight ==
    [][/\ job = "verify" /\ job' = "none" /\ hits = 0 => (answer' = target <=> target \in present)
       /\ job = "read" /\ job' = "none" /\ hits <= 1 =>
             \A s \in Sensor : present = {s} => answer' \in {s, NoRom}]_vars
=============================================================================
