-------------------------------- MODULE Rmt --------------------------------
(***************************************************************************)
(* firmware/components/esp32-owb/owb_rmt.c: 1-Wire slots as pulses of the  *)
(* RMT peripheral, and the pulses it receives as bits.                     *)
(*                                                                         *)
(* A wire is the sequence of pulses seen on the line, each a low and a     *)
(* high level in microseconds. The receiver cuts it into one entry of its  *)
(* ring buffer; it stores the level it ends at with duration 0. OneWire    *)
(* keeps the two variables these operators work on: the entries waiting in *)
(* the ring buffer and the receiver's idle threshold.                      *)
(***************************************************************************)
EXTENDS Integers, Sequences

RESET      == 480        \* OW_DURATION_RESET
SLOT       == 75         \* OW_DURATION_SLOT
LOW(b)     == IF b = 1 THEN 2 ELSE 65   \* OW_DURATION_1_LOW, OW_DURATION_0_LOW
SAMPLE     == 15 - 2     \* OW_DURATION_SAMPLE
RX_IDLE    == SLOT + 2   \* OW_DURATION_RX_IDLE
RESET_IDLE == RESET + 60 \* the threshold while a reset is received
MAX_BITS   == 8          \* MAX_BITS_PER_SLOT
FOREVER    == 1000       \* a level that does not end before any threshold

Bit == {0, 1}

-----------------------------------------------------------------------------
(* What goes on the wire.                                                   *)

\* _encode_write_slot, _encode_read_slot: a slot; the last one is followed by the idle line.
Pulse(low, last) == [low |-> low, high |-> IF last THEN FOREVER ELSE SLOT - low]

\* _write_bits: the low phases of n slots, the least significant bit of out first.
WriteSlots(out, n) == [i \in 1 .. n |-> LOW((out \div 2 ^ (i - 1)) % 2)]

\* A sensor takes a slot that is low at its own sampling time, after 15 to 60 us, for a 0.
Heard(low) == IF low > 60 THEN 0 ELSE 1

\* _read_bits: read slots the sensors lengthen to answer 0 (15 us at the least, here 30).
ReadWire(bits) ==
    [i \in DOMAIN bits |-> Pulse(IF bits[i] = 1 THEN LOW(1) ELSE 30, i = Len(bits))]

\* _reset: the reset pulse, and the presence pulse that answers it.
ResetWire(answered) ==
    IF answered THEN << [low |-> RESET, high |-> 30], [low |-> 120, high |-> FOREVER] >>
    ELSE << [low |-> RESET, high |-> FOREVER] >>

\* Noise on the line turns a bit over, or runs a pulse into the next one.
NoisyWires(bits) ==
    {ReadWire([bits EXCEPT ![i] = 1 - bits[i]]) : i \in DOMAIN bits}
        \cup {ReadWire(Tail(b)) : b \in {b \in {bits} : Len(b) > 1}}

NoisyResets(answered) == {ResetWire(~answered), << [low |-> RESET + 200, high |-> FOREVER] >>}

-----------------------------------------------------------------------------
(* What the receiver makes of it.                                           *)

\* The entry for a wire, at idle threshold t: it ends at the first level longer than t.
Capture(wire, t) ==
    LET Ends(i) == wire[i].low > t \/ wire[i].high > t
        last == CHOOSE i \in DOMAIN wire : Ends(i) /\ \A j \in 1 .. i - 1 : ~Ends(j)
    IN [i \in 1 .. last |->
           [low  |-> IF wire[i].low > t THEN 0 ELSE wire[i].low,
            up   |-> wire[i].low <= t,
            high |-> IF Ends(i) THEN 0 ELSE wire[i].high]]

\* Mutant: only a reset empties the ring buffer.
FlushedNot(queue) == queue

\* onewire_flush_rmt_rx_buf
Flushed(queue) == <<>>

\* xRingbufferReceive: the oldest entry, when one comes in time.
Received(queue) == Head(queue)

\* _reset: the reset pulse, then a high level that ends, then the presence pulse (low again).
Presence(entry) ==
    /\ Len(entry) >= 1
    /\ entry[1].low >= RESET - 2
    /\ entry[1].up /\ entry[1].high > 0
    /\ 2 \in DOMAIN entry     \* rx_items[1].level0 is read without a look at rx_size

\* _read_bits: a level that rises before the sample time is a 1; a short entry is all zeros.
Bits(entry, n) ==
    [i \in 1 .. n |-> IF Len(entry) >= n /\ entry[i].up /\ entry[i].low < SAMPLE THEN 1 ELSE 0]

\* _read_bits: bits enter at the top of a byte, which is shifted down to its place at the end.
Assembled(bits) ==
    LET n == Len(bits)
        read_data[i \in 0 .. n] == IF i = 0 THEN 0 ELSE read_data[i - 1] \div 2 + 128 * bits[i]
    IN read_data[n] \div 2 ^ (8 - n)

-----------------------------------------------------------------------------
(* A call that listens, as the values it may leave: the entry its caller    *)
(* parses, or none after 100 ms, the ring buffer, whether the line was      *)
(* driven, and whether the call was disturbed.                              *)

\* rmt_rx_stop keeps an entry that comes after the timeout for the next flush.
Listen(queue, wire, t, noisy) ==
    LET q == Flushed(queue)
        Heeded(w, bad) == LET all == Append(q, Capture(w, t)) IN
            [got |-> Received(all), left |-> Tail(all), driven |-> TRUE, bad |-> bad]
        Missed(left, driven) == [got |-> <<>>, left |-> left, driven |-> driven, bad |-> TRUE]
    IN [clean     |-> {Heeded(wire, FALSE)},
        disturbed |-> {Heeded(w, TRUE) : w \in noisy}
                        \cup {Missed(q, FALSE),                         \* rmt_write_items failed
                              Missed(q, TRUE),                          \* no entry
                              Missed(Append(q, Capture(wire, t)), TRUE)}] \* a late entry
=============================================================================
