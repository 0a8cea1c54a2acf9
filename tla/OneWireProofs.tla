---------------------------- MODULE OneWireProofs ----------------------------
(***************************************************************************)
(* Theorems about OneWire for codes of any length, any number of sensors   *)
(* and any number of disturbances: the answers to a call are its own, a    *)
(* code is confirmed and read right, and the ROM search keeps the promise  *)
(* of BusScan.                                                             *)
(***************************************************************************)
EXTENDS OneWire, TLAPS

-----------------------------------------------------------------------------
(* Pulses and bits: what was sent is what is read.                          *)

Durations == [low: Nat, up: BOOLEAN, high: Nat]

\* A sequence of n elements, and a sequence as a function.
LEMMA Length ==
  ASSUME NEW n \in Nat, NEW S, NEW b \in [1 .. n -> S]
  PROVE  b \in Seq(S) /\ Len(b) = n /\ DOMAIN b = 1 .. n
OBVIOUS

LEMMA SequenceFunction ==
  ASSUME NEW S, NEW s \in Seq(S)
  PROVE  s \in [1 .. Len(s) -> S]
OBVIOUS

\* The entry of a read: a short pulse for each 1, a longer one for each 0, and the idle line.
LEMMA ReadCaptured ==
  ASSUME NEW n \in Nat \ {0}, NEW b \in [1 .. n -> Bit]
  PROVE  Capture(ReadWire(b), RX_IDLE) =
            [i \in 1 .. n |-> [low  |-> IF b[i] = 1 THEN 2 ELSE 30, up |-> TRUE,
                               high |-> IF i = n THEN 0 ELSE 75 - (IF b[i] = 1 THEN 2 ELSE 30)]]
<1> DEFINE wire == ReadWire(b)
           Ends(i) == wire[i].low > RX_IDLE \/ wire[i].high > RX_IDLE
<1>1. Len(b) = n /\ DOMAIN b = 1 .. n
  BY Length
<1>2. /\ DOMAIN wire = 1 .. n
      /\ \A i \in 1 .. n : /\ wire[i].low = (IF b[i] = 1 THEN 2 ELSE 30)
                           /\ wire[i].high = (IF i = n THEN 1000 ELSE 75 - (IF b[i] = 1 THEN 2 ELSE 30))
  BY <1>1 DEF ReadWire, Pulse, LOW, SLOT, FOREVER
<1> HIDE DEF wire
<1>3. \A i \in 1 .. n : Ends(i) <=> i = n
  BY <1>2 DEF RX_IDLE, SLOT
<1> HIDE DEF Ends
<1>4. (CHOOSE i \in DOMAIN wire : Ends(i) /\ \A j \in 1 .. i - 1 : ~Ends(j)) = n
  BY <1>2, <1>3
<1>5. Capture(wire, RX_IDLE) = [i \in 1 .. n |->
           [low |-> IF wire[i].low > RX_IDLE THEN 0 ELSE wire[i].low,
            up |-> wire[i].low <= RX_IDLE,
            high |-> IF Ends(i) THEN 0 ELSE wire[i].high]]
  BY <1>4 DEF Capture, Ends
<1>6. \A i \in 1 .. n : [low |-> IF wire[i].low > RX_IDLE THEN 0 ELSE wire[i].low,
            up |-> wire[i].low <= RX_IDLE,
            high |-> IF Ends(i) THEN 0 ELSE wire[i].high] = [low  |-> IF b[i] = 1 THEN 2 ELSE 30, up |-> TRUE,
                               high |-> IF i = n THEN 0 ELSE 75 - (IF b[i] = 1 THEN 2 ELSE 30)]
  <2> TAKE i \in 1 .. n
  <2>1. ~(wire[i].low > RX_IDLE) /\ (wire[i].low <= RX_IDLE) = TRUE
    BY <1>2 DEF RX_IDLE, SLOT
  <2>2. (IF wire[i].low > RX_IDLE THEN 0 ELSE wire[i].low) = (IF b[i] = 1 THEN 2 ELSE 30)
    BY <1>2, <2>1
  <2>3. (IF Ends(i) THEN 0 ELSE wire[i].high) = (IF i = n THEN 0 ELSE 75 - (IF b[i] = 1 THEN 2 ELSE 30))
    BY <1>2, <1>3
  <2> QED BY <2>1, <2>2, <2>3, Zenon
<1> QED
  BY <1>5, <1>6 DEF wire

\* _read_bits makes of it the bits that were sent ...
LEMMA BitsRead ==
  ASSUME NEW n \in Nat \ {0}, NEW b \in [1 .. n -> Bit]
  PROVE  Bits(Capture(ReadWire(b), RX_IDLE), n) = b
<1> DEFINE entry == Capture(ReadWire(b), RX_IDLE)
<1>1. /\ entry = [i \in 1 .. n |-> [low  |-> IF b[i] = 1 THEN 2 ELSE 30, up |-> TRUE,
                               high |-> IF i = n THEN 0 ELSE 75 - (IF b[i] = 1 THEN 2 ELSE 30)]]
  BY ReadCaptured
<1> HIDE DEF entry
<1>2. Len(entry) = n
  BY <1>1
<1>3. \A i \in 1 .. n : entry[i].up = TRUE /\ entry[i].low = (IF b[i] = 1 THEN 2 ELSE 30)
  BY <1>1
<1>4. \A i \in 1 .. n : (IF Len(entry) >= n /\ entry[i].up /\ entry[i].low < SAMPLE THEN 1 ELSE 0) = b[i]
  BY <1>2, <1>3 DEF SAMPLE, Bit
<1>5. Bits(entry, n) = [i \in 1 .. n |-> b[i]]
  BY <1>4 DEF Bits
<1> QED
  BY <1>5 DEF entry

\* ... and bits of whatever it is given, zeros of nothing.
LEMMA BitsType ==
  ASSUME NEW entry, NEW n \in Nat PROVE Bits(entry, n) \in [1 .. n -> Bit]
BY DEF Bits, Bit

LEMMA NothingRead ==
  ASSUME NEW n \in Nat \ {0} PROVE Bits(<<>>, n) = [i \in 1 .. n |-> 0]
BY DEF Bits

\* One bit, shifted in at the top of the byte and down again, is itself ...
LEMMA AssembledBit ==
  ASSUME NEW b \in [1 .. 1 -> Bit] PROVE Assembled(b) = b[1]
<1>1. Len(b) = 1
  BY Length
<1> DEFINE read_data == CHOOSE f : f = [i \in 0 .. 1 |-> IF i = 0 THEN 0 ELSE f[i - 1] \div 2 + 128 * b[i]]
<1>2. Assembled(b) = read_data[1] \div 2 ^ (8 - 1)
  BY <1>1 DEF Assembled
<1>3. read_data = [i \in 0 .. 1 |-> IF i = 0 THEN 0 ELSE read_data[i - 1] \div 2 + 128 * b[i]]
  <2> DEFINE g == [i \in 0 .. 1 |-> IF i = 0 THEN 0 ELSE 128 * b[1]]
  <2>1. g = [i \in 0 .. 1 |-> IF i = 0 THEN 0 ELSE g[i - 1] \div 2 + 128 * b[i]]
    BY DEF Bit
  <2> QED BY <2>1, Zenon
<1> HIDE DEF read_data
<1>4. read_data[0] = 0 /\ read_data[1] = read_data[0] \div 2 + 128 * b[1]
  BY <1>3
<1>5. read_data[1] = 128 * b[1]
  BY <1>4 DEF Bit
<1>6. 2 ^ (8 - 1) = 128
  OBVIOUS
<1> QED
  BY <1>2, <1>5, <1>6 DEF Bit

\* ... and eight of them are the byte they are the digits of.
ByteOf(b) == b[1] + 2 * b[2] + 4 * b[3] + 8 * b[4] + 16 * b[5] + 32 * b[6] + 64 * b[7] + 128 * b[8]

LEMMA AssembledByte ==
  ASSUME NEW b \in [1 .. 8 -> Bit] PROVE Assembled(b) = ByteOf(b)
<1>1. Len(b) = 8
  BY Length
<1> DEFINE d1 == 128 * b[1]
           d2 == 64 * b[1] + 128 * b[2]
           d3 == 32 * b[1] + 64 * b[2] + 128 * b[3]
           d4 == 16 * b[1] + 32 * b[2] + 64 * b[3] + 128 * b[4]
           d5 == 8 * b[1] + 16 * b[2] + 32 * b[3] + 64 * b[4] + 128 * b[5]
           d6 == 4 * b[1] + 8 * b[2] + 16 * b[3] + 32 * b[4] + 64 * b[5] + 128 * b[6]
           d7 == 2 * b[1] + 4 * b[2] + 8 * b[3] + 16 * b[4] + 32 * b[5] + 64 * b[6] + 128 * b[7]
           d8 == ByteOf(b)
           g  == [i \in 0 .. 8 |-> IF i = 0 THEN 0 ELSE IF i = 1 THEN d1 ELSE IF i = 2 THEN d2 ELSE IF i = 3 THEN d3
                                   ELSE IF i = 4 THEN d4 ELSE IF i = 5 THEN d5 ELSE IF i = 6 THEN d6
                                   ELSE IF i = 7 THEN d7 ELSE d8]
<1> DEFINE read_data == CHOOSE f : f = [i \in 0 .. 8 |-> IF i = 0 THEN 0 ELSE f[i - 1] \div 2 + 128 * b[i]]
<1>2. Assembled(b) = read_data[8] \div 2 ^ (8 - 8)
  BY <1>1 DEF Assembled
<1>b. \A i \in 1 .. 8 : b[i] \in 0 .. 1
  BY DEF Bit
<1>3. g = [i \in 0 .. 8 |-> IF i = 0 THEN 0 ELSE g[i - 1] \div 2 + 128 * b[i]]
  <2>0. /\ d1 = 0 \div 2 + 128 * b[1]
        /\ d2 = d1 \div 2 + 128 * b[2] /\ d3 = d2 \div 2 + 128 * b[3] /\ d4 = d3 \div 2 + 128 * b[4]
        /\ d5 = d4 \div 2 + 128 * b[5] /\ d6 = d5 \div 2 + 128 * b[6] /\ d7 = d6 \div 2 + 128 * b[7]
        /\ d8 = d7 \div 2 + 128 * b[8]
    BY <1>b DEF ByteOf
  <2> HIDE DEF d1, d2, d3, d4, d5, d6, d7, d8
  <2>1. /\ g[0] = 0 /\ g[1] = d1 /\ g[2] = d2 /\ g[3] = d3 /\ g[4] = d4 /\ g[5] = d5
        /\ g[6] = d6 /\ g[7] = d7 /\ g[8] = d8
    <3> HIDE <1>b, <2>0
    <3> QED OBVIOUS
  <2>2. \A i \in 0 .. 8 : g[i] = IF i = 0 THEN 0 ELSE g[i - 1] \div 2 + 128 * b[i]
    <3> HIDE DEF g
    <3> TAKE i \in 0 .. 8
    <3>0. CASE i = 0
      BY <3>0, <2>1
    <3>1. CASE i = 1
      <4>1. g[i] = d1 /\ g[i - 1] = 0
        BY <3>1, <2>1
      <4>2. d1 = 0 \div 2 + 128 * b[i]
        BY <3>1, <2>0
      <4> QED BY <3>1, <4>1, <4>2
    <3>2. CASE i = 2
      <4>1. g[i] = d2 /\ g[i - 1] = d1
        BY <3>2, <2>1
      <4>2. d2 = d1 \div 2 + 128 * b[i]
        BY <3>2, <2>0
      <4> QED BY <3>2, <4>1, <4>2
    <3>3. CASE i = 3
      <4>1. g[i] = d3 /\ g[i - 1] = d2
        BY <3>3, <2>1
      <4>2. d3 = d2 \div 2 + 128 * b[i]
        BY <3>3, <2>0
      <4> QED BY <3>3, <4>1, <4>2
    <3>4. CASE i = 4
      <4>1. g[i] = d4 /\ g[i - 1] = d3
        BY <3>4, <2>1
      <4>2. d4 = d3 \div 2 + 128 * b[i]
        BY <3>4, <2>0
      <4> QED BY <3>4, <4>1, <4>2
    <3>5. CASE i = 5
      <4>1. g[i] = d5 /\ g[i - 1] = d4
        BY <3>5, <2>1
      <4>2. d5 = d4 \div 2 + 128 * b[i]
        BY <3>5, <2>0
      <4> QED BY <3>5, <4>1, <4>2
    <3>6. CASE i = 6
      <4>1. g[i] = d6 /\ g[i - 1] = d5
        BY <3>6, <2>1
      <4>2. d6 = d5 \div 2 + 128 * b[i]
        BY <3>6, <2>0
      <4> QED BY <3>6, <4>1, <4>2
    <3>7. CASE i = 7
      <4>1. g[i] = d7 /\ g[i - 1] = d6
        BY <3>7, <2>1
      <4>2. d7 = d6 \div 2 + 128 * b[i]
        BY <3>7, <2>0
      <4> QED BY <3>7, <4>1, <4>2
    <3>8. CASE i = 8
      <4>1. g[i] = d8 /\ g[i - 1] = d7
        BY <3>8, <2>1
      <4>2. d8 = d7 \div 2 + 128 * b[i]
        BY <3>8, <2>0
      <4> QED BY <3>8, <4>1, <4>2
    <3> QED BY <3>0, <3>1, <3>2, <3>3, <3>4, <3>5, <3>6, <3>7, <3>8
  <2>3. g = [i \in 0 .. 8 |-> g[i]]
    OBVIOUS
  <2> HIDE DEF g
  <2> QED BY <2>2, <2>3
<1>4. read_data = [i \in 0 .. 8 |-> IF i = 0 THEN 0 ELSE read_data[i - 1] \div 2 + 128 * b[i]]
  <2> HIDE DEF g
  <2> QED BY <1>3, Zenon
<1> HIDE DEF read_data, g, d1, d2, d3, d4, d5, d6, d7, d8
<1>5. read_data[8] = ByteOf(b)
  <2>0. read_data[0] = 0
    BY <1>4
  <2>1. read_data[1] = 128 * b[1]
    <3>1. read_data[1] = read_data[0] \div 2 + 128 * b[1]
      BY <1>4
    <3> QED BY <1>b, <2>0, <3>1
  <2>2. read_data[2] = 64 * b[1] + 128 * b[2]
    <3>1. read_data[2] = read_data[1] \div 2 + 128 * b[2]
      BY <1>4
    <3> QED BY <1>b, <2>1, <3>1
  <2>3. read_data[3] = 32 * b[1] + 64 * b[2] + 128 * b[3]
    <3>1. read_data[3] = read_data[2] \div 2 + 128 * b[3]
      BY <1>4
    <3> QED BY <1>b, <2>2, <3>1
  <2>4. read_data[4] = 16 * b[1] + 32 * b[2] + 64 * b[3] + 128 * b[4]
    <3>1. read_data[4] = read_data[3] \div 2 + 128 * b[4]
      BY <1>4
    <3> QED BY <1>b, <2>3, <3>1
  <2>5. read_data[5] = 8 * b[1] + 16 * b[2] + 32 * b[3] + 64 * b[4] + 128 * b[5]
    <3>1. read_data[5] = read_data[4] \div 2 + 128 * b[5]
      BY <1>4
    <3> QED BY <1>b, <2>4, <3>1
  <2>6. read_data[6] = 4 * b[1] + 8 * b[2] + 16 * b[3] + 32 * b[4] + 64 * b[5] + 128 * b[6]
    <3>1. read_data[6] = read_data[5] \div 2 + 128 * b[6]
      BY <1>4
    <3> QED BY <1>b, <2>5, <3>1
  <2>7. read_data[7] = 2 * b[1] + 4 * b[2] + 8 * b[3] + 16 * b[4] + 32 * b[5] + 64 * b[6] + 128 * b[7]
    <3>1. read_data[7] = read_data[6] \div 2 + 128 * b[7]
      BY <1>4
    <3> QED BY <1>b, <2>6, <3>1
  <2>8. read_data[8] = ByteOf(b)
    <3>1. read_data[8] = read_data[7] \div 2 + 128 * b[8]
      BY <1>4
    <3> QED BY <1>b, <2>7, <3>1 DEF ByteOf
  <2> QED BY <2>8
<1>7. 2 ^ (8 - 8) = 1
  OBVIOUS
<1>8. ByteOf(b) \in Int
  BY <1>b DEF ByteOf
<1> QED
  BY <1>2, <1>5, <1>7, <1>8

\* owb_write_byte sends the digits of the byte, and a device hears them.
LEMMA ByteHeard ==
  ASSUME NEW v \in 0 .. 255
  PROVE  LET sent == [i \in 1 .. MAX_BITS |-> Heard(WriteSlots(v, MAX_BITS)[i])]
         IN  sent \in [1 .. 8 -> Bit] /\ ByteOf(sent) = v
<1> DEFINE sent == [i \in 1 .. MAX_BITS |-> Heard(WriteSlots(v, MAX_BITS)[i])]
<1>1. sent \in [1 .. 8 -> Bit]
  BY DEF Heard, MAX_BITS, Bit
<1>2. /\ sent[1] = v % 2 /\ sent[2] = (v \div 2) % 2 /\ sent[3] = (v \div 4) % 2 /\ sent[4] = (v \div 8) % 2
      /\ sent[5] = (v \div 16) % 2 /\ sent[6] = (v \div 32) % 2 /\ sent[7] = (v \div 64) % 2 /\ sent[8] = (v \div 128) % 2
  <2>1. \A i \in 1 .. 8 : sent[i] = (v \div 2 ^ (i - 1)) % 2
    <3> TAKE i \in 1 .. 8
    <3> DEFINE x == (v \div 2 ^ (i - 1)) % 2
    <3>1. sent[i] = Heard(LOW(x))
      BY DEF WriteSlots, MAX_BITS
    <3>2. x \in 0 .. 1
      <4>1. v \div 2 ^ (i - 1) \in Int
        <5>1. 2 ^ (i - 1) \in Nat \ {0}
          <6>1. 2 ^ (1 - 1) = 1 /\ 2 ^ (2 - 1) = 2 /\ 2 ^ (3 - 1) = 4 /\ 2 ^ (4 - 1) = 8 /\ 2 ^ (5 - 1) = 16 /\ 2 ^ (6 - 1) = 32 /\ 2 ^ (7 - 1) = 64 /\ 2 ^ (8 - 1) = 128
            OBVIOUS
          <6>2. CASE i = 1
            BY <6>2
          <6>3. CASE i = 2
            BY <6>3
          <6>4. CASE i = 3
            BY <6>4
          <6>5. CASE i = 4
            BY <6>5
          <6>6. CASE i = 5
            BY <6>6
          <6>7. CASE i = 6
            BY <6>7
          <6>8. CASE i = 7
            BY <6>8
          <6>9. CASE i = 8
            BY <6>9
          <6> QED BY <6>2, <6>3, <6>4, <6>5, <6>6, <6>7, <6>8, <6>9
        <5> QED BY <5>1
      <4> QED BY <4>1
    <3> HIDE DEF x
    <3>3. Heard(LOW(x)) = x
      BY <3>2 DEF Heard, LOW
    <3> QED BY <3>1, <3>3 DEF x
  <2>2. 2 ^ (1 - 1) = 1 /\ 2 ^ (2 - 1) = 2 /\ 2 ^ (3 - 1) = 4 /\ 2 ^ (4 - 1) = 8 /\ 2 ^ (5 - 1) = 16 /\ 2 ^ (6 - 1) = 32 /\ 2 ^ (7 - 1) = 64 /\ 2 ^ (8 - 1) = 128
    OBVIOUS
  <2>3. v \div 1 = v
    OBVIOUS
  <2> HIDE DEF sent
  <2> QED BY <2>1, <2>2, <2>3
<1> HIDE DEF sent
<1>3. ByteOf(sent) = v
  BY <1>2 DEF ByteOf
<1> QED BY <1>1, <1>3 DEF sent


-----------------------------------------------------------------------------
(* The calls the driver makes: clean, disturbed, and to a dead receiver.    *)

\* What a receiver with idle threshold t makes of the wire has last items.
EndsAt(wire, t, last) ==
  \E n \in Nat :
     /\ wire \in [1 .. n -> [low: Nat, high: Nat]] /\ last \in 1 .. n /\ t \in Nat
     /\ \A i \in 1 .. last : (wire[i].low > t \/ wire[i].high > t) <=> i = last

\* The levels of an entry for a wire.
LevelsOf(entry, wire, t, last) ==
  \A i \in 1 .. last : /\ entry[i].low = (IF wire[i].low > t THEN 0 ELSE wire[i].low)
                       /\ entry[i].up = (wire[i].low <= t)
                       /\ entry[i].high = (IF i = last THEN 0 ELSE wire[i].high)

LEMMA Captured ==
  ASSUME NEW wire, NEW t, NEW last, EndsAt(wire, t, last)
  PROVE  /\ Capture(wire, t) \in Seq(Durations) /\ Len(Capture(wire, t)) = last
         /\ LevelsOf(Capture(wire, t), wire, t, last)
<1> DEFINE Ends(i) == wire[i].low > t \/ wire[i].high > t
<1>0. PICK n \in Nat :
     /\ wire \in [1 .. n -> [low: Nat, high: Nat]] /\ last \in 1 .. n /\ t \in Nat
     /\ \A i \in 1 .. last : (wire[i].low > t \/ wire[i].high > t) <=> i = last
  BY DEF EndsAt
<1>1. \A i \in 1 .. last : Ends(i) <=> i = last
  BY <1>0
<1> HIDE DEF Ends
<1>2. (CHOOSE i \in DOMAIN wire : Ends(i) /\ \A j \in 1 .. i - 1 : ~Ends(j)) = last
  <2>1. Ends(last) /\ \A j \in 1 .. last - 1 : ~Ends(j)
    BY <1>0, <1>1
  <2>2. \A i \in DOMAIN wire : Ends(i) /\ (\A j \in 1 .. i - 1 : ~Ends(j)) => i = last
    BY <1>0, <1>1
  <2>3. last \in DOMAIN wire
    BY <1>0
  <2> QED BY <2>1, <2>2, <2>3
<1> DEFINE e == [i \in 1 .. last |->
           [low |-> IF wire[i].low > t THEN 0 ELSE wire[i].low,
            up |-> wire[i].low <= t,
            high |-> IF Ends(i) THEN 0 ELSE wire[i].high]]
<1>3. Capture(wire, t) = e
  BY <1>2 DEF Capture, Ends
<1>4. \A i \in 1 .. last : wire[i].low \in Nat /\ wire[i].high \in Nat
  BY <1>0
<1>5. e \in [1 .. last -> Durations]
  BY <1>0, <1>4 DEF Durations
<1>6. e \in Seq(Durations) /\ Len(e) = last
  BY <1>0, <1>5, Length
<1>7. \A i \in 1 .. last : e[i] = [low |-> IF wire[i].low > t THEN 0 ELSE wire[i].low, up |-> wire[i].low <= t,
                                  high |-> IF i = last THEN 0 ELSE wire[i].high]
  BY <1>1
<1> HIDE DEF e
<1>8. /\ Capture(wire, t) \in [1 .. last -> Durations]
      /\ Capture(wire, t) \in Seq(Durations) /\ Len(Capture(wire, t)) = last
  BY <1>3, <1>5, <1>6
<1>9. \A i \in 1 .. last :
               /\ Capture(wire, t)[i].low = (IF wire[i].low > t THEN 0 ELSE wire[i].low)
               /\ Capture(wire, t)[i].up = (wire[i].low <= t)
               /\ Capture(wire, t)[i].high = (IF i = last THEN 0 ELSE wire[i].high)
  <2> TAKE i \in 1 .. last
  <2>1. Capture(wire, t)[i] = [low |-> IF wire[i].low > t THEN 0 ELSE wire[i].low, up |-> wire[i].low <= t,
                                  high |-> IF i = last THEN 0 ELSE wire[i].high]
    BY <1>3, <1>7, Zenon
  <2>2. \A x, y, z : LET r == [low |-> x, up |-> y, high |-> z] IN r.low = x /\ r.up = y /\ r.high = z
    OBVIOUS
  <2> DEFINE x == IF wire[i].low > t THEN 0 ELSE wire[i].low
             y == wire[i].low <= t
             z == IF i = last THEN 0 ELSE wire[i].high
  <2>3. Capture(wire, t)[i] = [low |-> x, up |-> y, high |-> z]
    BY <2>1, Zenon
  <2> HIDE DEF x, y, z
  <2>4. Capture(wire, t)[i].low = x /\ Capture(wire, t)[i].up = y /\ Capture(wire, t)[i].high = z
    BY <2>3, <2>2
  <2> QED BY <2>4 DEF x, y, z
<1> QED
  BY <1>8, <1>9, Zenon DEF LevelsOf

\* What one call can be: the entry for the wire, the one for a noisy wire, none.
LEMMA CallsMade ==
  ASSUME NEW wire, NEW t, NEW noisy, NEW c \in Calls(wire, t, noisy)
  PROVE  /\ c = [got |-> c.got, left |-> c.left, driven |-> c.driven, bad |-> c.bad]
         /\ c.driven \in BOOLEAN /\ c.bad \in BOOLEAN
         /\ c.bad => hits < MaxFaults /\ ~dead
         /\ dead => c.got = <<>> /\ c.left = <<>> /\ c.driven
         /\ ~c.bad /\ ~dead => c.got = Capture(wire, t) /\ c.left = <<>> /\ c.driven
         /\ c.bad => (c.left = <<>> /\ c.driven /\ \E w \in noisy : c.got = Capture(w, t))
                     \/ (c.got = <<>> /\ (c.left = <<>> \/ c.left = <<Capture(wire, t)>>))
<1>1. \A e : Append(<<>>, e) = <<e>> /\ Head(<<e>>) = e /\ Tail(<<e>>) = <<>>
  OBVIOUS
<1> DEFINE Heeded(w, bad) == [got |-> Capture(w, t), left |-> <<>>, driven |-> TRUE, bad |-> bad]
           Missed(left, driven) == [got |-> <<>>, left |-> left, driven |-> driven, bad |-> TRUE]
           clean == {Heeded(wire, FALSE)}
           disturbed == {Heeded(w, TRUE) : w \in noisy}
                          \cup {Missed(<<>>, FALSE), Missed(<<>>, TRUE), Missed(<<Capture(wire, t)>>, TRUE)}
           Silent == {d \in disturbed : d.got = <<>> /\ d.driven /\ d.left = <<>>}
<1>2. Listen(rb, wire, t, noisy) = [clean |-> clean, disturbed |-> disturbed]
  <2> DEFINE raw(w, bad) == [got |-> Head(Append(<<>>, Capture(w, t))), left |-> Tail(Append(<<>>, Capture(w, t))),
                             driven |-> TRUE, bad |-> bad]
  <2>1. Listen(rb, wire, t, noisy) =
           [clean |-> {raw(wire, FALSE)},
            disturbed |-> {raw(w, TRUE) : w \in noisy}
                            \cup {Missed(<<>>, FALSE), Missed(<<>>, TRUE), Missed(Append(<<>>, Capture(wire, t)), TRUE)}]
    BY Zenon DEF Listen, Flushed, Received
  <2>2. \A w, bad : raw(w, bad) = Heeded(w, bad)
    BY <1>1, Zenon
  <2>3. Append(<<>>, Capture(wire, t)) = <<Capture(wire, t)>>
    BY <1>1, Zenon
  <2> HIDE DEF raw, Heeded, Missed
  <2>4. {raw(w, TRUE) : w \in noisy} = {Heeded(w, TRUE) : w \in noisy}
    BY <2>2
  <2> QED BY <2>1, <2>2, <2>3, <2>4, Zenon
<1>3. c \in IF dead THEN {[d EXCEPT !.bad = FALSE] : d \in Silent}
             ELSE clean \cup (IF hits < MaxFaults THEN disturbed ELSE {})
  <2>1. Listen(rb, wire, t, noisy).clean = clean /\ Listen(rb, wire, t, noisy).disturbed = disturbed
    <3> HIDE DEF clean, disturbed
    <3> QED BY <1>2
  <2> HIDE DEF clean, disturbed
  <2> QED BY <2>1, Zenon DEF Calls
<1>4. \A d \in disturbed : (\E w \in noisy : d = Heeded(w, TRUE)) \/ (\E left, driven : d = Missed(left, driven) /\ driven \in BOOLEAN /\ left \in {<<>>, <<Capture(wire, t)>>})
  BY Zenon
<1> HIDE DEF disturbed, clean
<1>5. CASE dead
  <2>1. PICK d \in Silent : c = [d EXCEPT !.bad = FALSE]
    BY <1>3, <1>5
  <2>2. d.got = <<>> /\ d.driven /\ d.left = <<>> /\ d \in disturbed
    BY <2>1
  <2>3. d = [got |-> d.got, left |-> d.left, driven |-> d.driven, bad |-> d.bad]
    BY <2>2, <1>4
  <2>4. c = [got |-> <<>>, left |-> <<>>, driven |-> d.driven, bad |-> FALSE]
    BY <2>1, <2>2, <2>3
  <2> QED BY <1>5, <2>4, <2>2
<1>6. CASE ~dead /\ c \in clean
  <2>1. c = Heeded(wire, FALSE)
    BY <1>6 DEF clean
  <2> QED BY <1>6, <2>1
<1>7. CASE ~dead /\ c \in disturbed /\ hits < MaxFaults
  <2>1. CASE \E w \in noisy : c = Heeded(w, TRUE)
    BY <2>1, <1>7
  <2>2. CASE \E left, driven : c = Missed(left, driven) /\ driven \in BOOLEAN /\ left \in {<<>>, <<Capture(wire, t)>>}
    BY <2>2, <1>7
  <2> QED BY <2>1, <2>2, <1>7, <1>4
<1> QED
  BY <1>3, <1>5, <1>6, <1>7

\* _reset finds the presence pulse exactly when a sensor sends one.
LEMMA ResetCaptured ==
  ASSUME NEW a \in BOOLEAN
  PROVE  /\ Capture(ResetWire(a), RESET_IDLE) \in Seq(Durations)
         /\ Presence(Capture(ResetWire(a), RESET_IDLE)) <=> a
<1>1. CASE a
  <2> DEFINE wire == ResetWire(a)
             e == Capture(wire, RESET_IDLE)
  <2>1. /\ wire \in [1 .. 2 -> [low: Nat, high: Nat]]
        /\ wire[1].low = 480 /\ wire[1].high = 30 /\ wire[2].low = 120 /\ wire[2].high = 1000
    BY <1>1 DEF ResetWire, RESET, FOREVER
  <2> HIDE DEF wire
  <2>2. EndsAt(wire, RESET_IDLE, 2)
    BY <2>1 DEF EndsAt, RESET_IDLE, RESET
  <2>3. /\ e \in Seq(Durations) /\ Len(e) = 2
        /\ LevelsOf(e, wire, RESET_IDLE, 2)
    BY <2>2, Captured, Zenon
  <2> HIDE DEF e
  <2>4. e[1].low = 480 /\ e[1].high = 30
    BY <2>1, <2>3 DEF RESET_IDLE, RESET, LevelsOf
  <2>5. e[1].up
    <3>1. (wire[1].low <= RESET_IDLE) = TRUE /\ 1 \in 1 .. 2
      BY <2>1 DEF RESET_IDLE, RESET
    <3> QED BY <3>1, <2>3, Zenon DEF LevelsOf
  <2>6. DOMAIN e = 1 .. 2
    BY <2>3
  <2>7. Presence(e)
    BY <2>3, <2>4, <2>5, <2>6 DEF Presence, RESET
  <2> QED BY <1>1, <2>3, <2>7 DEF e, wire
<1>2. CASE ~a
  <2> DEFINE wire == ResetWire(a)
             e == Capture(wire, RESET_IDLE)
  <2>1. /\ wire \in [1 .. 1 -> [low: Nat, high: Nat]]
        /\ wire[1].low = 480 /\ wire[1].high = 1000
    BY <1>2 DEF ResetWire, RESET, FOREVER
  <2> HIDE DEF wire
  <2>2. EndsAt(wire, RESET_IDLE, 1)
    BY <2>1 DEF EndsAt, RESET_IDLE, RESET
  <2>3. e \in Seq(Durations) /\ Len(e) = 1
    BY <2>2, Captured, Zenon
  <2> HIDE DEF e
  <2>4. ~Presence(e)
    BY <2>3 DEF Presence
  <2> QED BY <1>2, <2>3, <2>4 DEF e, wire
<1> QED
  BY <1>1, <1>2

LEMMA NoisyResetCaptured ==
  ASSUME NEW a \in BOOLEAN, NEW w \in NoisyResets(a)
  PROVE  Capture(w, RESET_IDLE) \in Seq(Durations)
<1>1. (~a) \in BOOLEAN
  OBVIOUS
<1>2. CASE w = ResetWire(~a)
  BY <1>1, <1>2, ResetCaptured
<1>3. CASE w = << [low |-> RESET + 200, high |-> FOREVER] >>
  <2>1. w \in [1 .. 1 -> [low: Nat, high: Nat]] /\ w[1].low = 680 /\ w[1].high = 1000
    BY <1>3 DEF RESET, FOREVER
  <2>2. EndsAt(w, RESET_IDLE, 1)
    BY <2>1 DEF EndsAt, RESET_IDLE, RESET
  <2> QED BY <2>2, Captured, Zenon
<1> QED
  BY <1>2, <1>3 DEF NoisyResets

LEMMA ReadCapturedType ==
  ASSUME NEW n \in Nat \ {0}, NEW b \in [1 .. n -> Bit]
  PROVE  Capture(ReadWire(b), RX_IDLE) \in Seq(Durations) /\ Len(Capture(ReadWire(b), RX_IDLE)) = n
<1> DEFINE e == [i \in 1 .. n |-> [low  |-> IF b[i] = 1 THEN 2 ELSE 30, up |-> TRUE,
                               high |-> IF i = n THEN 0 ELSE 75 - (IF b[i] = 1 THEN 2 ELSE 30)]]
<1>1. e \in [1 .. n -> Durations]
  BY DEF Durations
<1>2. Capture(ReadWire(b), RX_IDLE) = e
  BY ReadCaptured
<1> HIDE DEF e
<1> QED
  BY <1>1, <1>2, Length

\* Noise turns over a bit or leaves an entry too short to be read.
LEMMA NoisyWire ==
  ASSUME NEW n \in Nat \ {0}, NEW b \in [1 .. n -> Bit], NEW w \in NoisyWires(b)
  PROVE  /\ Capture(w, RX_IDLE) \in Seq(Durations)
         /\ \/ \E i \in 1 .. n : Bits(Capture(w, RX_IDLE), n) = [b EXCEPT ![i] = 1 - b[i]]
            \/ Bits(Capture(w, RX_IDLE), n) = [i \in 1 .. n |-> 0]
<1>0. Len(b) = n /\ DOMAIN b = 1 .. n /\ b \in Seq(Bit)
  BY Length
<1>1. \/ \E i \in 1 .. n : w = ReadWire([b EXCEPT ![i] = 1 - b[i]])
      \/ n > 1 /\ w = ReadWire(Tail(b))
  BY <1>0 DEF NoisyWires
<1>2. ASSUME NEW i \in 1 .. n, w = ReadWire([b EXCEPT ![i] = 1 - b[i]])
      PROVE  Capture(w, RX_IDLE) \in Seq(Durations) /\ Bits(Capture(w, RX_IDLE), n) = [b EXCEPT ![i] = 1 - b[i]]
  <2>1. [b EXCEPT ![i] = 1 - b[i]] \in [1 .. n -> Bit]
    BY DEF Bit
  <2> QED BY <1>2, <2>1, BitsRead, ReadCapturedType
<1>3. ASSUME n > 1, w = ReadWire(Tail(b))
      PROVE  Capture(w, RX_IDLE) \in Seq(Durations) /\ Bits(Capture(w, RX_IDLE), n) = [i \in 1 .. n |-> 0]
  <2>1. Tail(b) \in [1 .. n - 1 -> Bit] /\ n - 1 \in Nat \ {0}
    <3>1. Tail(b) \in Seq(Bit) /\ Len(Tail(b)) = n - 1
      BY <1>0, <1>3
    <3>2. Tail(b) \in [1 .. Len(Tail(b)) -> Bit]
      BY <3>1, SequenceFunction
    <3> QED BY <3>1, <3>2, <1>3
  <2> DEFINE e == Capture(w, RX_IDLE)
  <2>2. e \in Seq(Durations) /\ Len(e) = n - 1
    BY <1>3, <2>1, ReadCapturedType
  <2> HIDE DEF e
  <2>3. ~(Len(e) >= n)
    BY <2>2
  <2>4. Bits(e, n) = [i \in 1 .. n |-> 0]
    BY <2>3 DEF Bits
  <2> QED BY <2>2, <2>4 DEF e
<1> QED
  BY <1>1, <1>2, <1>3

\* What a call leaves in the ring buffer.
RingOK(queue) == Len(queue) <= 1 /\ \A e \in {queue[i] : i \in DOMAIN queue} : e \in Seq(Durations)

LEMMA RingOfOne ==
  ASSUME NEW e \in Seq(Durations) PROVE RingOK(<<e>>)
BY DEF RingOK

LEMMA RingEmpty == RingOK(<<>>)
BY DEF RingOK

\* The call of _reset.
LEMMA ResetCall ==
  ASSUME NEW a \in BOOLEAN, NEW c \in Calls(ResetWire(a), RESET_IDLE, NoisyResets(a))
  PROVE  /\ RingOK(c.left) /\ c.bad \in BOOLEAN
         /\ c.bad => hits < MaxFaults /\ ~dead
         /\ dead => ~Presence(c.got)
         /\ ~c.bad /\ ~dead => (Presence(c.got) <=> a)
<1> DEFINE e == Capture(ResetWire(a), RESET_IDLE)
<1>1. e \in Seq(Durations) /\ (Presence(e) <=> a)
  BY ResetCaptured
<1> HIDE DEF e
<1>2. c.left = <<>> \/ c.left = <<e>>
  BY CallsMade, Zenon DEF e
<1>3. c.bad \in BOOLEAN /\ (c.bad => hits < MaxFaults /\ ~dead) /\ (dead => c.got = <<>>)
  BY CallsMade, Zenon
<1>4. ~c.bad /\ ~dead => c.got = e
  BY CallsMade, Zenon DEF e
<1>5. RingOK(c.left)
  BY <1>1, <1>2, RingOfOne, RingEmpty, Zenon
<1>6. ~Presence(<<>>)
  BY DEF Presence
<1> QED
  BY <1>1, <1>3, <1>4, <1>5, <1>6, Zenon

\* A call of _read_bits for n bits.
LEMMA ReadCall ==
  ASSUME NEW n \in Nat \ {0}, NEW b \in [1 .. n -> Bit], NEW c \in Calls(ReadWire(b), RX_IDLE, NoisyWires(b))
  PROVE  /\ RingOK(c.left) /\ c.bad \in BOOLEAN /\ c.driven \in BOOLEAN
         /\ Bits(c.got, n) \in [1 .. n -> Bit]
         /\ c.bad => hits < MaxFaults /\ ~dead
         /\ ~c.bad => c.driven
         /\ dead => Bits(c.got, n) = [i \in 1 .. n |-> 0]
         /\ ~c.bad /\ ~dead => Bits(c.got, n) = b
         /\ c.bad => \/ c.driven /\ \E i \in 1 .. n : Bits(c.got, n) = [b EXCEPT ![i] = 1 - b[i]]
                     \/ Bits(c.got, n) = [i \in 1 .. n |-> 0]
<1> DEFINE e == Capture(ReadWire(b), RX_IDLE)
<1>1. e \in Seq(Durations) /\ Bits(e, n) = b
  BY BitsRead, ReadCapturedType
<1> HIDE DEF e
<1>2. c.left = <<>> \/ c.left = <<e>>
  BY CallsMade, Zenon DEF e
<1>3. /\ c.bad \in BOOLEAN /\ c.driven \in BOOLEAN
      /\ c.bad => hits < MaxFaults /\ ~dead
      /\ dead => c.got = <<>>
      /\ ~c.bad => c.driven
  BY CallsMade, Zenon
<1>4. ~c.bad /\ ~dead => c.got = e
  BY CallsMade, Zenon DEF e
<1>5. c.bad => (c.driven /\ \E w \in NoisyWires(b) : c.got = Capture(w, RX_IDLE)) \/ c.got = <<>>
  <2>1. c.bad => (c.left = <<>> /\ c.driven /\ \E w \in NoisyWires(b) : c.got = Capture(w, RX_IDLE))
                 \/ (c.got = <<>> /\ (c.left = <<>> \/ c.left = <<e>>))
    BY CallsMade DEF e
  <2> QED BY <2>1, Zenon
<1>6. RingOK(c.left)
  BY <1>1, <1>2, RingOfOne, RingEmpty, Zenon
<1>7. Bits(<<>>, n) = [i \in 1 .. n |-> 0]
  BY NothingRead
<1>8. ASSUME NEW w \in NoisyWires(b), c.got = Capture(w, RX_IDLE)
      PROVE  \/ \E i \in 1 .. n : Bits(c.got, n) = [b EXCEPT ![i] = 1 - b[i]]
             \/ Bits(c.got, n) = [i \in 1 .. n |-> 0]
  BY <1>8, NoisyWire, Zenon
<1>9. c.bad => \/ c.driven /\ \E i \in 1 .. n : Bits(c.got, n) = [b EXCEPT ![i] = 1 - b[i]]
               \/ Bits(c.got, n) = [i \in 1 .. n |-> 0]
  BY <1>5, <1>7, <1>8, Zenon
<1>10. Bits(c.got, n) \in [1 .. n -> Bit]
  BY BitsType
<1> QED
  BY <1>1, <1>3, <1>4, <1>6, <1>7, <1>9, <1>10, Zenon

\* A call for one bit ...
LEMMA BitCall ==
  ASSUME NEW b \in Bit, NEW c \in Calls(ReadWire(<<b>>), RX_IDLE, NoisyWires(<<b>>))
  PROVE  /\ RingOK(c.left) /\ c.bad \in BOOLEAN /\ c.driven \in BOOLEAN
         /\ Assembled(Bits(c.got, 1)) \in Bit
         /\ c.bad => hits < MaxFaults /\ ~dead
         /\ ~c.bad => c.driven
         /\ ~c.bad /\ ~dead => Assembled(Bits(c.got, 1)) = b
<1>1. <<b>> \in [1 .. 1 -> Bit] /\ <<b>>[1] = b /\ 1 \in Nat \ {0}
  OBVIOUS
<1>2. /\ RingOK(c.left) /\ c.bad \in BOOLEAN /\ c.driven \in BOOLEAN
      /\ Bits(c.got, 1) \in [1 .. 1 -> Bit]
      /\ c.bad => hits < MaxFaults /\ ~dead
      /\ ~c.bad => c.driven
      /\ ~c.bad /\ ~dead => Bits(c.got, 1) = <<b>>
  BY <1>1, ReadCall, Zenon
<1>3. Assembled(Bits(c.got, 1)) = Bits(c.got, 1)[1]
  BY <1>2, AssembledBit, Zenon
<1>4. Bits(c.got, 1)[1] \in Bit
  BY <1>2
<1> QED
  BY <1>1, <1>2, <1>3, <1>4, Zenon

\* ... and for one byte.
LEMMA ByteCall ==
  ASSUME NEW b \in [1 .. 8 -> Bit], NEW c \in Calls(ReadWire(b), RX_IDLE, NoisyWires(b))
  PROVE  /\ RingOK(c.left) /\ c.bad \in BOOLEAN
         /\ Assembled(Bits(c.got, 8)) \in 0 .. 255
         /\ c.bad => hits < MaxFaults /\ ~dead
         /\ ~c.bad /\ ~dead => Assembled(Bits(c.got, 8)) = ByteOf(b)
<1>1. 8 \in Nat \ {0}
  OBVIOUS
<1>2. /\ RingOK(c.left) /\ c.bad \in BOOLEAN
      /\ Bits(c.got, 8) \in [1 .. 8 -> Bit]
      /\ c.bad => hits < MaxFaults /\ ~dead
      /\ ~c.bad /\ ~dead => Bits(c.got, 8) = b
  BY <1>1, ReadCall, Zenon
<1>3. Assembled(Bits(c.got, 8)) = ByteOf(Bits(c.got, 8))
  BY <1>2, AssembledByte, Zenon
<1>4. \A f \in [1 .. 8 -> Bit] : ByteOf(f) \in 0 .. 255
  BY DEF ByteOf, Bit
<1> QED
  BY <1>2, <1>3, <1>4, Zenon

-----------------------------------------------------------------------------
(* Types, and where a job and its search are.                               *)

Searching == pc \in {"id", "complement", "write"}

\* Which call a job is in, and what it has left behind when it is not.
Jobs ==
  /\ job = "none" <=> pc = "idle"
  /\ pc \in {"code", "check"} => job = "read"
  /\ job = "read" => pc \in {"reset", "code", "check", "judge"}
  /\ dead => hits > 0 /\ job # "none"
  /\ Len(reports) <= MaxDevices
  /\ job = "none" \/ pc = "reset" => bitno = 1 /\ zero = 0
  /\ job = "read" /\ pc = "reset" => answer = NoRom

\* The sensors are never ahead of the search, nor of the reading of a code.
Places ==
  /\ Searching => bitno <= RomBits /\ place <= bitno
  /\ pc = "code" => bitno \in ByteStart /\ place <= bitno
  /\ pc = "id" /\ place = bitno => turn = "bit"
  /\ pc = "complement" /\ place = bitno => turn # "listen"
  /\ pc = "write" => dir = st.rom[bitno]

TypeInv == TypeOK /\ Jobs /\ Places

\* The constants.
LEMMA Bounds ==
  /\ RomBits \in Nat \ {0} /\ MaxDevices \in Nat \ {0} /\ MaxFaults \in Nat
  /\ ByteBits \in 1 .. 8 /\ Byte \subseteq 0 .. 255 /\ Sensor \subseteq Rom /\ NoRom \in Rom
<1>1. RomBits \in Nat \ {0}
  BY BoundsAssumption DEF RomBits, MAX_BITS
<1> QED
  BY <1>1, BoundsAssumption, SensorAssumption DEF MAX_BITS, NoRom, Rom, Bit

\* A byte of a code that is not read over its end.
LEMMA ByteEnds ==
  ASSUME NEW b \in ByteStart
  PROVE  /\ b \in 1 .. RomBits /\ b + ByteBits - 1 \in b .. RomBits
         /\ b + ByteBits <= RomBits => b + ByteBits \in ByteStart
<1>1. PICK k \in 0 .. RomBytes - 1 : b = 1 + ByteBits * k
  BY DEF ByteStart
<1>2. RomBytes \in Nat \ {0} /\ ByteBits \in 1 .. 8
  BY BoundsAssumption DEF MAX_BITS
<1>3. ByteBits * k + ByteBits = ByteBits * (k + 1)
  BY <1>2
<1>4. ByteBits * k \in Nat
  BY <1>2
<1>5. ByteBits * (k + 1) <= ByteBits * RomBytes
  BY <1>2
<1>6. ASSUME b + ByteBits <= RomBits PROVE k + 1 \in 0 .. RomBytes - 1
  <2>1. CASE k = RomBytes - 1
    BY <2>1, <1>1, <1>2, <1>6 DEF RomBits
  <2> QED BY <2>1, <1>2
<1>7. b + ByteBits <= RomBits => b + ByteBits \in ByteStart
  BY <1>1, <1>2, <1>3, <1>4, <1>6 DEF ByteStart
<1>8. ByteBits * RomBytes \in Nat
  BY <1>2
<1> QED
  BY <1>1, <1>2, <1>3, <1>4, <1>5, <1>7, <1>8 DEF RomBits

LEMMA FirstByte == 1 \in ByteStart
<1>1. RomBytes \in Nat \ {0} /\ ByteBits \in 1 .. 8
  BY BoundsAssumption DEF MAX_BITS
<1>2. 1 = 1 + ByteBits * 0 /\ 0 \in 0 .. RomBytes - 1
  BY <1>1
<1> QED
  BY <1>2 DEF ByteStart

LEMMA WiredBit == ASSUME NEW bits PROVE Wired(bits) \in Bit
BY DEF Wired, Bit

LEMMA SensorsSendBit == SensorsSend \in Bit
BY WiredBit DEF SensorsSend, Bit

\* A written slot is heard as what was written.
LEMMA WriteHeard ==
  ASSUME NEW b \in Bit PROVE Heard(WriteSlots(b, 1)[1]) = b
<1>1. WriteSlots(b, 1)[1] = LOW((b \div 2 ^ (1 - 1)) % 2)
  BY DEF WriteSlots
<1>2. 2 ^ (1 - 1) = 1
  OBVIOUS
<1>3. (b \div 1) % 2 = b
  BY DEF Bit
<1> QED
  BY <1>1, <1>2, <1>3 DEF Heard, LOW, Bit

\* What a slot does to the sensors.
LEMMA SlotTaken ==
  ASSUME TypeOK, NEW b, Slot(b), place <= RomBits
  PROVE  /\ turn' = (IF turn = "bit" THEN "complement" ELSE IF turn = "complement" THEN "listen" ELSE "bit")
         /\ on' = (IF turn = "listen" THEN {s \in on : s[place] = b} ELSE on)
         /\ place' = (IF turn = "listen" THEN place + 1 ELSE place)
         /\ turn' \in {"bit", "complement", "listen"} /\ on' \subseteq on
         /\ place' \in 1 .. RomBits + 1
<1>1. place \in 1 .. RomBits /\ ~(place > RomBits) /\ turn \in {"bit", "complement", "listen"} /\ RomBits \in Nat
  BY Bounds DEF TypeOK
<1>2. turn' = (IF turn = "bit" THEN "complement" ELSE IF turn = "complement" THEN "listen" ELSE "bit")
  <2>1. CASE turn = "bit"
    BY <2>1, <1>1 DEF Slot
  <2>2. CASE turn = "complement"
    BY <2>2, <1>1 DEF Slot
  <2>3. CASE turn = "listen"
    BY <2>3, <1>1 DEF Slot
  <2> QED BY <2>1, <2>2, <2>3, <1>1
<1> QED
  BY <1>1, <1>2 DEF Slot

\* owb_read_bit: a call that is not disturbed reads what the sensors send.
LEMMA BitRead ==
  ASSUME TypeOK, NEW b, ReadBit(b)
  PROVE  /\ RingOK(rb') /\ b \in Bit
         /\ hits' \in 0 .. MaxFaults /\ hits' >= hits
         /\ Slot(1) \/ UNCHANGED sensors
         /\ hits' = hits /\ ~dead => b = SensorsSend /\ Slot(1)
<1>1. PICK c \in Calls(ReadWire(<<SensorsSend>>), RX_IDLE, NoisyWires(<<SensorsSend>>)) :
         /\ Attend(c) /\ b = Assembled(Bits(c.got, 1))
         /\ IF c.driven THEN Slot(1) ELSE UNCHANGED sensors
  BY Zenon DEF ReadBit
<1> HIDE DEF Slot
<1>2. /\ RingOK(c.left) /\ c.bad \in BOOLEAN /\ c.driven \in BOOLEAN
      /\ Assembled(Bits(c.got, 1)) \in Bit
      /\ c.bad => hits < MaxFaults /\ ~dead
      /\ ~c.bad => c.driven
      /\ ~c.bad /\ ~dead => Assembled(Bits(c.got, 1)) = SensorsSend
  BY SensorsSendBit, BitCall, Zenon
<1>3. rb' = c.left /\ hits' = IF c.bad THEN hits + 1 ELSE hits
  BY <1>1, Zenon DEF Attend
<1>4. hits \in 0 .. MaxFaults /\ MaxFaults \in Nat
  BY Bounds DEF TypeOK
<1>5. hits' \in 0 .. MaxFaults /\ hits' >= hits /\ (hits' = hits => ~c.bad)
  BY <1>2, <1>3, <1>4
<1> QED
  BY <1>1, <1>2, <1>3, <1>5, Zenon

LEMMA BlankSearch == Blank \in Search /\ NoRom \in Rom
  BY Bounds DEF Blank, Search

\* A job that ends leaves the bus as it found it.
LEMMA ReturnTypes ==
  ASSUME TypeInv, NEW result \in Rom, Return(result),
         UNCHANGED <<present, rb, byte>>, reports' \in Seq(Sensor), Len(reports') <= MaxDevices
  PROVE  TypeInv'
<1>1. TypeOK'
  <2>1. RomBits \in Nat \ {0} /\ MaxFaults \in Nat
    BY Bounds
  <2>2. /\ present' = present /\ rb' = rb /\ byte' = byte /\ hits' = 0 /\ dead' = FALSE /\ on' = {} /\ turn' = "bit"
        /\ place' = 1 /\ job' = "none" /\ pc' = "idle" /\ st' \in Search /\ id' = 0 /\ dir' = 0 /\ bitno' = 1 /\ zero' = 0
        /\ target' \in Rom /\ answer' \in Rom /\ reports' \in Seq(Sensor)
    BY BlankSearch DEF Return
  <2>3. Len(rb') <= 1 /\ \A e \in {rb'[i] : i \in DOMAIN rb'} : e \in Seq([low: Nat, up: BOOLEAN, high: Nat])
    BY <2>2 DEF TypeInv, TypeOK
  <2>4. present' \subseteq Sensor /\ on' \subseteq present' /\ byte' \in 0 .. 255
    BY <2>2 DEF TypeInv, TypeOK
  <2>d. dead' \in BOOLEAN
    BY <2>2, Zenon
  <2>5. hits' \in 0 .. MaxFaults /\ turn' \in {"bit", "complement", "listen"}
        /\ place' \in 1 .. RomBits + 1 /\ zero' \in 0 .. RomBits /\ bitno' \in 1 .. RomBits + 1 /\ id' \in Bit /\ dir' \in Bit
    BY <2>1, <2>2 DEF Bit
  <2> QED BY <2>2, <2>3, <2>4, <2>5, <2>d DEF TypeOK
<1>2. Jobs'
  BY DEF TypeInv, TypeOK, Jobs, Return
<1>3. Places'
  BY DEF TypeInv, TypeOK, Places, Return, Searching
<1> QED
  BY <1>1, <1>2, <1>3 DEF TypeInv

\* A job begins.
LEMMA BeginTypes ==
  ASSUME TypeInv, NEW kind \in {"scan", "verify", "read"}, Begin(kind), st' \in Search, target' \in Rom
  PROVE  TypeInv'
<1>1. TypeOK'
  BY Bounds DEF TypeInv, TypeOK, Begin, sensors
<1>2. Jobs'
  BY Bounds DEF TypeInv, TypeOK, Jobs, Begin, sensors
<1>3. Places'
  BY DEF TypeInv, TypeOK, Places, Begin, sensors, Searching
<1> QED
  BY <1>1, <1>2, <1>3 DEF TypeInv

\* The slots of a search.
LEMMA ReadBitTypes ==
  ASSUME TypeInv, NEW b, ReadBit(b), Searching, pc # "write"
  PROVE  /\ on' \subseteq present
         /\ turn' \in {"bit", "complement", "listen"} /\ place' \in 1 .. RomBits + 1
         /\ place' <= bitno /\ (place' = bitno => turn' # "bit" \/ place' # place \/ turn' = turn)
         /\ place' = place \/ (place' = place + 1 /\ turn' = "bit")
         /\ place' = place /\ pc = "id" /\ place = bitno => turn' \in {"bit", "complement"}
<1>1. Slot(1) \/ UNCHANGED sensors
  BY BitRead DEF TypeInv
<1>2. /\ place \in 1 .. RomBits + 1 /\ bitno \in 1 .. RomBits + 1 /\ place <= bitno /\ bitno <= RomBits /\ RomBits \in Nat
      /\ turn \in {"bit", "complement", "listen"} /\ on \subseteq present
      /\ pc \in {"id", "complement"}
      /\ place = bitno /\ pc = "id" => turn = "bit"
      /\ place = bitno => turn # "listen"
  BY Bounds DEF TypeInv, TypeOK, Places, Searching
<1>3. CASE Slot(1)
  <2>1. /\ turn' = (IF turn = "bit" THEN "complement" ELSE IF turn = "complement" THEN "listen" ELSE "bit")
        /\ place' = (IF turn = "listen" THEN place + 1 ELSE place)
        /\ turn' \in {"bit", "complement", "listen"} /\ on' \subseteq on
        /\ place' \in 1 .. RomBits + 1
    BY <1>2, <1>3, SlotTaken DEF TypeInv
  <2> QED BY <1>2, <2>1
<1>4. CASE UNCHANGED sensors
  BY <1>2, <1>4 DEF sensors
<1> QED
  BY <1>1, <1>3, <1>4

LEMMA RingTyped ==
  ASSUME NEW q, RingOK(q)
  PROVE  Len(q) <= 1 /\ \A e \in {q[i] : i \in DOMAIN q} : e \in Seq([low: Nat, up: BOOLEAN, high: Nat])
BY DEF RingOK, Durations

\* owb_write_byte and owb_read_byte: a transfer that is not disturbed reads what was written.
LEMMA TransferCalled ==
  ASSUME TypeOK, NEW v \in Byte, Transfer(v)
  PROVE  /\ RingOK(rb') /\ hits' \in 0 .. MaxFaults /\ byte' \in 0 .. 255
         /\ hits' = hits /\ ~dead => byte' = v
<1> DEFINE sent == [i \in 1 .. MAX_BITS |-> Heard(WriteSlots(v, MAX_BITS)[i])]
<1>1. v \in 0 .. 255 /\ MAX_BITS = 8 /\ MaxFaults \in Nat /\ hits \in 0 .. MaxFaults
  BY Bounds DEF MAX_BITS, TypeOK
<1>2. sent \in [1 .. 8 -> Bit] /\ ByteOf(sent) = v
  BY <1>1, ByteHeard, Zenon
<1>3. PICK c \in Calls(ReadWire(sent), RX_IDLE, NoisyWires(sent)) :
         Attend(c) /\ byte' = Assembled(Bits(c.got, MAX_BITS))
  BY Zenon DEF Transfer
<1> HIDE DEF sent
<1>4. /\ RingOK(c.left) /\ c.bad \in BOOLEAN
      /\ Assembled(Bits(c.got, 8)) \in 0 .. 255
      /\ c.bad => hits < MaxFaults /\ ~dead
      /\ ~c.bad /\ ~dead => Assembled(Bits(c.got, 8)) = ByteOf(sent)
  BY <1>2, ByteCall, Zenon
<1>5. rb' = c.left /\ hits' = IF c.bad THEN hits + 1 ELSE hits
  BY <1>3, Zenon DEF Attend
<1>6. hits' \in 0 .. MaxFaults /\ (hits' = hits => ~c.bad)
  BY <1>1, <1>4, <1>5
<1>7. byte' = Assembled(Bits(c.got, 8))
  BY <1>1, <1>3
<1> QED
  BY <1>2, <1>4, <1>5, <1>6, <1>7, Zenon

LEMMA TransferTypes ==
  ASSUME TypeInv, NEW v \in Byte, Transfer(v)
  PROVE  TypeInv'
<1>1. RingOK(rb') /\ hits' \in 0 .. MaxFaults /\ byte' \in 0 .. 255
  BY TransferCalled DEF TypeInv
<1>2. UNCHANGED <<present, dead, sensors, pc, id, dir, job, st, bitno, zero, target, answer, reports>> /\ job = "none"
  BY DEF Transfer
<1>3. Len(rb') <= 1 /\ \A e \in {rb'[i] : i \in DOMAIN rb'} : e \in Seq([low: Nat, up: BOOLEAN, high: Nat])
  BY <1>1, RingTyped, Zenon
<1>4. TypeOK'
  BY <1>1, <1>2, <1>3 DEF TypeInv, TypeOK, sensors
<1>5. Jobs'
  BY <1>2 DEF TypeInv, Jobs
<1>6. Places'
  BY <1>2 DEF TypeInv, Places, Searching, sensors
<1> QED
  BY <1>4, <1>5, <1>6 DEF TypeInv

\* _reset in a job.
LEMMA ResetCalled ==
  ASSUME TypeOK, ResetBus
  PROVE  /\ RingOK(rb') /\ hits' \in 0 .. MaxFaults /\ hits' >= hits /\ on' \subseteq present
         /\ pc' \in {"judge", IF job = "read" THEN "code" ELSE "id"}
         /\ dead => pc' = "judge"
         /\ on' = present \/ hits' > hits
         /\ hits' = hits /\ ~dead =>
               pc' = (IF present = {} THEN "judge" ELSE IF job = "read" THEN "code" ELSE "id")
<1> DEFINE a == present # {}
<1>1. PICK c \in Calls(ResetWire(a), RESET_IDLE, NoisyResets(a)) :
          /\ pc' = IF ~Presence(c.got) THEN "judge" ELSE IF job = "read" THEN "code" ELSE "id"
          /\ \/ Attend(c) /\ on' = present
             \/ /\ hits < MaxFaults
                /\ Attend([c EXCEPT !.bad = TRUE])
                /\ on' \in {{}} \cup {present \ {s} : s \in present}
  BY Zenon DEF ResetBus
<1>2. a \in BOOLEAN
  OBVIOUS
<1>3. /\ RingOK(c.left) /\ c.bad \in BOOLEAN
      /\ c.bad => hits < MaxFaults /\ ~dead
      /\ dead => ~Presence(c.got)
      /\ ~c.bad /\ ~dead => (Presence(c.got) <=> a)
  BY <1>2, ResetCall, Zenon
<1>4. hits \in 0 .. MaxFaults /\ MaxFaults \in Nat
  BY Bounds DEF TypeOK
<1>5. CASE Attend(c) /\ on' = present
  <2>1. rb' = c.left /\ hits' = IF c.bad THEN hits + 1 ELSE hits
    BY <1>5, Zenon DEF Attend
  <2>2. hits' \in 0 .. MaxFaults /\ hits' >= hits /\ (hits' = hits => ~c.bad)
    BY <1>3, <1>4, <2>1
  <2> QED BY <1>1, <1>3, <1>5, <2>1, <2>2
<1>6. CASE /\ hits < MaxFaults
           /\ Attend([c EXCEPT !.bad = TRUE])
           /\ on' \in {{}} \cup {present \ {s} : s \in present}
  <2>1. c = [got |-> c.got, left |-> c.left, driven |-> c.driven, bad |-> c.bad]
    BY CallsMade, Zenon
  <2>2. [c EXCEPT !.bad = TRUE].left = c.left /\ [c EXCEPT !.bad = TRUE].bad
    BY <2>1
  <2>3. rb' = c.left /\ hits' = hits + 1
    BY <1>6, <2>2, Zenon DEF Attend
  <2> QED BY <1>1, <1>3, <1>4, <1>6, <2>3
<1> QED
  BY <1>1, <1>5, <1>6

LEMMA ResetTypes ==
  ASSUME TypeInv, ResetBus
  PROVE  TypeInv'
<1>1. /\ RingOK(rb') /\ hits' \in 0 .. MaxFaults /\ hits' >= hits /\ on' \subseteq present
      /\ pc' \in {"judge", IF job = "read" THEN "code" ELSE "id"}
  BY ResetCalled DEF TypeInv
<1>2. /\ UNCHANGED <<present, dead, id, dir, job, st, bitno, zero, target, answer, byte, reports>>
      /\ pc = "reset" /\ turn' = "bit" /\ place' = 1
  BY DEF ResetBus, caller
<1>3. Len(rb') <= 1 /\ \A e \in {rb'[i] : i \in DOMAIN rb'} : e \in Seq([low: Nat, up: BOOLEAN, high: Nat])
  BY <1>1, RingTyped, Zenon
<1>4. RomBits \in Nat \ {0}
  BY Bounds
<1>5. TypeOK'
  BY <1>1, <1>2, <1>3, <1>4 DEF TypeInv, TypeOK
<1>6. Jobs'
  <2>1. hits \in 0 .. MaxFaults /\ MaxFaults \in Nat
    BY Bounds DEF TypeInv, TypeOK
  <2> QED BY <1>1, <1>2, <2>1 DEF TypeInv, Jobs, TypeOK
<1>7. Places'
  <2>1. bitno = 1 /\ 1 <= RomBits
    BY <1>2, <1>4 DEF TypeInv, Jobs
  <2> QED BY <1>1, <1>2, <2>1, FirstByte DEF Places, Searching
<1> QED
  BY <1>5, <1>6, <1>7 DEF TypeInv

LEMMA ReadIdTypes ==
  ASSUME TypeInv, ReadId
  PROVE  TypeInv'
<1>1. PICK b \in Bit : ReadBit(b) /\ id' = b
  BY DEF ReadId
<1>2. /\ UNCHANGED <<present, dead, dir, job, st, bitno, zero, target, answer, byte, reports>>
      /\ pc = "id" /\ pc' = "complement"
  BY DEF ReadId, caller
<1>3. RingOK(rb') /\ hits' \in 0 .. MaxFaults /\ hits' >= hits
  BY <1>1, BitRead DEF TypeInv
<1>4. /\ on' \subseteq present
      /\ turn' \in {"bit", "complement", "listen"} /\ place' \in 1 .. RomBits + 1
      /\ place' <= bitno
      /\ place' = place \/ (place' = place + 1 /\ turn' = "bit")
      /\ place' = place /\ pc = "id" /\ place = bitno => turn' \in {"bit", "complement"}
  BY <1>1, <1>2, ReadBitTypes DEF Searching
<1>5. Len(rb') <= 1 /\ \A e \in {rb'[i] : i \in DOMAIN rb'} : e \in Seq([low: Nat, up: BOOLEAN, high: Nat])
  BY <1>3, RingTyped, Zenon
<1>6. TypeOK'
  BY <1>1, <1>2, <1>3, <1>4, <1>5 DEF TypeInv, TypeOK
<1>7. Jobs'
  <2>1. hits \in 0 .. MaxFaults /\ MaxFaults \in Nat
    BY Bounds DEF TypeInv, TypeOK
  <2> QED BY <1>2, <1>3, <2>1 DEF TypeInv, Jobs, TypeOK
<1>8. Places'
  BY <1>2, <1>4 DEF TypeInv, Places, Searching
<1> QED
  BY <1>6, <1>7, <1>8 DEF TypeInv

LEMMA DirectionBit ==
  ASSUME TypeOK, NEW b \in Bit, bitno <= RomBits
  PROVE  Direction(b) \in Bit
<1>1. bitno \in 1 .. RomBits /\ st.rom \in Rom /\ id \in Bit
  BY Bounds DEF TypeOK, Search
<1> QED
  BY <1>1 DEF Direction, Rom, Bit

LEMMA ReadComplementTypes ==
  ASSUME TypeInv, ReadComplement
  PROVE  TypeInv'
<1>1. PICK b \in Bit :
          /\ ReadBit(b)
          /\ IF id = 1 /\ b = 1
             THEN pc' = "judge" /\ UNCHANGED <<dir, st, zero>>
             ELSE /\ pc' = "write"
                  /\ dir' = Direction(b)
                  /\ st' = [st EXCEPT !.rom[bitno] = Direction(b)]
                  /\ zero' = IF id = b /\ Direction(b) = 0 THEN bitno ELSE zero
  BY DEF ReadComplement
<1>2. /\ UNCHANGED <<present, dead, id, job, bitno, target, answer, byte, reports>>
      /\ pc = "complement"
  BY DEF ReadComplement
<1>3. RingOK(rb') /\ hits' \in 0 .. MaxFaults /\ hits' >= hits
  BY <1>1, BitRead DEF TypeInv
<1>4. /\ on' \subseteq present
      /\ turn' \in {"bit", "complement", "listen"} /\ place' \in 1 .. RomBits + 1
      /\ place' <= bitno
  BY <1>1, <1>2, ReadBitTypes DEF Searching
<1>5. Len(rb') <= 1 /\ \A e \in {rb'[i] : i \in DOMAIN rb'} : e \in Seq([low: Nat, up: BOOLEAN, high: Nat])
  BY <1>3, RingTyped, Zenon
<1>6. bitno \in 1 .. RomBits /\ zero \in 0 .. RomBits /\ dir \in Bit /\ st \in Search /\ RomBits \in Nat
  BY <1>2, Bounds DEF TypeInv, TypeOK, Places, Searching
<1>7. Direction(b) \in Bit
  BY <1>6, DirectionBit DEF TypeInv
<1>8. /\ pc' \in {"judge", "write"} /\ dir' \in Bit /\ st' \in Search /\ zero' \in 0 .. RomBits
      /\ pc' = "write" => dir' = st'.rom[bitno]
  BY <1>1, <1>6, <1>7 DEF Search, Rom
<1>9. TypeOK'
  BY <1>2, <1>3, <1>4, <1>5, <1>8 DEF TypeInv, TypeOK
<1>10. Jobs'
  <2>1. hits \in 0 .. MaxFaults /\ MaxFaults \in Nat
    BY Bounds DEF TypeInv, TypeOK
  <2> QED BY <1>2, <1>3, <1>8, <2>1 DEF TypeInv, Jobs, TypeOK
<1>11. Places'
  BY <1>2, <1>4, <1>6, <1>8 DEF TypeInv, Places, Searching
<1> QED
  BY <1>9, <1>10, <1>11 DEF TypeInv

LEMMA WriteDirectionTypes ==
  ASSUME TypeInv, WriteDirection
  PROVE  TypeInv'
<1>1. /\ UNCHANGED <<present, rb, dead, id, dir, job, st, zero, target, answer, byte, reports>>
      /\ pc = "write" /\ bitno' = bitno + 1
      /\ pc' = IF bitno = RomBits THEN "judge" ELSE "id"
  BY DEF WriteDirection
<1>2. /\ bitno \in 1 .. RomBits /\ RomBits \in Nat /\ place \in 1 .. RomBits /\ place <= bitno
      /\ hits \in 0 .. MaxFaults /\ MaxFaults \in Nat /\ turn \in {"bit", "complement", "listen"}
      /\ on \subseteq present
  BY <1>1, Bounds DEF TypeInv, TypeOK, Places, Searching
<1>3. /\ on' \subseteq present /\ turn' \in {"bit", "complement", "listen"}
      /\ hits' \in 0 .. MaxFaults /\ hits' >= hits
      /\ place' = place \/ (place' = place + 1 /\ turn' = "bit")
  <2>1. CASE Slot(Heard(WriteSlots(dir, 1)[1])) /\ UNCHANGED hits
    <3> DEFINE b == Heard(WriteSlots(dir, 1)[1])
    <3> HIDE DEF b
    <3>1. Slot(b) /\ place <= RomBits
      BY <1>2, <2>1 DEF b
    <3>2. /\ turn' = (IF turn = "bit" THEN "complement" ELSE IF turn = "complement" THEN "listen" ELSE "bit")
          /\ place' = (IF turn = "listen" THEN place + 1 ELSE place)
          /\ turn' \in {"bit", "complement", "listen"} /\ on' \subseteq on
      BY <3>1, SlotTaken DEF TypeInv
    <3> QED BY <1>2, <2>1, <3>2
  <2>2. CASE /\ turn = "listen" /\ hits < MaxFaults /\ ~dead
             /\ hits' = hits + 1
             /\ \E s \in on : /\ on' = {r \in on : r[place] = dir} \cup {s}
                              /\ turn' = "bit" /\ place' = place + 1
    BY <1>2, <2>2
  <2>3. CASE hits < MaxFaults /\ hits' = hits + 1 /\ UNCHANGED sensors
    BY <1>2, <2>3 DEF sensors
  <2> QED BY <2>1, <2>2, <2>3 DEF WriteDirection
<1>4. place' \in 1 .. RomBits + 1 /\ place' <= bitno' /\ bitno' \in 1 .. RomBits + 1 /\ (bitno # RomBits => bitno' <= RomBits)
  BY <1>1, <1>2, <1>3
<1>5. TypeOK'
  BY <1>1, <1>3, <1>4 DEF TypeInv, TypeOK
<1>6. Jobs'
  BY <1>1, <1>2, <1>3 DEF TypeInv, Jobs, TypeOK
<1>7. Places'
  BY <1>1, <1>2, <1>3, <1>4 DEF TypeInv, Places, Searching
<1> QED
  BY <1>5, <1>6, <1>7 DEF TypeInv

CodeSent == [i \in 1 .. ByteBits |-> Wired({s[place + i - 1] : s \in on})]

\* A byte of a code is read as bits.
CodeRead(bits, driven) ==
  /\ place' = IF driven THEN place + ByteBits ELSE place
  /\ answer' = [i \in 1 .. RomBits |->
                   IF i \in bitno .. bitno + ByteBits - 1 THEN bits[i - bitno + 1] ELSE answer[i]]
  /\ dead => bits = [i \in 1 .. ByteBits |-> 0] /\ driven /\ hits' = hits
  /\ hits' = hits /\ ~dead => bits = CodeSent /\ driven
  /\ hits' # hits => \/ driven /\ \E i \in 1 .. ByteBits : bits = [CodeSent EXCEPT ![i] = 1 - CodeSent[i]]
                     \/ bits = [i \in 1 .. ByteBits |-> 0]

LEMMA CodeCalled ==
  ASSUME TypeOK, ReadCode
  PROVE  /\ RingOK(rb') /\ hits' \in 0 .. MaxFaults /\ (hits' = hits \/ hits' = hits + 1)
         /\ \E bits \in [1 .. ByteBits -> Bit], driven \in BOOLEAN : CodeRead(bits, driven)
<1>1. CodeSent \in [1 .. ByteBits -> Bit]
  BY WiredBit DEF CodeSent
<1>2. PICK c \in Calls(ReadWire(CodeSent), RX_IDLE, NoisyWires(CodeSent)) :
          /\ Attend(c)
          /\ place' = IF c.driven THEN place + ByteBits ELSE place
          /\ answer' = [i \in 1 .. RomBits |->
                           IF i \in bitno .. bitno + ByteBits - 1 THEN Bits(c.got, ByteBits)[i - bitno + 1] ELSE answer[i]]
  BY Zenon DEF ReadCode, CodeSent
<1>3. ByteBits \in Nat \ {0}
  BY Bounds
<1>4. /\ RingOK(c.left) /\ c.bad \in BOOLEAN /\ c.driven \in BOOLEAN
      /\ Bits(c.got, ByteBits) \in [1 .. ByteBits -> Bit]
      /\ c.bad => hits < MaxFaults /\ ~dead
      /\ ~c.bad => c.driven
      /\ dead => Bits(c.got, ByteBits) = [i \in 1 .. ByteBits |-> 0]
      /\ ~c.bad /\ ~dead => Bits(c.got, ByteBits) = CodeSent
      /\ c.bad => \/ c.driven /\ \E i \in 1 .. ByteBits : Bits(c.got, ByteBits) = [CodeSent EXCEPT ![i] = 1 - CodeSent[i]]
                  \/ Bits(c.got, ByteBits) = [i \in 1 .. ByteBits |-> 0]
  BY <1>1, <1>3, ReadCall, Zenon
<1>5. rb' = c.left /\ hits' = IF c.bad THEN hits + 1 ELSE hits
  BY <1>2, Zenon DEF Attend
<1>6. hits \in 0 .. MaxFaults /\ MaxFaults \in Nat
  BY Bounds DEF TypeOK
<1>7. hits' \in 0 .. MaxFaults /\ (hits' = hits \/ hits' = hits + 1) /\ (hits' = hits <=> ~c.bad)
  BY <1>4, <1>5, <1>6
<1>8. CodeRead(Bits(c.got, ByteBits), c.driven)
  BY <1>2, <1>4, <1>7, Zenon DEF CodeRead
<1> QED
  BY <1>4, <1>5, <1>7, <1>8, Zenon

LEMMA ReadCodeTypes ==
  ASSUME TypeInv, ReadCode
  PROVE  TypeInv'
<1>1. /\ UNCHANGED <<present, dead, on, turn, id, dir, job, st, zero, target, byte, reports>>
      /\ pc = "code" /\ bitno' = bitno + ByteBits
      /\ pc' = IF bitno' > RomBits THEN "check" ELSE "code"
  BY DEF ReadCode
<1>2. /\ RingOK(rb') /\ hits' \in 0 .. MaxFaults /\ (hits' = hits \/ hits' = hits + 1)
      /\ \E bits \in [1 .. ByteBits -> Bit], driven \in BOOLEAN : CodeRead(bits, driven)
  BY CodeCalled DEF TypeInv
<1>3. PICK bits \in [1 .. ByteBits -> Bit], driven \in BOOLEAN : CodeRead(bits, driven)
  BY <1>2
<1>4. bitno \in ByteStart /\ place <= bitno /\ bitno \in 1 .. RomBits + 1 /\ place \in 1 .. RomBits + 1
  BY <1>1 DEF TypeInv, Places, TypeOK
<1>5. /\ RomBits \in Nat \ {0} /\ ByteBits \in 1 .. 8
      /\ bitno + ByteBits - 1 \in bitno .. RomBits
      /\ bitno + ByteBits <= RomBits => bitno + ByteBits \in ByteStart
  BY <1>4, ByteEnds, Bounds
<1>6. bitno' \in 1 .. RomBits + 1 /\ place' \in 1 .. RomBits + 1 /\ place' <= bitno'
  BY <1>1, <1>3, <1>4, <1>5 DEF CodeRead
<1>7. answer' \in Rom
  <2>1. \A i \in 1 .. RomBits : i \in bitno .. bitno + ByteBits - 1 => i - bitno + 1 \in 1 .. ByteBits
    BY <1>4, <1>5
  <2>2. answer \in Rom
    BY DEF TypeInv, TypeOK
  <2> QED BY <1>3, <2>1, <2>2 DEF CodeRead, Rom
<1>8. Len(rb') <= 1 /\ \A e \in {rb'[i] : i \in DOMAIN rb'} : e \in Seq([low: Nat, up: BOOLEAN, high: Nat])
  BY <1>2, RingTyped, Zenon
<1>9. TypeOK'
  BY <1>1, <1>2, <1>6, <1>7, <1>8 DEF TypeInv, TypeOK
<1>10. Jobs'
  <2>1. hits \in 0 .. MaxFaults /\ MaxFaults \in Nat
    BY Bounds DEF TypeInv, TypeOK
  <2> QED BY <1>1, <1>2, <2>1 DEF TypeInv, Jobs, TypeOK
<1>11. Places'
  BY <1>1, <1>5, <1>6 DEF TypeInv, Places, Searching
<1> QED
  BY <1>9, <1>10, <1>11 DEF TypeInv

LEMMA CheckCodeTypes ==
  ASSUME TypeInv, CheckCode
  PROVE  TypeInv'
<1>1. PICK result : result = (IF CrcHolds(answer) THEN answer ELSE NoRom)
  OBVIOUS
<1>2. result \in Rom
  BY <1>1, Bounds DEF TypeInv, TypeOK
<1>3. Return(result) /\ UNCHANGED <<present, rb, byte, reports>>
  BY <1>1 DEF CheckCode
<1>4. reports' \in Seq(Sensor) /\ Len(reports') <= MaxDevices
  BY <1>3 DEF TypeInv, TypeOK, Jobs
<1> QED
  BY <1>2, <1>3, <1>4, ReturnTypes

LEMMA JudgeTypes ==
  ASSUME TypeInv, Judge
  PROVE  TypeInv'
<1>1. UNCHANGED <<present, rb, byte>> /\ pc = "judge"
  BY DEF Judge
<1>2. CASE job = "scan" /\ Found /\ Len(reports) < MaxDevices
  <2>1. /\ reports' = Append(reports, st.rom)
        /\ st' = [st EXCEPT !.last_discrepancy = zero, !.last_device = (zero = 0)]
        /\ pc' = "enter"
        /\ UNCHANGED <<hits, dead, sensors, id, dir, bitno, zero, job, target, answer>>
    BY <1>2 DEF Judge
  <2>2. st.rom \in Sensor
    <3>1. \A rom : Family(rom) # Family(NoRom) => rom # NoRom
      OBVIOUS
    <3> QED BY <1>2, <3>1, Zenon DEF Found, CrcHolds
  <2>3. reports \in Seq(Sensor) /\ Len(reports) < MaxDevices /\ st \in Search /\ zero \in 0 .. RomBits /\ MaxDevices \in Nat
    BY <1>2, Bounds DEF TypeInv, TypeOK
  <2>4. reports' \in Seq(Sensor) /\ Len(reports') <= MaxDevices
    BY <2>1, <2>2, <2>3
  <2>5. st' \in Search
    BY <2>1, <2>3 DEF Search
  <2>6. TypeOK'
    BY <1>1, <2>1, <2>4, <2>5 DEF TypeInv, TypeOK, sensors
  <2>7. Jobs'
    BY <1>1, <1>2, <2>1, <2>4 DEF TypeInv, Jobs, TypeOK
  <2>8. Places'
    BY <2>1 DEF Places, Searching
  <2> QED BY <2>6, <2>7, <2>8 DEF TypeInv
<1>3. CASE ~(job = "scan" /\ Found /\ Len(reports) < MaxDevices)
  <2>1. PICK result : result = (IF job = "verify" /\ Found /\ st.rom = target THEN target ELSE NoRom)
    OBVIOUS
  <2>2. result \in Rom
    BY <2>1, Bounds DEF TypeInv, TypeOK
  <2>3. Return(result) /\ UNCHANGED reports
    BY <1>3, <2>1, Zenon DEF Judge
  <2>4. reports' \in Seq(Sensor) /\ Len(reports') <= MaxDevices
    BY <2>3 DEF TypeInv, TypeOK, Jobs
  <2> QED BY <1>1, <2>2, <2>3, <2>4, ReturnTypes
<1> QED
  BY <1>2, <1>3

LEMMA EnterTypes ==
  ASSUME TypeInv, Enter
  PROVE  TypeInv'
<1>1. /\ UNCHANGED <<present, rb, hits, dead, sensors, id, dir, job, st, target, answer, byte, reports>>
      /\ pc = "enter" /\ bitno' = 1 /\ zero' = 0 /\ pc' \in {"judge", "reset"} /\ RomBits \in Nat \ {0}
  BY Bounds DEF Enter
<1>2. TypeOK'
  BY <1>1 DEF TypeInv, TypeOK, sensors
<1>3. Jobs'
  BY <1>1 DEF TypeInv, TypeOK, Jobs
<1>4. Places'
  BY <1>1 DEF Places, Searching
<1> QED
  BY <1>2, <1>3, <1>4 DEF TypeInv

LEMMA ReceiverDiesTypes ==
  ASSUME TypeInv, ReceiverDies
  PROVE  TypeInv'
<1>1. /\ UNCHANGED <<present, rb, sensors, pc, id, dir, caller>>
      /\ hits < MaxFaults /\ hits' = hits + 1 /\ dead' = TRUE /\ job # "none"
      /\ hits \in 0 .. MaxFaults /\ MaxFaults \in Nat
  BY Bounds DEF TypeInv, TypeOK, ReceiverDies
<1>2. dead' \in BOOLEAN /\ hits' \in 0 .. MaxFaults /\ hits' > 0
  BY <1>1
<1>3. TypeOK'
  BY <1>1, <1>2 DEF TypeInv, TypeOK, sensors, caller
<1>4. Jobs'
  BY <1>1, <1>2 DEF TypeInv, Jobs, caller
<1>5. Places'
  BY <1>1 DEF TypeInv, Places, Searching, sensors, caller
<1> QED
  BY <1>3, <1>4, <1>5 DEF TypeInv

LEMMA RewireTypes ==
  ASSUME TypeInv, Rewire
  PROVE  TypeInv'
<1>1. /\ UNCHANGED <<rb, hits, dead, turn, place, pc, id, dir, caller>>
      /\ present' \subseteq Sensor /\ on' = {}
  BY DEF Rewire
<1>2. TypeOK'
  BY <1>1 DEF TypeInv, TypeOK, caller
<1>3. Jobs'
  BY <1>1 DEF TypeInv, Jobs, caller
<1>4. Places'
  BY <1>1 DEF TypeInv, Places, Searching, caller
<1> QED
  BY <1>2, <1>3, <1>4 DEF TypeInv

LEMMA TypeInit == Init => TypeInv
<1> SUFFICES ASSUME Init PROVE TypeInv
  OBVIOUS
<1>1. TypeOK
  <2>1. RomBits \in Nat \ {0} /\ MaxFaults \in Nat /\ NoRom \in Rom /\ Blank \in Search
    BY Bounds, BlankSearch
  <2>2. dead \in BOOLEAN
    BY Zenon DEF Init
  <2>3. present \subseteq Sensor /\ on \subseteq present
    BY DEF Init
  <2>4. Len(rb) <= 1 /\ \A e \in {rb[i] : i \in DOMAIN rb} : e \in Seq([low: Nat, up: BOOLEAN, high: Nat])
    BY DEF Init
  <2>5. hits \in 0 .. MaxFaults /\ turn \in {"bit", "complement", "listen"} /\ place \in 1 .. RomBits + 1
        /\ bitno \in 1 .. RomBits + 1 /\ zero \in 0 .. RomBits /\ id \in Bit /\ dir \in Bit /\ byte \in 0 .. 255
    BY <2>1 DEF Init, Bit
  <2>6. job \in {"none", "scan", "verify", "read"} /\ st \in Search /\ target \in Rom /\ answer \in Rom
        /\ pc \in {"idle", "enter", "reset", "id", "complement", "write", "code", "check", "judge"}
        /\ reports \in Seq(Sensor)
    BY <2>1 DEF Init
  <2> QED BY <2>2, <2>3, <2>4, <2>5, <2>6 DEF TypeOK
<1>2. Jobs
  BY Bounds DEF Init, Jobs
<1>3. Places
  BY DEF Init, Places, Searching
<1> QED
  BY <1>1, <1>2, <1>3 DEF TypeInv

LEMMA TypeNext == TypeInv /\ [Next]_vars => TypeInv'
<1> SUFFICES ASSUME TypeInv, [Next]_vars PROVE TypeInv'
  OBVIOUS
<1>0. RomBits \in Nat \ {0} /\ Sensor \subseteq Rom /\ NoRom \in Rom
  BY Bounds
<1>1. CASE SearchFirst
  BY <1>1, BeginTypes, BlankSearch DEF SearchFirst
<1>2. ASSUME NEW rom \in Sensor, Verify(rom) PROVE TypeInv'
  <2>1. st' \in Search /\ target' \in Rom
    BY <1>0, <1>2 DEF Verify, Search
  <2> QED BY <1>2, <2>1, BeginTypes DEF Verify
<1>3. CASE ReadRom
  <2>1. st' \in Search /\ target' \in Rom
    BY <1>3 DEF ReadRom, TypeInv, TypeOK
  <2> QED BY <1>3, <2>1, BeginTypes DEF ReadRom
<1>4. ASSUME NEW v \in Byte, Transfer(v) PROVE TypeInv'
  BY <1>4, TransferTypes
<1>5. CASE Enter
  BY <1>5, EnterTypes
<1>6. CASE ResetBus
  BY <1>6, ResetTypes
<1>7. CASE ReadId
  BY <1>7, ReadIdTypes
<1>8. CASE ReadComplement
  BY <1>8, ReadComplementTypes
<1>9. CASE WriteDirection
  BY <1>9, WriteDirectionTypes
<1>10. CASE ReadCode
  BY <1>10, ReadCodeTypes
<1>11. CASE CheckCode
  BY <1>11, CheckCodeTypes
<1>12. CASE Judge
  BY <1>12, JudgeTypes
<1>13. CASE ReceiverDies
  BY <1>13, ReceiverDiesTypes
<1>14. CASE Rewire
  BY <1>14, RewireTypes
<1>15. CASE UNCHANGED vars
  <2>1. UNCHANGED <<present, rb, hits, dead, on, turn, place, pc, id, dir, job, st, bitno, zero, target, answer, byte, reports>>
    BY <1>15 DEF vars, sensors, caller
  <2>2. TypeOK'
    BY <2>1 DEF TypeInv, TypeOK
  <2>3. Jobs'
    BY <2>1 DEF TypeInv, Jobs
  <2>4. Places'
    BY <2>1 DEF TypeInv, Places, Searching
  <2> QED BY <2>2, <2>3, <2>4 DEF TypeInv
<1> QED
  BY <1>1, <1>2, <1>3, <1>4, <1>5, <1>6, <1>7, <1>8, <1>9, <1>10, <1>11, <1>12, <1>13, <1>14, <1>15
  DEF Next, Step

\* The state has its types: no bit or byte of a code is read or written past its end, and the
\* ring buffer holds one entry at most.
THEOREM TypeCorrect == Spec => []TypeOK
<1>1. TypeInv => TypeOK
  BY DEF TypeInv
<1> QED
  BY TypeInit, TypeNext, <1>1, PTL DEF Spec

-----------------------------------------------------------------------------
(* A call takes its own answer.                                             *)

\* No step takes the answer of another call.
LEMMA AnswerStep ==
  ASSUME TypeInv, [Next]_vars
  PROVE  /\ pc = "reset" /\ pc' # pc /\ Undisturbed => (pc' \in {"id", "code"} <=> present # {})
         /\ pc = "id" /\ pc' # pc /\ Undisturbed => id' = SensorsSend
         /\ pc = "idle" /\ pc' = pc /\ byte' # byte /\ Undisturbed => \E v \in Byte : Transfer(v) /\ byte' = v
<1>1. ASSUME pc = "reset", pc' # pc, Undisturbed PROVE pc' \in {"id", "code"} <=> present # {}
  <2>1. job # "none"
    BY <1>1 DEF TypeInv, Jobs
  <2>2. ResetBus
    BY <1>1, <2>1
    DEF Next, Step, SearchFirst, Verify, ReadRom, Begin, Transfer, Enter, ReadId, ReadComplement, WriteDirection,
        ReadCode, CheckCode, Judge, ReceiverDies, Rewire, vars
  <2>3. hits' = hits /\ ~dead =>
               pc' = (IF present = {} THEN "judge" ELSE IF job = "read" THEN "code" ELSE "id")
    BY <2>2, ResetCalled DEF TypeInv
  <2> QED BY <1>1, <2>3 DEF Undisturbed
<1>2. ASSUME pc = "id", pc' # pc, Undisturbed PROVE id' = SensorsSend
  <2>1. job # "none"
    BY <1>2 DEF TypeInv, Jobs
  <2>2. ReadId
    BY <1>2, <2>1
    DEF Next, Step, SearchFirst, Verify, ReadRom, Begin, Transfer, Enter, ResetBus, ReadComplement, WriteDirection,
        ReadCode, CheckCode, Judge, ReceiverDies, Rewire, vars
  <2>3. PICK b \in Bit : ReadBit(b) /\ id' = b
    BY <2>2 DEF ReadId
  <2> QED BY <1>2, <2>3, BitRead DEF TypeInv, Undisturbed
<1>3. ASSUME pc = "idle", pc' = pc, byte' # byte, Undisturbed PROVE \E v \in Byte : Transfer(v) /\ byte' = v
  <2>1. \E v \in Byte : Transfer(v)
    <3>1. ~SearchFirst /\ ~ReadRom /\ ~(\E rom \in Sensor : Verify(rom))
      BY <1>3 DEF SearchFirst, ReadRom, Verify, Begin
    <3>2. ~Step
      BY <1>3 DEF Step, Enter, ResetBus, ReadId, ReadComplement, WriteDirection, ReadCode, CheckCode, Judge
    <3>3. ~ReceiverDies /\ ~Rewire /\ ~UNCHANGED vars
      BY <1>3 DEF ReceiverDies, Rewire, vars, caller
    <3> QED BY <3>1, <3>2, <3>3 DEF Next
  <2>2. PICK v \in Byte : Transfer(v)
    BY <2>1
  <2>3. byte' = v
    BY <1>3, <2>2, TransferCalled DEF TypeInv, Undisturbed
  <2> QED BY <2>2, <2>3
<1> QED
  BY <1>1, <1>2, <1>3

\* An entry a call left in the ring buffer is not taken for the answer to a later one (_reset,
\* _read_bits), for any number of disturbances before it.
THEOREM OwnAnswers == Spec => AnswersAreOwn
<1>1. TypeInv /\ [Next]_vars =>
        [/\ pc = "reset" /\ pc' # pc /\ Undisturbed => (pc' \in {"id", "code"} <=> present # {})
         /\ pc = "id" /\ pc' # pc /\ Undisturbed => id' = SensorsSend
         /\ pc = "idle" /\ pc' = pc /\ byte' # byte /\ Undisturbed => \E v \in Byte : Transfer(v) /\ byte' = v]_vars
  BY AnswerStep
<1> QED
  BY TypeInit, TypeNext, <1>1, PTL DEF Spec, AnswersAreOwn

-----------------------------------------------------------------------------
(* The tree of codes, as a set P of sensors and a path r into it.           *)

\* The sensors whose codes have the first k bits of r; those that have left r for the 1 of a fork,
\* where the search goes later; the forks on the way, and the last of them.
Agree(s, r, k) == \A i \in 1 .. k : s[i] = r[i]
Following(P, r, k) == {s \in P : Agree(s, r, k)}
Ahead(P, r, k) == {s \in P : \E i \in 1 .. k : Agree(s, r, i - 1) /\ r[i] = 0 /\ s[i] = 1}
Forks(P, r, k) == {i \in 1 .. k : r[i] = 0 /\ \E s \in Following(P, r, i - 1) : s[i] = 1}
LastFork(z, P, r, k) == (z = 0 \/ z \in Forks(P, r, k)) /\ \A i \in Forks(P, r, k) : i <= z

\* All sensors are on the way of no bits, and only r itself on that of all.
LEMMA AtTheStart ==
  ASSUME NEW P, NEW r
  PROVE  Following(P, r, 0) = P /\ Ahead(P, r, 0) = {} /\ Forks(P, r, 0) = {}
BY DEF Following, Ahead, Forks, Agree

LEMMA AtTheEnd ==
  ASSUME NEW P \in SUBSET Rom, NEW r \in Rom
  PROVE  Following(P, r, RomBits) = P \cap {r}
<1>1. ASSUME NEW s \in Rom PROVE Agree(s, r, RomBits) <=> s = r
  <2>1. s = [i \in 1 .. RomBits |-> s[i]] /\ r = [i \in 1 .. RomBits |-> r[i]]
    BY DEF Rom
  <2>2. ASSUME Agree(s, r, RomBits) PROVE s = r
    <3>1. \A i \in 1 .. RomBits : s[i] = r[i]
      BY <2>2 DEF Agree
    <3> QED BY <2>1, <3>1
  <2> QED BY <2>2 DEF Agree
<1> QED
  BY <1>1 DEF Following

LEMMA NotAheadOfItself ==
  ASSUME NEW P, NEW r, NEW k
  PROVE  r \notin Ahead(P, r, k)
BY DEF Ahead

\* What the code q is, which agrees with r before bit k and has D there.
Continues(q, r, k, D, P) ==
  /\ q \in Rom /\ q[k] = D
  /\ Following(P, q, k - 1) = Following(P, r, k - 1)
  /\ Following(P, q, k) = {s \in Following(P, r, k - 1) : s[k] = D}
  /\ Ahead(P, q, k) = Ahead(P, r, k - 1) \cup {s \in Following(P, r, k - 1) : D = 0 /\ s[k] = 1}
  /\ Forks(P, q, k) = Forks(P, r, k - 1)
         \cup {i \in {k} : D = 0 /\ \E s \in Following(P, r, k - 1) : s[k] = 1}

LEMMA OneBitFurther ==
  ASSUME NEW P \in SUBSET Rom, NEW r \in Rom, NEW k \in 1 .. RomBits, NEW D \in Bit
  PROVE  Continues([r EXCEPT ![k] = D], r, k, D, P)
<1> DEFINE q == [r EXCEPT ![k] = D]
<1>0. RomBits \in Nat
  BY Bounds
<1>1. q \in Rom /\ q[k] = D /\ \A i \in 1 .. k - 1 : q[i] = r[i]
  BY <1>0 DEF Rom
<1> HIDE DEF q
<1>2. \A s : \A i \in 1 .. k : Agree(s, q, i - 1) <=> Agree(s, r, i - 1)
  BY <1>0, <1>1 DEF Agree
<1>3. Following(P, q, k - 1) = Following(P, r, k - 1)
  <2>1. k \in 1 .. k
    BY <1>0
  <2>2. \A s : Agree(s, q, k - 1) <=> Agree(s, r, k - 1)
    BY <1>2, <2>1, Zenon
  <2> QED BY <2>2 DEF Following
<1>4. \A s : Agree(s, q, k) <=> Agree(s, r, k - 1) /\ s[k] = D
  BY <1>0, <1>1 DEF Agree
<1>5. Following(P, q, k) = {s \in Following(P, r, k - 1) : s[k] = D}
  BY <1>4 DEF Following
<1>6. 1 .. k = (1 .. k - 1) \cup {k} /\ k \notin 1 .. k - 1
  BY <1>0
<1>7. Ahead(P, q, k) = Ahead(P, r, k - 1) \cup {s \in Following(P, r, k - 1) : D = 0 /\ s[k] = 1}
  <2>1. \A s \in P : (\E i \in 1 .. k : Agree(s, q, i - 1) /\ q[i] = 0 /\ s[i] = 1)
                     <=> (\E i \in 1 .. k - 1 : Agree(s, r, i - 1) /\ r[i] = 0 /\ s[i] = 1)
                         \/ (Agree(s, r, k - 1) /\ D = 0 /\ s[k] = 1)
    BY <1>1, <1>2, <1>6
  <2> QED BY <2>1 DEF Ahead, Following
<1>8. \A i \in 1 .. k : Following(P, q, i - 1) = Following(P, r, i - 1)
  BY <1>2 DEF Following
<1>9. Forks(P, q, k) = Forks(P, r, k - 1)
                \cup {i \in {k} : D = 0 /\ \E s \in Following(P, r, k - 1) : s[k] = 1}
  BY <1>1, <1>6, <1>8 DEF Forks
<1> QED
  BY <1>1, <1>3, <1>5, <1>7, <1>9 DEF q, Continues

\* Who is ahead of a code was left behind where the search takes a 0, and the last time is the last of the forks.
LEMMA AheadOfTheLast ==
  ASSUME NEW P \in SUBSET Rom, NEW r \in Rom, NEW d \in 1 .. RomBits, LastFork(d, P, r, RomBits)
  PROVE  /\ r[d] = 0 /\ \E s \in Following(P, r, d - 1) : s[d] = 1
         /\ Ahead(P, r, RomBits) = Ahead(P, r, d - 1) \cup {s \in Following(P, r, d - 1) : s[d] = 1}
<1>0. RomBits \in Nat
  BY Bounds
<1>1. d \in Forks(P, r, RomBits) /\ \A i \in Forks(P, r, RomBits) : i <= d
  BY <1>0 DEF LastFork
<1>2. r[d] = 0 /\ \E s \in Following(P, r, d - 1) : s[d] = 1
  BY <1>1 DEF Forks
<1>3. \A s \in P, i \in 1 .. RomBits : Agree(s, r, i - 1) /\ r[i] = 0 /\ s[i] = 1 => i <= d
  BY <1>1 DEF Forks, Following
<1>4. ASSUME NEW s \in P
      PROVE  s \in Ahead(P, r, RomBits) <=> s \in Ahead(P, r, d - 1) \/ (Agree(s, r, d - 1) /\ s[d] = 1)
  <2>1. ASSUME s \in Ahead(P, r, RomBits) PROVE s \in Ahead(P, r, d - 1) \/ (Agree(s, r, d - 1) /\ s[d] = 1)
    <3>1. PICK i \in 1 .. RomBits : Agree(s, r, i - 1) /\ r[i] = 0 /\ s[i] = 1
      BY <2>1 DEF Ahead
    <3>2. i <= d
      BY <1>3, <3>1
    <3>3. CASE i = d
      BY <3>1, <3>3
    <3>4. CASE i # d
      <4>1. i \in 1 .. d - 1
        BY <1>0, <3>2, <3>4
      <4> QED BY <3>1, <4>1 DEF Ahead
    <3> QED BY <3>3, <3>4
  <2>2. ASSUME s \in Ahead(P, r, d - 1) PROVE s \in Ahead(P, r, RomBits)
    <3>1. 1 .. d - 1 \subseteq 1 .. RomBits
      BY <1>0
    <3> QED BY <2>2, <3>1 DEF Ahead
  <2>3. ASSUME Agree(s, r, d - 1), s[d] = 1 PROVE s \in Ahead(P, r, RomBits)
    BY <1>2, <2>3 DEF Ahead
  <2> QED BY <2>1, <2>2, <2>3
<1>5. Ahead(P, r, RomBits) \subseteq P /\ Ahead(P, r, d - 1) \subseteq P
  BY DEF Ahead
<1> QED
  BY <1>2, <1>4, <1>5 DEF Following

LEMMA NoneAhead ==
  ASSUME NEW P \in SUBSET Rom, NEW r \in Rom, LastFork(0, P, r, RomBits)
  PROVE  Ahead(P, r, RomBits) = {}
<1>0. RomBits \in Nat
  BY Bounds
<1>1. \A i \in 1 .. RomBits : i \notin Forks(P, r, RomBits)
  BY <1>0 DEF LastFork
<1> QED
  BY <1>1 DEF Forks, Ahead, Following

\* What the two slots of a bit say.
LEMMA TwoSlots ==
  ASSUME NEW S \in SUBSET Rom, NEW k \in 1 .. RomBits
  PROVE  /\ Wired({s[k] : s \in S}) = 0 <=> \E s \in S : s[k] = 0
         /\ Wired({1 - s[k] : s \in S}) = 0 <=> \E s \in S : s[k] = 1
         /\ \A s \in S : s[k] \in Bit
<1>1. \A s \in S : s[k] \in Bit
  BY DEF Rom
<1>2. \A s \in S : 1 - s[k] = 0 <=> s[k] = 1
  BY <1>1 DEF Bit
<1> QED
  BY <1>1, <1>2 DEF Wired

-----------------------------------------------------------------------------
(* A search that nothing disturbs walks in step with the sensors.           *)

\* A search that nothing has disturbed so far: the sensors send the bits the search asks for, and
\* only those take part that have the bits found.
Steady == job \in {"scan", "verify"} /\ hits = 0

InStep ==
  Steady =>
    /\ Searching => place = bitno /\ on = Following(present, st.rom, bitno - 1) /\ on # {}
    /\ pc = "id" => turn = "bit"
    /\ pc = "complement" => turn = "complement" /\ id = Wired({s[bitno] : s \in on})
    /\ pc = "write" => turn = "listen" /\ \E s \in on : s[bitno] = st.rom[bitno]
    /\ pc = "judge" /\ bitno > RomBits => st.rom \in present

LEMMA SteadyFacts ==
  ASSUME TypeInv, Steady
  PROVE  /\ ~dead /\ present \in SUBSET Rom /\ st \in Search /\ st.rom \in Rom
         /\ Searching => bitno \in 1 .. RomBits
         /\ on \in SUBSET Rom
<1>1. ~dead
  BY DEF TypeInv, Jobs, Steady
<1>2. present \in SUBSET Rom /\ on \in SUBSET Rom
  BY Bounds DEF TypeInv, TypeOK
<1>3. st \in Search /\ st.rom \in Rom
  BY DEF TypeInv, TypeOK, Search
<1>4. Searching => bitno \in 1 .. RomBits
  BY Bounds DEF TypeInv, TypeOK, Places
<1> QED
  BY <1>1, <1>2, <1>3, <1>4

\* The two read slots and the write slot of a bit, undisturbed.
LEMMA CleanReadId ==
  ASSUME TypeInv, InStep, Steady, ReadId, hits' = hits
  PROVE  id' = Wired({s[bitno] : s \in on}) /\ turn' = "complement" /\ place' = place /\ on' = on
<1>1. ~dead /\ bitno \in 1 .. RomBits /\ pc = "id" /\ place = bitno /\ turn = "bit" /\ RomBits \in Nat
  BY SteadyFacts, Bounds DEF ReadId, InStep, Searching
<1>2. PICK b \in Bit : ReadBit(b) /\ id' = b
  BY DEF ReadId
<1>3. b = SensorsSend /\ Slot(1)
  BY <1>1, <1>2, BitRead DEF TypeInv
<1>4. SensorsSend = Wired({s[bitno] : s \in on})
  <2>1. ~(place > RomBits \/ turn = "listen")
    BY <1>1
  <2>2. {IF turn = "bit" THEN s[place] ELSE 1 - s[place] : s \in on} = {s[bitno] : s \in on}
    BY <1>1
  <2> QED BY <2>1, <2>2, Zenon DEF SensorsSend
<1>5. place <= RomBits
  BY <1>1
<1>6. /\ turn' = (IF turn = "bit" THEN "complement" ELSE IF turn = "complement" THEN "listen" ELSE "bit")
      /\ on' = (IF turn = "listen" THEN {s \in on : s[place] = 1} ELSE on)
      /\ place' = (IF turn = "listen" THEN place + 1 ELSE place)
  BY <1>3, <1>5, SlotTaken DEF TypeInv
<1> QED
  BY <1>1, <1>2, <1>3, <1>4, <1>6

LEMMA CleanReadComplement ==
  ASSUME TypeInv, InStep, Steady, ReadComplement, hits' = hits
  PROVE  \E D \in Bit :
           /\ pc' = "write" /\ turn' = "listen" /\ place' = place /\ on' = on
           /\ dir' = D /\ st' = [st EXCEPT !.rom = [st.rom EXCEPT ![bitno] = D]]
           /\ \E s \in on : s[bitno] = D
           /\ zero' = IF D = 0 /\ \E s \in on : s[bitno] = 1 THEN bitno ELSE zero
           /\ (\E s \in on : s[bitno] = 0) /\ (\E s \in on : s[bitno] = 1) =>
                 D = IF bitno < st.last_discrepancy THEN st.rom[bitno]
                     ELSE IF bitno = st.last_discrepancy THEN 1 ELSE 0
<1>1. /\ ~dead /\ bitno \in 1 .. RomBits /\ pc = "complement" /\ place = bitno /\ turn = "complement" /\ RomBits \in Nat
      /\ id = Wired({s[bitno] : s \in on}) /\ on # {} /\ on \in SUBSET Rom /\ st \in Search
  BY SteadyFacts, Bounds DEF ReadComplement, InStep, Searching
<1>2. PICK b \in Bit :
          /\ ReadBit(b)
          /\ IF id = 1 /\ b = 1
             THEN pc' = "judge" /\ UNCHANGED <<dir, st, zero>>
             ELSE /\ pc' = "write"
                  /\ dir' = Direction(b)
                  /\ st' = [st EXCEPT !.rom[bitno] = Direction(b)]
                  /\ zero' = IF id = b /\ Direction(b) = 0 THEN bitno ELSE zero
  BY DEF ReadComplement
<1>3. b = SensorsSend /\ Slot(1)
  BY <1>1, <1>2, BitRead DEF TypeInv
<1>4. b = Wired({1 - s[bitno] : s \in on})
  <2>1. ~(place > RomBits \/ turn = "listen")
    BY <1>1
  <2>2. {IF turn = "bit" THEN s[place] ELSE 1 - s[place] : s \in on} = {1 - s[bitno] : s \in on}
    BY <1>1
  <2> QED BY <1>3, <2>1, <2>2, Zenon DEF SensorsSend
<1>5. place <= RomBits
  BY <1>1
<1>6. /\ turn' = (IF turn = "bit" THEN "complement" ELSE IF turn = "complement" THEN "listen" ELSE "bit")
      /\ on' = (IF turn = "listen" THEN {s \in on : s[place] = 1} ELSE on)
      /\ place' = (IF turn = "listen" THEN place + 1 ELSE place)
  BY <1>3, <1>5, SlotTaken DEF TypeInv
<1>7. /\ id = 0 <=> \E s \in on : s[bitno] = 0
      /\ b = 0 <=> \E s \in on : s[bitno] = 1
      /\ \A s \in on : s[bitno] \in Bit
  BY <1>1, <1>4, TwoSlots, Zenon
<1>8. id \in Bit /\ b \in Bit
  BY DEF TypeInv, TypeOK
<1>9. ~(id = 1 /\ b = 1)
  BY <1>1, <1>7 DEF Bit
<1>10. PICK D : D = Direction(b)
  OBVIOUS
<1>11. D \in Bit
  BY <1>1, <1>10, DirectionBit DEF TypeInv
<1>12. /\ pc' = "write" /\ dir' = D
       /\ st' = [st EXCEPT !.rom[bitno] = D]
       /\ zero' = IF id = b /\ D = 0 THEN bitno ELSE zero
  BY <1>2, <1>9, <1>10
<1>13. st' = [st EXCEPT !.rom = [st.rom EXCEPT ![bitno] = D]]
  BY <1>12
<1>14. /\ id # b => D = id
       /\ id = b => D = IF bitno < st.last_discrepancy THEN st.rom[bitno]
                        ELSE IF bitno = st.last_discrepancy THEN 1 ELSE 0
  BY <1>10 DEF Direction
<1>15. \E s \in on : s[bitno] = D
  BY <1>7, <1>8, <1>9, <1>11, <1>14 DEF Bit
<1>16. id = b /\ D = 0 <=> D = 0 /\ \E s \in on : s[bitno] = 1
  BY <1>7, <1>8, <1>9, <1>14 DEF Bit
<1>17. zero' = IF D = 0 /\ \E s \in on : s[bitno] = 1 THEN bitno ELSE zero
  BY <1>12, <1>16
<1>18. (\E s \in on : s[bitno] = 0) /\ (\E s \in on : s[bitno] = 1) =>
                 D = IF bitno < st.last_discrepancy THEN st.rom[bitno]
                     ELSE IF bitno = st.last_discrepancy THEN 1 ELSE 0
  BY <1>7, <1>14
<1> QED
  BY <1>1, <1>6, <1>11, <1>12, <1>13, <1>15, <1>17, <1>18

LEMMA CleanWriteDirection ==
  ASSUME TypeInv, InStep, Steady, WriteDirection, hits' = hits
  PROVE  on' = {s \in on : s[bitno] = st.rom[bitno]} /\ turn' = "bit" /\ place' = place + 1 /\ bitno' = bitno + 1
<1>1. /\ bitno \in 1 .. RomBits /\ pc = "write" /\ place = bitno /\ turn = "listen" /\ RomBits \in Nat
      /\ dir \in Bit /\ dir = st.rom[bitno] /\ hits \in 0 .. MaxFaults
  BY SteadyFacts, Bounds DEF WriteDirection, InStep, Searching, TypeInv, TypeOK, Places
<1>2. Slot(Heard(WriteSlots(dir, 1)[1])) /\ bitno' = bitno + 1
  BY <1>1 DEF WriteDirection
<1>3. Heard(WriteSlots(dir, 1)[1]) = dir
  BY <1>1, WriteHeard
<1>4. Slot(dir) /\ place <= RomBits
  BY <1>1, <1>2, <1>3
<1>5. /\ turn' = (IF turn = "bit" THEN "complement" ELSE IF turn = "complement" THEN "listen" ELSE "bit")
      /\ on' = (IF turn = "listen" THEN {s \in on : s[place] = dir} ELSE on)
      /\ place' = (IF turn = "listen" THEN place + 1 ELSE place)
  BY <1>4, SlotTaken DEF TypeInv
<1> QED
  BY <1>1, <1>2, <1>5

\* The bits of the code that are decided.
Decided == IF pc = "write" THEN bitno ELSE bitno - 1
Unreported == present \ Scan!Reported
Over == pc = "judge" /\ bitno > RomBits

\* The state of a search in a scan: before the first one; with a code just found, when what is not
\* reported is what lies ahead of it; and on the way to the next code, along the old one up to the
\* last fork and on a new one after it.
Fresh == reports = <<>> /\ st.last_discrepancy = 0 /\ ~st.last_device
Retracing ==
  /\ st.rom \in present
  /\ Unreported = Ahead(present, st.rom, RomBits)
  /\ LastFork(st.last_discrepancy, present, st.rom, RomBits)
  /\ st.last_device <=> st.last_discrepancy = 0

ScanInv ==
  job = "scan" /\ hits = 0 =>
    /\ pc = "enter" => Fresh \/ Retracing
    /\ pc = "reset" => Fresh \/ (Retracing /\ ~st.last_device)
    /\ Searching \/ Over =>
         /\ ~st.last_device /\ LastFork(zero, present, st.rom, Decided)
         /\ IF Decided < st.last_discrepancy THEN Retracing
            ELSE Unreported = Following(present, st.rom, Decided) \cup Ahead(present, st.rom, Decided)
    /\ pc = "judge" /\ bitno <= RomBits => Unreported = {}
    /\ Scan!Reported \subseteq present

\* The search of owb_verify_rom keeps to the code as long as its sensor is there.
VerifyInv ==
  job = "verify" /\ hits = 0 =>
    /\ target \in Sensor
    /\ st.last_discrepancy = RomBits /\ ~st.last_device
    /\ target \in present => st.rom = target
    /\ pc = "judge" /\ bitno <= RomBits => present = {}

SearchInv == InStep /\ ScanInv /\ VerifyInv

\* The steps after which a search is still undisturbed.
LEMMA WhichStep ==
  ASSUME TypeInv, [Next]_vars, Steady'
  PROVE  \/ SearchFirst
         \/ \E rom \in Sensor : Verify(rom)
         \/ /\ Steady /\ UNCHANGED <<hits, job, present, target>>
            /\ \/ Enter \/ ResetBus \/ ReadId \/ ReadComplement \/ WriteDirection
               \/ (Judge /\ job = "scan" /\ Found /\ Len(reports) < MaxDevices)
               \/ UNCHANGED vars
<1>0. job' \in {"scan", "verify"} /\ hits' = 0 /\ hits \in 0 .. MaxFaults /\ MaxFaults \in Nat
  BY Bounds DEF Steady, TypeInv, TypeOK
<1>1. CASE SearchFirst \/ \E rom \in Sensor : Verify(rom)
  BY <1>1
<1>2. CASE ReadRom
  BY <1>0, <1>2 DEF ReadRom, Begin
<1>3. ASSUME NEW v \in Byte, Transfer(v) PROVE FALSE
  BY <1>0, <1>3 DEF Transfer
<1>4. CASE Enter
  BY <1>0, <1>4 DEF Enter, Steady
<1>5. CASE ResetBus
  <2>1. hits' >= hits
    BY <1>5, ResetCalled DEF TypeInv
  <2>2. hits' = hits /\ hits = 0
    BY <1>0, <2>1
  <2>3. UNCHANGED <<present, job, target>>
    BY <1>5 DEF ResetBus, caller
  <2> QED BY <1>0, <1>5, <2>2, <2>3 DEF Steady
<1>6. CASE ReadId
  <2>1. hits' >= hits
    BY <1>6, BitRead DEF TypeInv, ReadId
  <2> QED BY <1>0, <1>6, <2>1 DEF ReadId, Steady, caller
<1>7. CASE ReadComplement
  <2>1. hits' >= hits
    BY <1>7, BitRead DEF TypeInv, ReadComplement
  <2> QED BY <1>0, <1>7, <2>1 DEF ReadComplement, Steady
<1>8. CASE WriteDirection
  <2>1. hits' >= hits
    BY <1>0, <1>8 DEF WriteDirection
  <2> QED BY <1>0, <1>8, <2>1 DEF WriteDirection, Steady
<1>9. CASE ReadCode \/ CheckCode
  <2>1. job = "read"
    BY <1>9 DEF ReadCode, CheckCode, TypeInv, Jobs
  <2> QED BY <1>0, <1>9, <2>1 DEF ReadCode, CheckCode, Return
<1>10. CASE Judge
  <2>1. CASE job = "scan" /\ Found /\ Len(reports) < MaxDevices
    BY <1>0, <1>10, <2>1 DEF Judge, Steady
  <2>2. CASE ~(job = "scan" /\ Found /\ Len(reports) < MaxDevices)
    BY <1>0, <1>10, <2>2 DEF Judge, Return
  <2> QED BY <2>1, <2>2
<1>11. CASE ReceiverDies
  BY <1>0, <1>11 DEF ReceiverDies
<1>12. CASE Rewire
  BY <1>0, <1>12 DEF Rewire, caller
<1>13. CASE UNCHANGED vars
  BY <1>0, <1>13 DEF vars, caller, Steady
<1> QED
  BY <1>1, <1>2, <1>3, <1>4, <1>5, <1>6, <1>7, <1>8, <1>9, <1>10, <1>11, <1>12, <1>13 DEF Next, Step

\* Each of them keeps the invariant of the search.
LEMMA SearchBegins ==
  ASSUME TypeInv, SearchFirst \/ \E rom \in Sensor : Verify(rom)
  PROVE  SearchInv'
<1>1. CASE SearchFirst
  <2>1. job' = "scan" /\ pc' = "enter" /\ reports' = <<>> /\ st' = Blank
    BY <1>1 DEF SearchFirst, Begin
  <2>2. st'.last_discrepancy = 0 /\ ~st'.last_device
    BY <2>1 DEF Blank
  <2>3. Scan!Reported' = {}
    BY <2>1 DEF Scan!Reported
  <2>4. InStep'
    BY <2>1 DEF InStep, Searching
  <2>5. ScanInv'
    BY <2>1, <2>2, <2>3 DEF ScanInv, Searching, Over, Fresh
  <2>6. VerifyInv'
    BY <2>1 DEF VerifyInv
  <2> QED BY <2>4, <2>5, <2>6 DEF SearchInv
<1>2. ASSUME NEW rom \in Sensor, Verify(rom) PROVE SearchInv'
  <2>1. /\ job' = "verify" /\ pc' = "enter" /\ target' = rom
        /\ st' = [rom |-> rom, last_discrepancy |-> RomBits, last_device |-> FALSE]
    BY <1>2 DEF Verify, Begin
  <2>2. st'.last_discrepancy = RomBits /\ ~st'.last_device /\ st'.rom = rom
    BY <2>1
  <2>3. InStep'
    BY <2>1 DEF InStep, Searching
  <2>4. ScanInv'
    BY <2>1 DEF ScanInv
  <2>5. VerifyInv'
    BY <2>1, <2>2 DEF VerifyInv
  <2> QED BY <2>3, <2>4, <2>5 DEF SearchInv
<1> QED
  BY <1>1, <1>2

LEMMA SearchEnters ==
  ASSUME TypeInv, SearchInv, Steady, Steady', Enter
  PROVE  SearchInv'
<1>1. /\ UNCHANGED <<present, rb, hits, dead, sensors, id, dir, job, st, target, answer, byte, reports>>
      /\ pc = "enter" /\ bitno' = 1 /\ zero' = 0
      /\ pc' = IF st.last_device THEN "judge" ELSE "reset"
      /\ RomBits \in Nat \ {0}
  BY Bounds DEF Enter
<1>2. InStep'
  BY <1>1 DEF InStep, Searching
<1>3. ScanInv'
  <2> SUFFICES ASSUME job = "scan" /\ hits = 0 PROVE ScanInv'
    BY <1>1 DEF ScanInv
  <2>1. Fresh \/ Retracing
    BY <1>1 DEF SearchInv, ScanInv
  <2>2. Scan!Reported' = Scan!Reported /\ Unreported' = Unreported /\ Scan!Reported \subseteq present
    BY <1>1 DEF SearchInv, ScanInv, Scan!Reported, Unreported
  <2>3. st.last_device => Unreported = {}
    <3> SUFFICES ASSUME st.last_device PROVE Unreported = {}
      OBVIOUS
    <3>1. Retracing /\ st.last_discrepancy = 0
      BY <2>1 DEF Fresh, Retracing
    <3>2. LastFork(0, present, st.rom, RomBits)
      BY <3>1 DEF Retracing
    <3> QED BY <3>1, <3>2, NoneAhead, SteadyFacts DEF Retracing
  <2>4. (Fresh <=> Fresh') /\ (Retracing <=> Retracing')
    BY <1>1, <2>2 DEF Fresh, Retracing
  <2> QED BY <1>1, <2>1, <2>2, <2>3, <2>4 DEF ScanInv, Searching, Over
<1>4. VerifyInv'
  BY <1>1 DEF SearchInv, VerifyInv
<1> QED
  BY <1>2, <1>3, <1>4 DEF SearchInv

LEMMA SearchResets ==
  ASSUME TypeInv, SearchInv, Steady, Steady', ResetBus
  PROVE  SearchInv'
<1>1. /\ UNCHANGED <<present, dead, id, dir, job, st, bitno, zero, target, answer, byte, reports>>
      /\ pc = "reset" /\ turn' = "bit" /\ place' = 1 /\ hits' = hits /\ hits = 0
      /\ bitno = 1 /\ zero = 0 /\ RomBits \in Nat \ {0}
  BY Bounds DEF ResetBus, caller, Steady, TypeInv, Jobs
<1>2. ~dead /\ present \in SUBSET Rom /\ job # "read"
  BY SteadyFacts DEF Steady
<1>3. /\ on' = present
      /\ pc' = (IF present = {} THEN "judge" ELSE "id")
  BY <1>1, <1>2, ResetCalled DEF TypeInv
<1>4. Following(present, st.rom, 0) = present /\ Ahead(present, st.rom, 0) = {} /\ Forks(present, st.rom, 0) = {}
  BY AtTheStart
<1>5. InStep'
  BY <1>1, <1>3, <1>4 DEF InStep, Searching
<1>6. ScanInv'
  <2> SUFFICES ASSUME job = "scan" PROVE ScanInv'
    BY <1>1 DEF ScanInv
  <2>1. Fresh \/ (Retracing /\ ~st.last_device)
    BY <1>1 DEF SearchInv, ScanInv
  <2>2. Scan!Reported' = Scan!Reported /\ Unreported' = Unreported /\ Scan!Reported \subseteq present
    BY <1>1 DEF SearchInv, ScanInv, Scan!Reported, Unreported
  <2>3. (Retracing <=> Retracing')
    BY <1>1, <2>2 DEF Retracing
  <2>4. LastFork(0, present, st.rom, 0)
    BY <1>4 DEF LastFork
  <2>5. ~st.last_device
    BY <2>1 DEF Fresh
  <2>6. CASE present = {}
    <3>1. pc' = "judge" /\ Unreported' = {} /\ Scan!Reported' \subseteq present'
      BY <1>1, <1>3, <2>2, <2>6 DEF Unreported
    <3> QED BY <1>1, <3>1 DEF ScanInv, Searching, Over
  <2>7. CASE present # {}
    <3>1. pc' = "id" /\ Decided' = 0
      BY <1>1, <1>3, <2>7 DEF Decided
    <3>2. LastFork(zero', present', st'.rom, Decided')
      BY <1>1, <2>4, <3>1
    <3>3. 0 < st.last_discrepancy => Retracing
      BY <2>1 DEF Fresh
    <3>4. ASSUME ~(0 < st.last_discrepancy) PROVE Unreported = present
      <4>1. st.last_discrepancy = 0
        BY <3>4, SteadyFacts, Bounds DEF Search
      <4>2. Fresh
        BY <2>1, <4>1 DEF Retracing
      <4>3. Scan!Reported = {}
        BY <4>2 DEF Fresh, Scan!Reported
      <4> QED BY <4>3 DEF Unreported
    <3>5. IF Decided' < st'.last_discrepancy THEN Retracing'
          ELSE Unreported' = Following(present', st'.rom, Decided') \cup Ahead(present', st'.rom, Decided')
      BY <1>1, <1>4, <2>2, <2>3, <3>1, <3>3, <3>4
    <3> QED BY <1>1, <2>2, <2>5, <3>1, <3>2, <3>5 DEF ScanInv, Searching, Over
  <2> QED BY <2>6, <2>7
<1>7. VerifyInv'
  BY <1>1, <1>3 DEF SearchInv, VerifyInv, Steady
<1> QED
  BY <1>5, <1>6, <1>7 DEF SearchInv

LEMMA SearchReadsId ==
  ASSUME TypeInv, SearchInv, Steady, Steady', ReadId
  PROVE  SearchInv'
<1>1. /\ UNCHANGED <<present, dead, dir, job, st, bitno, zero, target, answer, byte, reports>>
      /\ pc = "id" /\ pc' = "complement" /\ hits' = hits /\ hits = 0
  BY DEF ReadId, caller, Steady
<1>2. id' = Wired({s[bitno] : s \in on}) /\ turn' = "complement" /\ place' = place /\ on' = on
  BY <1>1, CleanReadId DEF SearchInv
<1>3. InStep'
  BY <1>1, <1>2 DEF SearchInv, InStep, Searching, Steady
<1>4. ScanInv'
  <2>1. Scan!Reported' = Scan!Reported /\ Unreported' = Unreported /\ Decided' = Decided
    BY <1>1 DEF Scan!Reported, Unreported, Decided
  <2>2. Retracing <=> Retracing'
    BY <1>1, <2>1 DEF Retracing
  <2> QED BY <1>1, <2>1, <2>2 DEF SearchInv, ScanInv, Searching, Over
<1>5. VerifyInv'
  BY <1>1 DEF SearchInv, VerifyInv
<1> QED
  BY <1>3, <1>4, <1>5 DEF SearchInv

\* The code and its neighbour are not both on the bus.
LEMMA NoNeighbour ==
  ASSUME NEW s \in Sensor, NEW r \in Sensor, NEW k \in 1 .. RomBits, r = Flipped(s, k)
  PROVE  FALSE
<1>1. s \in Rom /\ r \in Misread(s) /\ Misread(s) \cap Sensor \subseteq {s}
  BY SensorAssumption DEF Misread
<1>2. r[k] = 1 - s[k] /\ s[k] \in Bit
  BY <1>1 DEF Flipped, Rom
<1>3. r = s
  BY <1>1
<1> QED
  BY <1>2, <1>3 DEF Bit

LEMMA SearchReadsComplement ==
  ASSUME TypeInv, SearchInv, Steady, Steady', ReadComplement
  PROVE  SearchInv'
<1>1. /\ UNCHANGED <<present, dead, id, job, bitno, target, answer, byte, reports>>
      /\ pc = "complement" /\ hits' = hits /\ hits = 0
  BY DEF ReadComplement, Steady
<1>2. PICK D \in Bit :
           /\ pc' = "write" /\ turn' = "listen" /\ place' = place /\ on' = on
           /\ dir' = D /\ st' = [st EXCEPT !.rom = [st.rom EXCEPT ![bitno] = D]]
           /\ \E s \in on : s[bitno] = D
           /\ zero' = IF D = 0 /\ \E s \in on : s[bitno] = 1 THEN bitno ELSE zero
           /\ (\E s \in on : s[bitno] = 0) /\ (\E s \in on : s[bitno] = 1) =>
                 D = IF bitno < st.last_discrepancy THEN st.rom[bitno]
                     ELSE IF bitno = st.last_discrepancy THEN 1 ELSE 0
  BY <1>1, CleanReadComplement DEF SearchInv
<1>3. /\ present \in SUBSET Rom /\ st \in Search /\ st.rom \in Rom /\ bitno \in 1 .. RomBits /\ RomBits \in Nat \ {0}
      /\ place = bitno /\ on = Following(present, st.rom, bitno - 1) /\ on # {} /\ on \in SUBSET Rom
      /\ st.last_discrepancy \in 0 .. RomBits /\ zero \in 0 .. RomBits
  BY <1>1, SteadyFacts, Bounds DEF SearchInv, InStep, Searching, Search, TypeInv, TypeOK
<1>4. PICK P, r, k, q, d : P = present /\ r = st.rom /\ k = bitno /\ q = st'.rom /\ d = st.last_discrepancy
  OBVIOUS
<1>5. /\ q = [r EXCEPT ![k] = D] /\ st'.last_discrepancy = d /\ st'.last_device = st.last_device
  BY <1>2, <1>3, <1>4 DEF Search
<1>6. /\ q \in Rom /\ q[k] = D
      /\ Following(P, q, k - 1) = Following(P, r, k - 1)
      /\ Following(P, q, k) = {s \in Following(P, r, k - 1) : s[k] = D}
      /\ Ahead(P, q, k) = Ahead(P, r, k - 1) \cup {s \in Following(P, r, k - 1) : D = 0 /\ s[k] = 1}
      /\ Forks(P, q, k) = Forks(P, r, k - 1)
                \cup {i \in {k} : D = 0 /\ \E s \in Following(P, r, k - 1) : s[k] = 1}
  <2>1. P \in SUBSET Rom /\ r \in Rom /\ k \in 1 .. RomBits
    BY <1>3, <1>4
  <2>2. Continues([r EXCEPT ![k] = D], r, k, D, P)
    BY <2>1, OneBitFurther
  <2> QED BY <1>5, <2>2, Zenon DEF Continues
<1>7. \A s \in on : s[k] \in Bit
  BY <1>3, <1>4 DEF Rom
<1>8. on = Following(P, r, k - 1)
  BY <1>3, <1>4
<1>9. InStep'
  <2>1. on' = Following(present', st'.rom, bitno' - 1) /\ on' # {} /\ place' = bitno'
    BY <1>1, <1>2, <1>3, <1>4, <1>6
  <2>2. \E s \in on' : s[bitno'] = st'.rom[bitno']
    BY <1>1, <1>2, <1>4, <1>6
  <2> QED BY <1>2, <2>1, <2>2 DEF InStep, Searching
<1>10. ScanInv'
  <2> SUFFICES ASSUME job = "scan" PROVE ScanInv'
    BY <1>1 DEF ScanInv
  <2>1. /\ ~st.last_device /\ LastFork(zero, P, r, k - 1)
        /\ IF k - 1 < d THEN Retracing
           ELSE Unreported = Following(P, r, k - 1) \cup Ahead(P, r, k - 1)
        /\ Scan!Reported \subseteq present
    <3>1. Decided = k - 1 /\ Searching
      BY <1>1, <1>4 DEF Decided, Searching
    <3> QED BY <1>1, <1>4, <3>1 DEF SearchInv, ScanInv
  <2>2. Scan!Reported' = Scan!Reported /\ Unreported' = Unreported /\ Decided' = k
    BY <1>1, <1>2, <1>4 DEF Scan!Reported, Unreported, Decided
  <2>3. LastFork(zero', P, q, k)
    <3>1. CASE D = 0 /\ \E s \in on : s[k] = 1
      <4>1. zero' = k /\ Forks(P, q, k) = Forks(P, r, k - 1) \cup {k}
        BY <1>2, <1>4, <1>6, <1>8, <3>1
      <4>2. \A i \in Forks(P, r, k - 1) : i <= k
        BY <1>3, <1>4 DEF Forks
      <4> QED BY <1>3, <1>4, <4>1, <4>2 DEF LastFork
    <3>2. CASE ~(D = 0 /\ \E s \in on : s[k] = 1)
      <4>1. zero' = zero /\ Forks(P, q, k) = Forks(P, r, k - 1)
        BY <1>2, <1>4, <1>6, <1>8, <3>2
      <4> QED BY <2>1, <4>1 DEF LastFork
    <3> QED BY <3>1, <3>2
  <2>4. ASSUME k < d PROVE Retracing'
    <3>1. Retracing
      BY <1>3, <1>4, <2>1, <2>4
    <3>2. r \in on
      <4>1. r \in P
        BY <1>4, <3>1 DEF Retracing
      <4> QED BY <1>8, <4>1 DEF Following, Agree
    <3>3. D = r[k]
      <4>1. PICK s \in on : s[k] = D
        BY <1>2, <1>4
      <4>2. CASE r[k] = D
        BY <4>2
      <4>3. CASE r[k] # D
        <5>1. (\E x \in on : x[k] = 0) /\ (\E x \in on : x[k] = 1)
          BY <1>7, <3>2, <4>1, <4>3 DEF Bit
        <5> QED BY <1>2, <1>4, <2>4, <5>1
      <4> QED BY <4>2, <4>3
    <3>4. q = r
      BY <1>3, <1>4, <1>5, <3>3 DEF Rom
    <3> QED BY <1>1, <1>4, <1>5, <2>2, <3>1, <3>4 DEF Retracing
  <2>5. ASSUME k = d PROVE Unreported = Following(P, q, k) \cup Ahead(P, q, k)
    <3>1. Retracing
      BY <1>3, <1>4, <2>1, <2>5
    <3>2. r \in on
      <4>1. r \in P
        BY <1>4, <3>1 DEF Retracing
      <4> QED BY <1>8, <4>1 DEF Following, Agree
    <3>3. /\ r[d] = 0 /\ \E s \in Following(P, r, d - 1) : s[d] = 1
          /\ Ahead(P, r, RomBits) = Ahead(P, r, d - 1) \cup {s \in Following(P, r, d - 1) : s[d] = 1}
      <4>1. LastFork(d, P, r, RomBits) /\ d \in 1 .. RomBits
        BY <1>3, <1>4, <2>5, <3>1 DEF Retracing
      <4> QED BY <1>3, <1>4, <4>1, AheadOfTheLast
    <3>4. D = 1
      <4>1. (\E s \in on : s[bitno] = 0) /\ (\E s \in on : s[bitno] = 1)
        BY <1>4, <1>8, <2>5, <3>2, <3>3
      <4>2. D = IF bitno < st.last_discrepancy THEN st.rom[bitno]
                     ELSE IF bitno = st.last_discrepancy THEN 1 ELSE 0
        BY <1>2, <4>1
      <4>3. bitno = st.last_discrepancy /\ ~(bitno < st.last_discrepancy)
        BY <1>3, <1>4, <2>5
      <4> QED BY <4>2, <4>3
    <3>5. Unreported = Ahead(P, r, RomBits)
      BY <1>4, <3>1 DEF Retracing
    <3> QED BY <1>6, <2>5, <3>3, <3>4, <3>5
  <2>6. ASSUME k > d PROVE Unreported = Following(P, q, k) \cup Ahead(P, q, k)
    <3>1. Unreported = on \cup Ahead(P, r, k - 1)
      BY <1>3, <1>4, <1>8, <2>1, <2>6
    <3>2. \A s \in on : s[k] = D \/ (D = 0 /\ s[k] = 1)
      <4> TAKE s \in on
      <4>1. PICK x \in on : x[k] = D
        BY <1>2, <1>4
      <4>2. CASE s[k] = D
        BY <4>2
      <4>3. CASE s[k] # D
        <5>1. (\E y \in on : y[bitno] = 0) /\ (\E y \in on : y[bitno] = 1)
          BY <1>4, <1>7, <4>1, <4>3 DEF Bit
        <5>2. D = IF bitno < st.last_discrepancy THEN st.rom[bitno]
                     ELSE IF bitno = st.last_discrepancy THEN 1 ELSE 0
          BY <1>2, <5>1
        <5>3. D = 0
          BY <1>3, <1>4, <2>6, <5>2
        <5> QED BY <1>7, <4>3, <5>3 DEF Bit
      <4> QED BY <4>2, <4>3
    <3>3. on = {s \in on : s[k] = D} \cup {s \in on : D = 0 /\ s[k] = 1}
      BY <3>2
    <3>4. Following(P, q, k) = {s \in on : s[k] = D}
          /\ Ahead(P, q, k) = Ahead(P, r, k - 1) \cup {s \in on : D = 0 /\ s[k] = 1}
      BY <1>6, <1>8
    <3> QED BY <3>1, <3>3, <3>4
  <2>7. IF k < d THEN Retracing' ELSE Unreported = Following(P, q, k) \cup Ahead(P, q, k)
    BY <1>3, <1>4, <2>4, <2>5, <2>6
  <2>8. /\ ~st'.last_device /\ LastFork(zero', present', st'.rom, Decided')
        /\ IF Decided' < st'.last_discrepancy THEN Retracing'
           ELSE Unreported' = Following(present', st'.rom, Decided') \cup Ahead(present', st'.rom, Decided')
    BY <1>1, <1>4, <1>5, <2>1, <2>2, <2>3, <2>7
  <2> QED BY <1>1, <1>2, <2>1, <2>2, <2>8 DEF ScanInv, Searching, Over
<1>11. VerifyInv'
  <2> SUFFICES ASSUME job = "verify" PROVE VerifyInv'
    BY <1>1 DEF VerifyInv
  <2>1. target \in Sensor /\ d = RomBits /\ ~st.last_device /\ (target \in present => r = target)
    BY <1>1, <1>4 DEF SearchInv, VerifyInv
  <2>2. ASSUME target \in present PROVE q = target
    <3>1. r \in on /\ r = target
      <4>1. r \in P
        BY <1>4, <2>1, <2>2
      <4> QED BY <1>8, <2>1, <2>2, <4>1 DEF Following, Agree
    <3>2. PICK s \in on : s[k] = D
      BY <1>2, <1>4
    <3>3. D = r[k]
      <4>1. CASE r[k] = D
        BY <4>1
      <4>2. CASE r[k] # D
        <5>1. (\E x \in on : x[k] = 0) /\ (\E x \in on : x[k] = 1)
          BY <1>7, <3>1, <3>2, <4>2 DEF Bit
        <5>2. CASE k < d
          BY <1>2, <1>4, <5>1, <5>2
        <5>3. CASE k = d
          <6>1. \A i \in 1 .. RomBits - 1 : s[i] = r[i]
            BY <1>8, <2>1, <5>3 DEF Following, Agree
          <6>2. s[RomBits] = 1 - r[RomBits]
            BY <1>7, <2>1, <3>1, <3>2, <4>2, <5>3 DEF Bit
          <6>3. s \in Rom /\ r \in Rom
            BY <1>3, <1>4
          <6>4. s = Flipped(r, RomBits)
            <7>1. \A i \in 1 .. RomBits : s[i] = Flipped(r, RomBits)[i]
              BY <1>3, <6>1, <6>2, <6>3 DEF Flipped, Rom
            <7>2. DOMAIN s = 1 .. RomBits /\ DOMAIN Flipped(r, RomBits) = 1 .. RomBits
              BY <6>3 DEF Flipped, Rom
            <7>3. s = [i \in 1 .. RomBits |-> s[i]] /\ Flipped(r, RomBits) = [i \in 1 .. RomBits |-> Flipped(r, RomBits)[i]]
              BY <6>3, <7>2 DEF Flipped, Rom
            <7> QED BY <7>1, <7>3
          <6>5. s \in Sensor /\ r \in Sensor /\ RomBits \in 1 .. RomBits
            BY <1>3, <2>1, <3>1 DEF TypeInv, TypeOK
          <6> QED BY <6>4, <6>5, NoNeighbour
        <5> QED BY <1>3, <1>4, <2>1, <5>2, <5>3
      <4> QED BY <4>1, <4>2
    <3>4. q = r
      BY <1>3, <1>4, <1>5, <3>3 DEF Rom
    <3> QED BY <3>1, <3>4
  <2> QED BY <1>1, <1>2, <1>4, <1>5, <2>1, <2>2 DEF VerifyInv
<1> QED
  BY <1>9, <1>10, <1>11 DEF SearchInv

LEMMA SearchWrites ==
  ASSUME TypeInv, SearchInv, Steady, Steady', WriteDirection
  PROVE  SearchInv'
<1>1. /\ UNCHANGED <<present, rb, dead, id, dir, job, st, zero, target, answer, byte, reports>>
      /\ pc = "write" /\ bitno' = bitno + 1 /\ hits' = hits /\ hits = 0
      /\ pc' = IF bitno = RomBits THEN "judge" ELSE "id"
  BY DEF WriteDirection, Steady
<1>2. on' = {s \in on : s[bitno] = st.rom[bitno]} /\ turn' = "bit" /\ place' = place + 1
  BY <1>1, CleanWriteDirection DEF SearchInv
<1>3. /\ present \in SUBSET Rom /\ st.rom \in Rom /\ bitno \in 1 .. RomBits /\ RomBits \in Nat \ {0}
      /\ place = bitno /\ on = Following(present, st.rom, bitno - 1)
      /\ \E s \in on : s[bitno] = st.rom[bitno]
  BY <1>1, SteadyFacts, Bounds DEF SearchInv, InStep, Searching
<1>4. Following(present, st.rom, bitno) = on'
  <2>1. \A s : Agree(s, st.rom, bitno) <=> Agree(s, st.rom, bitno - 1) /\ s[bitno] = st.rom[bitno]
    BY <1>3 DEF Agree
  <2> QED BY <1>2, <1>3, <2>1 DEF Following
<1>5. on' # {}
  BY <1>2, <1>3
<1>6. InStep'
  <2>1. CASE bitno = RomBits
    <3>1. present \cap {st.rom} # {}
      BY <1>3, <1>4, <1>5, <2>1, AtTheEnd
    <3>2. st.rom \in present
      BY <3>1
    <3> QED BY <1>1, <2>1, <3>2 DEF InStep, Searching
  <2>2. CASE bitno # RomBits
    <3>1. pc' = "id" /\ bitno' - 1 = bitno /\ place' = bitno'
      BY <1>1, <1>2, <1>3, <2>2
    <3>2. on' = Following(present', st'.rom, bitno' - 1)
      BY <1>1, <1>4, <3>1
    <3> QED BY <1>2, <1>5, <3>1, <3>2 DEF InStep, Searching
  <2> QED BY <2>1, <2>2
<1>7. ScanInv'
  <2> SUFFICES ASSUME job = "scan" PROVE ScanInv'
    BY <1>1 DEF ScanInv
  <2>1. Scan!Reported' = Scan!Reported /\ Unreported' = Unreported
    BY <1>1 DEF Scan!Reported, Unreported
  <2>2. Decided' = Decided /\ Decided = bitno
    BY <1>1, <1>3 DEF Decided
  <2>3. Retracing <=> Retracing'
    BY <1>1, <2>1 DEF Retracing
  <2>4. /\ ~st.last_device /\ LastFork(zero, present, st.rom, Decided)
        /\ IF Decided < st.last_discrepancy THEN Retracing
           ELSE Unreported = Following(present, st.rom, Decided) \cup Ahead(present, st.rom, Decided)
        /\ Scan!Reported \subseteq present
    BY <1>1 DEF SearchInv, ScanInv, Searching
  <2>5. /\ ~st'.last_device /\ LastFork(zero', present', st'.rom, Decided')
        /\ IF Decided' < st'.last_discrepancy THEN Retracing'
           ELSE Unreported' = Following(present', st'.rom, Decided') \cup Ahead(present', st'.rom, Decided')
        /\ Scan!Reported' \subseteq present'
    BY <1>1, <2>1, <2>2, <2>3, <2>4
  <2>6. pc' \in {"judge", "id"} /\ (pc' = "judge" => ~(bitno' <= RomBits))
    BY <1>1, <1>3
  <2> QED BY <2>5, <2>6 DEF ScanInv
<1>8. VerifyInv'
  <2>1. pc' = "judge" => ~(bitno' <= RomBits)
    BY <1>1, <1>3
  <2> QED BY <1>1, <2>1 DEF SearchInv, VerifyInv
<1> QED
  BY <1>6, <1>7, <1>8 DEF SearchInv

\* The scan reports the code it has found.
LEMMA CodeFound ==
  ASSUME TypeInv, SearchInv, job = "scan", hits = 0, pc = "judge", bitno > RomBits
  PROVE  /\ st.rom \in present /\ st.rom \in Unreported /\ Found
         /\ Unreported = {st.rom} \cup Ahead(present, st.rom, RomBits)
         /\ LastFork(zero, present, st.rom, RomBits)
<1>1. st.rom \in present /\ present \in SUBSET Rom /\ st.rom \in Rom /\ bitno = RomBits + 1 /\ RomBits \in Nat \ {0}
      /\ st.last_discrepancy \in 0 .. RomBits /\ present \subseteq Sensor
  BY SteadyFacts, Bounds DEF SearchInv, InStep, Steady, TypeInv, TypeOK, Search
<1>2. Decided = RomBits
  BY <1>1 DEF Decided
<1>3. /\ LastFork(zero, present, st.rom, RomBits)
      /\ Unreported = Following(present, st.rom, RomBits) \cup Ahead(present, st.rom, RomBits)
  BY <1>1, <1>2 DEF SearchInv, ScanInv, Over
<1>4. Following(present, st.rom, RomBits) = {st.rom}
  BY <1>1, AtTheEnd
<1>5. Found
  BY <1>1, SensorAssumption DEF Found, CrcHolds
<1> QED
  BY <1>1, <1>3, <1>4, <1>5

LEMMA SearchReports ==
  ASSUME TypeInv, SearchInv, Steady, Steady', Judge, job = "scan", Found, Len(reports) < MaxDevices
  PROVE  SearchInv'
<1>1. /\ reports' = Append(reports, st.rom)
      /\ st' = [st EXCEPT !.last_discrepancy = zero, !.last_device = (zero = 0)]
      /\ pc' = "enter" /\ pc = "judge" /\ hits = 0 /\ present' = present
      /\ UNCHANGED <<hits, dead, sensors, id, dir, bitno, zero, job, target, answer>>
  BY DEF Judge, Steady
<1>2. bitno > RomBits
  BY DEF Found
<1>3. /\ st.rom \in present /\ st.rom \in Unreported /\ Found
      /\ Unreported = {st.rom} \cup Ahead(present, st.rom, RomBits)
      /\ LastFork(zero, present, st.rom, RomBits)
  BY <1>1, <1>2, CodeFound
<1>4. st \in Search /\ reports \in Seq(Sensor)
  BY DEF TypeInv, TypeOK
<1>5. st'.rom = st.rom /\ st'.last_discrepancy = zero /\ (st'.last_device <=> zero = 0)
  BY <1>1, <1>4 DEF Search
<1>6. Scan!Reported' = Scan!Reported \cup {st.rom}
  <2>1. DOMAIN reports' = DOMAIN reports \cup {Len(reports) + 1} /\ reports'[Len(reports) + 1] = st.rom
        /\ \A i \in DOMAIN reports : reports'[i] = reports[i]
    BY <1>1, <1>4
  <2> QED BY <2>1 DEF Scan!Reported
<1>7. Unreported' = Ahead(present, st.rom, RomBits)
  <2>1. st.rom \notin Ahead(present, st.rom, RomBits)
    BY NotAheadOfItself
  <2>2. Unreported' = Unreported \ {st.rom}
    BY <1>1, <1>6 DEF Unreported
  <2> QED BY <1>3, <2>1, <2>2
<1>8. Scan!Reported \subseteq present
  BY <1>1 DEF SearchInv, ScanInv
<1>9. Retracing'
  BY <1>1, <1>3, <1>5, <1>7 DEF Retracing
<1>10. ScanInv'
  BY <1>1, <1>3, <1>6, <1>8, <1>9 DEF ScanInv, Searching, Over
<1>11. InStep'
  BY <1>1 DEF InStep, Searching
<1>12. VerifyInv'
  BY <1>1 DEF VerifyInv
<1> QED
  BY <1>10, <1>11, <1>12 DEF SearchInv

LEMMA SearchInit == Init => SearchInv
BY DEF Init, SearchInv, InStep, ScanInv, VerifyInv, Steady

LEMMA SearchNext == TypeInv /\ SearchInv /\ [Next]_vars => SearchInv'
<1> SUFFICES ASSUME TypeInv, SearchInv, [Next]_vars PROVE SearchInv'
  OBVIOUS
<1>1. CASE ~Steady'
  <2>1. ~(job' = "scan" /\ hits' = 0) /\ ~(job' = "verify" /\ hits' = 0)
    BY <1>1 DEF Steady
  <2> QED BY <1>1, <2>1 DEF SearchInv, InStep, ScanInv, VerifyInv
<1>2. CASE Steady'
  <2>1. CASE SearchFirst \/ \E rom \in Sensor : Verify(rom)
    BY <2>1, SearchBegins
  <2>2. CASE /\ Steady
             /\ \/ Enter \/ ResetBus \/ ReadId \/ ReadComplement \/ WriteDirection
                \/ (Judge /\ job = "scan" /\ Found /\ Len(reports) < MaxDevices)
    BY <1>2, <2>2, SearchEnters, SearchResets, SearchReadsId, SearchReadsComplement, SearchWrites, SearchReports
  <2>3. CASE UNCHANGED vars
    <3>1. UNCHANGED <<present, hits, on, turn, place, pc, id, dir, job, st, bitno, zero, target, reports>>
      BY <2>3 DEF vars, sensors, caller
    <3>2. Scan!Reported' = Scan!Reported /\ Unreported' = Unreported /\ Decided' = Decided
      BY <3>1 DEF Scan!Reported, Unreported, Decided
    <3>3. (Retracing <=> Retracing') /\ (Fresh <=> Fresh') /\ (Searching <=> Searching') /\ (Over <=> Over') /\ (Steady <=> Steady')
      BY <3>1, <3>2 DEF Retracing, Fresh, Searching, Over, Steady
    <3>4. InStep'
      BY <3>1, <3>3 DEF SearchInv, InStep
    <3>5. ScanInv'
      BY <3>1, <3>2, <3>3 DEF SearchInv, ScanInv
    <3>6. VerifyInv'
      BY <3>1 DEF SearchInv, VerifyInv
    <3> QED BY <3>4, <3>5, <3>6 DEF SearchInv
  <2> QED BY <1>2, <2>1, <2>2, <2>3, WhichStep
<1> QED
  BY <1>1, <1>2

-----------------------------------------------------------------------------
(* Reading the code of a lone sensor.                                       *)

\* The code as it comes out when nothing happens any more.
Expected == [i \in 1 .. RomBits |->
    IF i < bitno THEN answer[i] ELSE IF dead THEN 0 ELSE Wired({r[place + (i - bitno)] : r \in on})]

\* It is the code of the sensor, or after one disturbance what that makes of it (Misread).
ReadInv ==
  job = "read" /\ hits <= 1 =>
    \A s \in Sensor : present = {s} =>
      /\ pc = "code" => /\ Expected \in {s} \cup Misread(s)
                        /\ hits = 0 => Expected = s /\ on = {s} /\ place = bitno
      /\ pc = "check" => answer \in {s} \cup Misread(s)

\* One sensor alone is heard as it sends, and nobody as ones.
LEMMA WiredOne == ASSUME NEW b \in Bit PROVE Wired({b}) = b /\ Wired({}) = 1
BY DEF Wired, Bit

LEMMA ReadResets ==
  ASSUME TypeInv, ReadInv, ResetBus, job = "read"
  PROVE  ReadInv'
<1>1. /\ UNCHANGED <<present, dead, id, dir, job, st, bitno, zero, target, answer, byte, reports>>
      /\ pc = "reset" /\ place' = 1 /\ bitno = 1 /\ RomBits \in Nat \ {0} /\ hits \in 0 .. MaxFaults /\ MaxFaults \in Nat
  BY Bounds DEF ResetBus, caller, TypeInv, Jobs, TypeOK
<1>2. /\ pc' \in {"judge", "code"}
      /\ dead => pc' = "judge"
      /\ hits' >= hits /\ hits' \in 0 .. MaxFaults
      /\ on' \subseteq present /\ (on' = present \/ hits' > hits)
  BY ResetCalled DEF TypeInv
<1>3. ASSUME pc' = "code", NEW s \in Sensor, present = {s}
      PROVE  /\ Expected' \in {s} \cup Misread(s)
             /\ hits' = 0 => Expected' = s /\ on' = {s} /\ place' = bitno'
  <2>1. s \in Rom
    BY Bounds
  <2>2. Expected' = [i \in 1 .. RomBits |-> Wired({r[1 + (i - 1)] : r \in on'})]
    <3>1. bitno' = 1 /\ place' = 1 /\ ~dead'
      BY <1>1, <1>2, <1>3
    <3> QED BY <3>1 DEF Expected
  <2>3. CASE on' = {s}
    <3>1. \A i \in 1 .. RomBits : Wired({r[1 + (i - 1)] : r \in on'}) = s[i]
      <4> TAKE i \in 1 .. RomBits
      <4>1. {r[1 + (i - 1)] : r \in on'} = {s[i]} /\ s[i] \in Bit
        BY <1>1, <2>1, <2>3 DEF Rom
      <4> QED BY <4>1, WiredOne
    <3>2. Expected' = s
      BY <2>1, <2>2, <3>1 DEF Rom
    <3> QED BY <1>1, <2>3, <3>2
  <2>4. CASE on' = {} /\ hits' > hits
    <3>1. \A i \in 1 .. RomBits : {r[1 + (i - 1)] : r \in on'} = {}
      BY <2>4
    <3>2. Expected' = [i \in 1 .. RomBits |-> 1]
      BY <2>2, <3>1, WiredOne DEF Bit
    <3>3. hits' # 0
      BY <1>1, <2>4
    <3> QED BY <3>2, <3>3 DEF Misread
  <2> QED BY <1>2, <1>3, <2>3, <2>4
<1> QED
  BY <1>1, <1>2, <1>3 DEF ReadInv

\* A byte read without a disturbance is what was expected.
LEMMA ExpectedKept ==
  ASSUME TypeInv, ReadCode, hits' = hits
  PROVE  Expected' = Expected
<1>1. /\ bitno' = bitno + ByteBits /\ UNCHANGED <<dead, on>> /\ bitno \in Nat /\ place \in Nat /\ ByteBits \in 1 .. 8
      /\ RomBits \in Nat
  BY Bounds DEF ReadCode, TypeInv, TypeOK
<1>2. PICK bits \in [1 .. ByteBits -> Bit], driven \in BOOLEAN : CodeRead(bits, driven)
  BY CodeCalled DEF TypeInv
<1>3. /\ place' = place + ByteBits
      /\ answer' = [i \in 1 .. RomBits |->
                   IF i \in bitno .. bitno + ByteBits - 1 THEN bits[i - bitno + 1] ELSE answer[i]]
      /\ bits = IF dead THEN [i \in 1 .. ByteBits |-> 0] ELSE CodeSent
  BY <1>2 DEF CodeRead
<1>4. PICK was : was = Expected
  OBVIOUS
<1>5. ASSUME NEW i \in 1 .. RomBits PROVE Expected'[i] = Expected[i]
  <2>1. /\ Expected'[i] = IF i < bitno' THEN answer'[i] ELSE IF dead' THEN 0 ELSE Wired({r[place' + (i - bitno')] : r \in on'})
        /\ Expected[i] = IF i < bitno THEN answer[i] ELSE IF dead THEN 0 ELSE Wired({r[place + (i - bitno)] : r \in on})
    BY DEF Expected
  <2>2. CASE i < bitno
    <3>1. i < bitno' /\ i \notin bitno .. bitno + ByteBits - 1
      BY <1>1, <2>2
    <3> QED BY <1>3, <2>1, <2>2, <3>1
  <2>3. CASE i \in bitno .. bitno + ByteBits - 1
    <3>1. i < bitno' /\ ~(i < bitno) /\ i - bitno + 1 \in 1 .. ByteBits /\ place + (i - bitno + 1) - 1 = place + (i - bitno)
      BY <1>1, <2>3
    <3>2. Expected'[i] = bits[i - bitno + 1]
      BY <1>3, <2>1, <2>3, <3>1
    <3>3. CASE dead
      BY <1>3, <2>1, <3>1, <3>2, <3>3
    <3>4. CASE ~dead
      <4>1. bits[i - bitno + 1] = Wired({s[place + (i - bitno + 1) - 1] : s \in on})
        BY <1>3, <3>1, <3>4 DEF CodeSent
      <4> QED BY <2>1, <3>1, <3>2, <3>4, <4>1
    <3> QED BY <3>3, <3>4
  <2>4. CASE i >= bitno + ByteBits
    <3>1. ~(i < bitno') /\ ~(i < bitno) /\ place' + (i - bitno') = place + (i - bitno)
      BY <1>1, <1>3, <2>4
    <3>2. PICK m : m = place + (i - bitno)
      OBVIOUS
    <3>3. Expected'[i] = (IF dead THEN 0 ELSE Wired({r[m] : r \in on}))
      BY <1>1, <2>1, <3>1, <3>2
    <3>4. Expected[i] = (IF dead THEN 0 ELSE Wired({r[m] : r \in on}))
      BY <2>1, <3>1, <3>2
    <3> QED BY <3>3, <3>4
  <2> QED BY <1>1, <2>2, <2>3, <2>4
<1>6. Expected = [i \in 1 .. RomBits |-> Expected[i]] /\ Expected' = [i \in 1 .. RomBits |-> Expected'[i]]
  BY DEF Expected
<1> QED
  BY <1>5, <1>6

\* A disturbance makes one of the misreadings of a code.
LEMMA ExpectedMisread ==
  ASSUME TypeInv, ReadCode, hits' # hits, ~dead, NEW s \in Sensor, Expected = s, on = {s}, place = bitno, bitno \in ByteStart
  PROVE  Expected' \in Misread(s)
<1>1. /\ bitno' = bitno + ByteBits /\ UNCHANGED <<dead, on>> /\ bitno \in 1 .. RomBits /\ ByteBits \in 1 .. 8
      /\ RomBits \in Nat /\ s \in Rom /\ bitno + ByteBits - 1 \in bitno .. RomBits
  BY Bounds, ByteEnds DEF ReadCode
<1>2. PICK bits \in [1 .. ByteBits -> Bit], driven \in BOOLEAN : CodeRead(bits, driven)
  BY CodeCalled DEF TypeInv
<1>3. PICK B : B = bitno
  OBVIOUS
<1>4. /\ place' = IF driven THEN B + ByteBits ELSE B
      /\ answer' = [i \in 1 .. RomBits |-> IF i \in B .. B + ByteBits - 1 THEN bits[i - B + 1] ELSE answer[i]]
      /\ \/ driven /\ \E i \in 1 .. ByteBits : bits = [CodeSent EXCEPT ![i] = 1 - CodeSent[i]]
         \/ bits = [i \in 1 .. ByteBits |-> 0]
  BY <1>2, <1>3 DEF CodeRead
<1>5. B \in 1 .. RomBits /\ B + ByteBits - 1 \in B .. RomBits /\ B \in ByteStart
  BY <1>1, <1>3
<1>6. \A i \in 1 .. RomBits : i < B => answer[i] = s[i]
  <2>1. \A i \in 1 .. RomBits : i < bitno => Expected[i] = answer[i]
    BY DEF Expected
  <2> QED BY <1>3, <2>1
<1>7. \A j \in 1 .. ByteBits : CodeSent[j] = s[B + j - 1]
  <2> TAKE j \in 1 .. ByteBits
  <2>1. CodeSent[j] = Wired({r[B + j - 1] : r \in on})
    BY <1>3 DEF CodeSent
  <2>2. PICK m : m = B + j - 1
    OBVIOUS
  <2>3. m \in 1 .. RomBits
    BY <1>1, <1>5, <2>2
  <2>4. {r[m] : r \in on} = {s[m]} /\ s[m] \in Bit
    BY <1>1, <2>3 DEF Rom
  <2> QED BY <2>1, <2>2, <2>4, WiredOne
<1>8. /\ Expected' = [i \in 1 .. RomBits |-> Expected'[i]]
      /\ \A i \in 1 .. RomBits :
            Expected'[i] = IF i < bitno' THEN answer'[i] ELSE IF dead' THEN 0 ELSE Wired({r[place' + (i - bitno')] : r \in on'})
  BY DEF Expected
<1>9. ASSUME NEW i \in 1 .. RomBits
      PROVE  Expected'[i] = IF i < B THEN s[i]
                            ELSE IF i < B + ByteBits THEN bits[i - B + 1]
                            ELSE IF driven THEN s[i] ELSE s[i - ByteBits]
  <2>1. CASE i < B
    <3>1. i < bitno' /\ i \notin B .. B + ByteBits - 1
      BY <1>1, <1>3, <2>1
    <3> QED BY <1>4, <1>6, <1>8, <2>1, <3>1
  <2>2. CASE i >= B /\ i < B + ByteBits
    <3>1. i < bitno' /\ i \in B .. B + ByteBits - 1 /\ ~(i < B)
      BY <1>1, <1>3, <2>2
    <3> QED BY <1>4, <1>8, <2>2, <3>1
  <2>3. CASE i >= B + ByteBits
    <3>1. ~(i < bitno') /\ ~(i < B) /\ ~(i < B + ByteBits)
      BY <1>1, <1>3, <2>3
    <3>2. PICK m : m = place' + (i - bitno')
      OBVIOUS
    <3>3. m = (IF driven THEN i ELSE i - ByteBits) /\ m \in 1 .. RomBits
      BY <1>1, <1>3, <1>4, <1>5, <2>3, <3>2
    <3>4. {r[place' + (i - bitno')] : r \in on'} = {s[m]} /\ s[m] \in Bit
      BY <1>1, <3>2, <3>3 DEF Rom
    <3>5. Expected'[i] = Wired({s[m]})
      BY <1>1, <1>8, <3>1, <3>4
    <3>6. Expected'[i] = s[m]
      BY <3>4, <3>5, WiredOne
    <3> QED BY <3>1, <3>3, <3>6
  <2> QED BY <1>1, <1>5, <2>1, <2>2, <2>3
<1>10. CASE driven /\ \E j \in 1 .. ByteBits : bits = [CodeSent EXCEPT ![j] = 1 - CodeSent[j]]
  <2>1. PICK j \in 1 .. ByteBits : bits = [CodeSent EXCEPT ![j] = 1 - CodeSent[j]]
    BY <1>10
  <2>2. \A m \in 1 .. ByteBits : bits[m] = IF m = j THEN 1 - s[B + m - 1] ELSE s[B + m - 1]
    BY <1>7, <2>1 DEF CodeSent
  <2>3. PICK t : t = B + j - 1
    OBVIOUS
  <2>4. t \in 1 .. RomBits
    BY <1>1, <1>5, <2>3
  <2>5. \A i \in 1 .. RomBits : Expected'[i] = IF i = t THEN 1 - s[i] ELSE s[i]
    <3> TAKE i \in 1 .. RomBits
    <3>1. CASE i >= B /\ i < B + ByteBits
      <4>1. i - B + 1 \in 1 .. ByteBits /\ B + (i - B + 1) - 1 = i /\ (i - B + 1 = j <=> i = t)
        BY <1>1, <1>5, <2>3, <3>1
      <4>2. bits[i - B + 1] = IF i - B + 1 = j THEN 1 - s[B + (i - B + 1) - 1] ELSE s[B + (i - B + 1) - 1]
        BY <2>2, <4>1
      <4>3. Expected'[i] = bits[i - B + 1]
        BY <1>5, <1>9, <3>1
      <4> QED BY <4>1, <4>2, <4>3
    <3>2. CASE ~(i >= B /\ i < B + ByteBits)
      <4>1. i # t
        BY <1>1, <1>5, <2>3, <3>2
      <4> QED BY <1>1, <1>5, <1>9, <1>10, <3>2, <4>1
    <3> QED BY <3>1, <3>2
  <2>6. Flipped(s, t) = [i \in 1 .. RomBits |-> IF i = t THEN 1 - s[i] ELSE s[i]]
    BY <1>1, <2>4 DEF Flipped, Rom
  <2>7. Expected' = Flipped(s, t)
    BY <1>8, <2>5, <2>6
  <2> QED BY <2>4, <2>7 DEF Misread
<1>11. CASE bits = [j \in 1 .. ByteBits |-> 0]
  <2>1. \A i \in 1 .. RomBits : i >= B /\ i < B + ByteBits => Expected'[i] = 0
    <3> TAKE i \in 1 .. RomBits
    <3> SUFFICES ASSUME i >= B /\ i < B + ByteBits PROVE Expected'[i] = 0
      OBVIOUS
    <3>1. i - B + 1 \in 1 .. ByteBits /\ ~(i < B)
      BY <1>1, <1>5
    <3> QED BY <1>9, <1>11, <3>1
  <2>2. CASE driven
    <3>1. \A i \in 1 .. RomBits : Expected'[i] = IF i \in B .. B + ByteBits - 1 THEN 0 ELSE s[i]
      BY <1>1, <1>5, <1>9, <2>1, <2>2
    <3>2. Expected' = Lost(s, B)
      BY <1>8, <3>1 DEF Lost
    <3> QED BY <1>5, <3>2 DEF Misread
  <2>3. CASE ~driven
    <3>1. \A i \in 1 .. RomBits : Expected'[i] = IF i < B THEN s[i] ELSE IF i < B + ByteBits THEN 0 ELSE s[i - ByteBits]
      BY <1>1, <1>5, <1>9, <2>1, <2>3
    <3>2. Expected' = Late(s, B)
      BY <1>8, <3>1 DEF Late
    <3> QED BY <1>5, <3>2 DEF Misread
  <2> QED BY <2>2, <2>3
<1> QED
  BY <1>4, <1>10, <1>11

LEMMA ReadReads ==
  ASSUME TypeInv, ReadInv, ReadCode
  PROVE  ReadInv'
<1>1. /\ UNCHANGED <<present, dead, on, turn, id, dir, job, st, zero, target, byte, reports>>
      /\ pc = "code" /\ pc' = (IF bitno' > RomBits THEN "check" ELSE "code") /\ bitno' = bitno + ByteBits
      /\ bitno \in ByteStart /\ job = "read"
      /\ hits \in 0 .. MaxFaults /\ MaxFaults \in Nat /\ RomBits \in Nat /\ bitno \in Nat /\ ByteBits \in 1 .. 8
  BY Bounds DEF ReadCode, TypeInv, Jobs, Places, TypeOK
<1>2. (hits' = hits \/ hits' = hits + 1) /\ hits' \in 0 .. MaxFaults
  BY CodeCalled DEF TypeInv
<1>3. ASSUME hits' <= 1, NEW s \in Sensor, present = {s}
      PROVE  /\ Expected' \in {s} \cup Misread(s)
             /\ hits' = 0 => Expected' = s /\ on' = {s} /\ place' = bitno'
  <2>1. Expected \in {s} \cup Misread(s) /\ (hits = 0 => Expected = s /\ on = {s} /\ place = bitno)
    BY <1>1, <1>2, <1>3 DEF ReadInv
  <2>2. CASE hits' = hits
    <3>1. Expected' = Expected
      BY <2>2, ExpectedKept
    <3>2. ASSUME hits' = 0 PROVE place' = bitno'
      <4>1. ~dead /\ place = bitno
        BY <2>1, <2>2, <3>2 DEF TypeInv, Jobs
      <4>2. PICK bits \in [1 .. ByteBits -> Bit], driven \in BOOLEAN : CodeRead(bits, driven)
        BY CodeCalled DEF TypeInv
      <4>3. place' = place + ByteBits
        BY <2>2, <4>1, <4>2 DEF CodeRead
      <4> QED BY <1>1, <4>1, <4>3
    <3> QED BY <1>1, <2>1, <2>2, <3>1, <3>2
  <2>3. CASE hits' # hits
    <3>1. hits = 0 /\ hits' # 0
      BY <1>1, <1>2, <1>3, <2>3
    <3>2. ~dead
      BY <3>1 DEF TypeInv, Jobs
    <3>3. Expected' \in Misread(s)
      BY <1>1, <2>1, <2>3, <3>1, <3>2, ExpectedMisread
    <3> QED BY <3>1, <3>3
  <2> QED BY <2>2, <2>3
<1>4. pc' = "check" => answer' = Expected'
  <2> SUFFICES ASSUME bitno' > RomBits PROVE answer' = Expected'
    BY <1>1
  <2>1. answer' \in Rom /\ bitno' \in 1 .. RomBits + 1
    BY ReadCodeTypes DEF TypeInv, TypeOK
  <2>2. \A i \in 1 .. RomBits : Expected'[i] = answer'[i]
    <3> TAKE i \in 1 .. RomBits
    <3>1. i < bitno'
      BY <1>1, <2>1
    <3> QED BY <3>1 DEF Expected
  <2>3. Expected' = [i \in 1 .. RomBits |-> Expected'[i]] /\ answer' = [i \in 1 .. RomBits |-> answer'[i]]
    BY <2>1 DEF Expected, Rom
  <2> QED BY <2>2, <2>3
<1> QED
  BY <1>1, <1>2, <1>3, <1>4 DEF ReadInv

LEMMA ReadInit == Init => ReadInv
BY DEF Init, ReadInv

\* The receiver dies at the start of a byte.
LEMMA ReadDies ==
  ASSUME TypeInv, ReadInv, ReceiverDies
  PROVE  ReadInv'
<1>1. /\ UNCHANGED <<present, on, place, pc, job, bitno, answer>>
      /\ hits' = hits + 1 /\ hits \in 0 .. MaxFaults /\ MaxFaults \in Nat /\ dead'
  BY Bounds DEF ReceiverDies, sensors, caller, TypeInv, TypeOK
<1>2. ASSUME job = "read", hits' <= 1, NEW s \in Sensor, present = {s}, pc = "code"
      PROVE  Expected' \in Misread(s)
  <2>1. hits = 0 /\ hits <= 1
    BY <1>1, <1>2
  <2>2. Expected = s /\ bitno \in ByteStart
    BY <1>2, <2>1 DEF ReadInv, TypeInv, Places
  <2>3. PICK B : B = bitno
    OBVIOUS
  <2>4. B \in 1 .. RomBits /\ RomBits \in Nat /\ s \in Rom
    BY <2>2, <2>3, ByteEnds, Bounds
  <2>5. \A i \in 1 .. RomBits : i < B => answer[i] = s[i]
    <3>1. \A i \in 1 .. RomBits : i < bitno => Expected[i] = answer[i]
      BY DEF Expected
    <3> QED BY <2>2, <2>3, <3>1
  <2>6. \A i \in 1 .. RomBits : Expected'[i] = IF i < B THEN s[i] ELSE 0
    BY <1>1, <2>3, <2>5 DEF Expected
  <2>7. Expected' = [i \in 1 .. RomBits |-> Expected'[i]]
    BY DEF Expected
  <2>8. \A i \in 1 .. RomBits : i < B <=> i <= B - 1
    BY <2>4
  <2>9. Expected' = ZeroPadded(s, B - 1)
    BY <2>6, <2>7, <2>8 DEF ZeroPadded
  <2> QED BY <2>2, <2>3, <2>9 DEF Misread
<1>3. hits' <= 1 => hits <= 1 /\ hits' # 0
  BY <1>1
<1> QED
  BY <1>1, <1>2, <1>3 DEF ReadInv

LEMMA ReadNext == TypeInv /\ ReadInv /\ [Next]_vars => ReadInv'
<1> SUFFICES ASSUME TypeInv, ReadInv, [Next]_vars, job' = "read" PROVE ReadInv'
  BY DEF ReadInv
<1>1. CASE SearchFirst \/ (\E rom \in Sensor : Verify(rom))
  BY <1>1 DEF SearchFirst, Verify, Begin
<1>2. CASE ReadRom
  BY <1>2 DEF ReadRom, Begin, ReadInv
<1>3. CASE \E v \in Byte : Transfer(v)
  BY <1>3 DEF Transfer
<1>4. CASE ResetBus
  <2>1. job = "read"
    BY <1>4 DEF ResetBus, caller
  <2> QED BY <1>4, <2>1, ReadResets
<1>5. CASE ReadCode
  BY <1>5, ReadReads
<1>6. CASE ReceiverDies
  BY <1>6, ReadDies
<1>7. CASE Enter \/ ReadId \/ ReadComplement \/ WriteDirection
  BY <1>7 DEF Enter, ReadId, ReadComplement, WriteDirection, caller, TypeInv, Jobs
<1>8. CASE CheckCode
  BY <1>8 DEF CheckCode, Return
<1>9. CASE Judge
  BY <1>9 DEF Judge, Return
<1>10. CASE Rewire
  BY <1>10 DEF Rewire, caller
<1>11. CASE UNCHANGED vars
  <2>1. UNCHANGED <<present, hits, dead, on, place, pc, job, bitno, answer>>
    BY <1>11 DEF vars, sensors, caller
  <2>2. Expected' = Expected
    BY <2>1 DEF Expected
  <2> QED BY <2>1, <2>2 DEF ReadInv
<1> QED
  BY <1>1, <1>2, <1>3, <1>4, <1>5, <1>6, <1>7, <1>8, <1>9, <1>10, <1>11 DEF Next, Step

-----------------------------------------------------------------------------
(* The inductive invariant and the theorems.                                *)

Inv == TypeInv /\ SearchInv /\ ReadInv

LEMMA Inductive == Spec => []Inv
<1>1. Init => Inv
  BY TypeInit, SearchInit, ReadInit DEF Inv
<1>2. Inv /\ [Next]_vars => Inv'
  BY TypeNext, SearchNext, ReadNext DEF Inv
<1> QED
  BY <1>1, <1>2, PTL DEF Spec

\* A sensor passes the checks of _search.
LEMMA NotZero == ASSUME NEW s \in Sensor PROVE s # NoRom /\ CrcHolds(s) /\ Family(s) # Family(NoRom)
<1>1. Family(s) # Family(NoRom)
  BY SensorAssumption
<1> QED
  BY <1>1 DEF CrcHolds

\* Both jobs with a code end right.
LEMMA CodeStep ==
  ASSUME Inv, [Next]_vars
  PROVE  /\ job = "verify" /\ job' = "none" /\ hits = 0 => (answer' = target <=> target \in present)
         /\ job = "read" /\ job' = "none" /\ hits <= 1 =>
               \A s \in Sensor : present = {s} => answer' \in {s, NoRom}
<1>1. ASSUME job \in {"verify", "read"}, job' = "none" PROVE Judge \/ CheckCode
  BY <1>1 DEF Next, Step, SearchFirst, Verify, ReadRom, Begin, Transfer, Enter, ResetBus, ReadId, ReadComplement,
              WriteDirection, ReadCode, ReceiverDies, Rewire, vars, caller
<1>2. ASSUME job = "verify", job' = "none", hits = 0 PROVE answer' = target <=> target \in present
  <2>1. Judge /\ pc = "judge"
    BY <1>1, <1>2 DEF CheckCode, Judge, Inv, TypeInv, Jobs
  <2>2. answer' = IF Found /\ st.rom = target THEN target ELSE NoRom
    BY <1>2, <2>1 DEF Judge, Return
  <2>3. /\ target \in Sensor /\ (target \in present => st.rom = target)
        /\ bitno <= RomBits => present = {}
    BY <1>2, <2>1 DEF Inv, SearchInv, VerifyInv
  <2>4. bitno > RomBits => st.rom \in present
    BY <1>2, <2>1 DEF Inv, SearchInv, InStep, Steady
  <2>5. bitno \in Nat /\ RomBits \in Nat
    BY Bounds DEF Inv, TypeInv, TypeOK
  <2>6. target # NoRom /\ CrcHolds(target) /\ Family(target) # Family(NoRom)
    BY <2>3, NotZero
  <2>7. ASSUME answer' = target PROVE target \in present
    <3>1. Found /\ st.rom = target
      BY <2>2, <2>6, <2>7
    <3> QED BY <2>4, <3>1 DEF Found
  <2>8. ASSUME target \in present PROVE answer' = target
    <3>1. st.rom = target /\ bitno > RomBits
      BY <2>3, <2>5, <2>8
    <3>2. Found
      BY <2>6, <3>1 DEF Found
    <3> QED BY <2>2, <3>1, <3>2
  <2> QED BY <2>7, <2>8
<1>3. ASSUME job = "read", job' = "none", hits <= 1, NEW s \in Sensor, present = {s} PROVE answer' \in {s, NoRom}
  <2>1. CASE Judge
    BY <1>3, <2>1 DEF Judge, Return
  <2>2. CASE CheckCode
    <3>1. pc = "check" /\ answer' = IF CrcHolds(answer) THEN answer ELSE NoRom
      BY <2>2 DEF CheckCode, Return
    <3>2. answer \in {s} \cup Misread(s)
      BY <1>3, <3>1 DEF Inv, ReadInv
    <3>3. answer \in Sensor => answer = s
      BY <3>2, SensorAssumption
    <3> QED BY <3>1, <3>3 DEF CrcHolds
  <2> QED BY <1>1, <1>3, <2>1, <2>2
<1> QED
  BY <1>2, <1>3

\* A code is confirmed exactly when its sensor is there, however many others are (owb_verify_rom),
\* and a lone sensor is read as itself or not at all (owb_read_rom).
THEOREM RightCodes == Spec => CodesAreRight
<1>1. Inv /\ [Next]_vars =>
       [/\ job = "verify" /\ job' = "none" /\ hits = 0 => (answer' = target <=> target \in present)
        /\ job = "read" /\ job' = "none" /\ hits <= 1 =>
             \A s \in Sensor : present = {s} => answer' \in {s, NoRom}]_vars
  BY CodeStep
<1> QED
  BY Inductive, <1>1, PTL DEF Spec, CodesAreRight

\* Every step of the driver is one of BusScan or changes nothing it speaks of.
LEMMA ScanStep ==
  ASSUME Inv, [Next]_vars, job = "scan" /\ hits > 0 /\ reports' # reports => st.rom \in present
  PROVE  [Scan!Next]_(Scan!vars)
<1>0. hits \in 0 .. MaxFaults /\ MaxFaults \in Nat
  BY Bounds DEF Inv, TypeInv, TypeOK
<1>1. CASE SearchFirst
  <2>1. UNCHANGED present /\ job = "none" /\ job' = "scan" /\ reports' = <<>> /\ hits' = 0
    BY <1>1 DEF SearchFirst, Begin
  <2>2. Scan!Begin
    BY <2>1 DEF Scan!Begin
  <2> QED BY <2>2 DEF Scan!Next
<1>2. CASE ReadRom \/ \E rom \in Sensor : Verify(rom)
  <2>1. UNCHANGED present /\ job = "none" /\ job' # "scan" /\ reports' = <<>>
    BY <1>2 DEF ReadRom, Verify, Begin
  <2>2. Scan!Rewire
    BY <2>1 DEF Scan!Rewire, Inv, TypeInv, TypeOK
  <2> QED BY <2>2 DEF Scan!Next
<1>3. CASE \E v \in Byte : Transfer(v)
  <2>1. UNCHANGED <<present, job, reports>> /\ job = "none"
    BY <1>3 DEF Transfer
  <2> QED BY <2>1 DEF Scan!vars
<1>4. ASSUME UNCHANGED <<present, job, reports>>, hits' \in Nat, hits' >= hits PROVE [Scan!Next]_(Scan!vars)
  <2>1. CASE job = "scan" /\ hits' > 0
    <3>1. Scan!Disturb
      BY <1>4, <2>1 DEF Scan!Disturb
    <3> QED BY <3>1 DEF Scan!Next
  <2>2. CASE ~(job = "scan" /\ hits' > 0)
    <3>1. ~(job = "scan" /\ hits > 0)
      BY <1>0, <1>4, <2>2
    <3> QED BY <1>4, <2>2, <3>1 DEF Scan!vars
  <2> QED BY <2>1, <2>2
<1>5. CASE Enter
  BY <1>0, <1>4, <1>5 DEF Enter
<1>6. CASE ResetBus
  <2>1. hits' \in Nat /\ hits' >= hits
    BY <1>0, <1>6, ResetCalled DEF Inv, TypeInv
  <2>2. UNCHANGED <<present, job, reports>>
    BY <1>6 DEF ResetBus, caller
  <2> QED BY <1>4, <2>1, <2>2
<1>7. CASE ReadId
  <2>1. hits' \in Nat /\ hits' >= hits
    BY <1>0, <1>7, BitRead DEF Inv, TypeInv, ReadId
  <2>2. UNCHANGED <<present, job, reports>>
    BY <1>7 DEF ReadId, caller
  <2> QED BY <1>4, <2>1, <2>2
<1>8. CASE ReadComplement
  <2>1. hits' \in Nat /\ hits' >= hits
    BY <1>0, <1>8, BitRead DEF Inv, TypeInv, ReadComplement
  <2>2. UNCHANGED <<present, job, reports>>
    BY <1>8 DEF ReadComplement
  <2> QED BY <1>4, <2>1, <2>2
<1>9. CASE WriteDirection
  <2>1. hits' \in Nat /\ hits' >= hits
    BY <1>0, <1>9 DEF WriteDirection
  <2>2. UNCHANGED <<present, job, reports>>
    BY <1>9 DEF WriteDirection
  <2> QED BY <1>4, <2>1, <2>2
<1>10. CASE ReadCode
  <2>1. hits' \in Nat /\ hits' >= hits
    BY <1>0, <1>10, CodeCalled DEF Inv, TypeInv
  <2>2. UNCHANGED <<present, job, reports>>
    BY <1>10 DEF ReadCode
  <2> QED BY <1>4, <2>1, <2>2
<1>11. CASE CheckCode
  <2>1. job = "read" /\ job' = "none" /\ UNCHANGED <<present, reports>>
    BY <1>11 DEF CheckCode, Return, Inv, TypeInv, Jobs
  <2> QED BY <2>1 DEF Scan!vars
<1>12. CASE ReceiverDies
  <2>1. hits' \in Nat /\ hits' >= hits
    BY <1>0, <1>12 DEF ReceiverDies
  <2>2. UNCHANGED <<present, job, reports>>
    BY <1>12 DEF ReceiverDies, caller
  <2> QED BY <1>4, <2>1, <2>2
<1>13. CASE Rewire
  <2>1. job = "none" /\ job' = "none" /\ present' \in SUBSET Sensor /\ UNCHANGED reports
    BY <1>13 DEF Rewire, caller
  <2>2. Scan!Rewire
    BY <2>1 DEF Scan!Rewire
  <2> QED BY <2>2 DEF Scan!Next
<1>14. CASE UNCHANGED vars
  BY <1>14 DEF vars, caller, Scan!vars
<1>15. CASE Judge /\ job = "scan" /\ Found /\ Len(reports) < MaxDevices
  <2>1. /\ reports' = Append(reports, st.rom) /\ UNCHANGED <<present, hits, job>> /\ pc = "judge" /\ bitno > RomBits
        /\ reports \in Seq(Sensor)
    BY <1>15 DEF Judge, Found, Inv, TypeInv, TypeOK
  <2>2. reports' # reports
    BY <2>1
  <2>3. st.rom \in present /\ st.rom \in Sensor
    BY <1>0, <1>15, <2>1, <2>2, CodeFound DEF Inv, TypeInv, TypeOK
  <2>4. ASSUME hits = 0 PROVE st.rom \notin Scan!Reported
    <3>1. st.rom \in Unreported
      BY <1>15, <2>1, <2>4, CodeFound DEF Inv
    <3> QED BY <3>1 DEF Unreported
  <2>5. hits = 0 \/ hits > 0
    BY <1>0
  <2>6. Scan!Report(st.rom)
    BY <1>15, <2>1, <2>3, <2>4, <2>5 DEF Scan!Report
  <2> QED BY <2>3, <2>6 DEF Scan!Next
<1>16. CASE Judge /\ ~(job = "scan" /\ Found /\ Len(reports) < MaxDevices)
  <2>1. job' = "none" /\ hits' = 0 /\ UNCHANGED <<present, reports>> /\ pc = "judge"
    BY <1>16 DEF Judge, Return
  <2>2. CASE job # "scan"
    BY <2>1, <2>2 DEF Scan!vars
  <2>3. CASE job = "scan" /\ hits > 0
    <3>1. Scan!End
      BY <2>1, <2>3 DEF Scan!End
    <3> QED BY <3>1 DEF Scan!Next
  <2>4. CASE job = "scan" /\ hits = 0
    <3>1. present = Scan!Reported \/ Len(reports) = MaxDevices
      <4>1. CASE bitno > RomBits
        <5>1. Found
          BY <2>1, <2>4, <4>1, CodeFound DEF Inv
        <5>2. ~(Len(reports) < MaxDevices) /\ Len(reports) <= MaxDevices /\ Len(reports) \in Nat /\ MaxDevices \in Nat
          BY <1>16, <2>4, <5>1, Bounds DEF Inv, TypeInv, Jobs, TypeOK
        <5> QED BY <5>2
      <4>2. CASE ~(bitno > RomBits)
        <5>1. bitno <= RomBits
          BY <4>2, Bounds DEF Inv, TypeInv, TypeOK
        <5>2. Unreported = {} /\ Scan!Reported \subseteq present
          BY <2>1, <2>4, <5>1 DEF Inv, SearchInv, ScanInv
        <5> QED BY <5>2 DEF Unreported
      <4> QED BY <4>1, <4>2
    <3>2. Scan!End
      BY <2>1, <2>4, <3>1 DEF Scan!End
    <3> QED BY <3>2 DEF Scan!Next
  <2> QED BY <1>0, <2>2, <2>3, <2>4
<1> QED
  BY <1>1, <1>2, <1>3, <1>5, <1>6, <1>7, <1>8, <1>9, <1>10, <1>11, <1>12, <1>13, <1>14, <1>15, <1>16 DEF Next, Step

LEMMA ScanBegins == Init => Scan!Init
BY DEF Init, Scan!Init

\* A scan reports each sensor on the bus once and no other and goes on until it has them all, or has
\* no room (_search, discover_locked); a disturbed one does what BusScan allows it, as long as the
\* CRC passes no code it has put together from several sensors.
THEOREM ScanUndisturbed ==
  Spec => /\ Scan!Init
          /\ [][(job = "scan" /\ hits > 0 /\ reports' # reports => st.rom \in present) => [Scan!Next]_(Scan!vars)]_vars
<1>1. Inv /\ [Next]_vars =>
        [(job = "scan" /\ hits > 0 /\ reports' # reports => st.rom \in present) => [Scan!Next]_(Scan!vars)]_vars
  BY ScanStep
<1> QED
  BY Inductive, ScanBegins, <1>1, PTL DEF Spec

-----------------------------------------------------------------------------
(* A job ends.                                                              *)

\* How many steps a job can have left: those of the pass it is in, at place b of a code, those of a
\* pass for each report discover_locked still has room for, and the failure of the receiver.
Pass == 3 * RomBits + 3
Left(p, b) ==
  CASE p = "enter"      -> Pass - 1
    [] p = "reset"      -> Pass - 2
    [] p = "id"         -> 3 * (RomBits + 1 - b)
    [] p = "complement" -> 3 * (RomBits + 1 - b) - 1
    [] p = "write"      -> 3 * (RomBits + 1 - b) - 2
    [] p = "code"       -> RomBits + 2 - b
    [] p = "check"      -> 1
    [] p = "judge"      -> 0
    [] p = "idle"       -> 0
Room   == MaxDevices - Len(reports)
Budget == Room * Pass + Left(pc, bitno) + (IF dead THEN 0 ELSE 1)

LEMMA LeftIs ==
  ASSUME NEW b
  PROVE  /\ Left("enter", b) = Pass - 1 /\ Left("reset", b) = Pass - 2
         /\ Left("id", b) = 3 * (RomBits + 1 - b)
         /\ Left("complement", b) = 3 * (RomBits + 1 - b) - 1
         /\ Left("write", b) = 3 * (RomBits + 1 - b) - 2
         /\ Left("code", b) = RomBits + 2 - b
         /\ Left("check", b) = 1 /\ Left("judge", b) = 0 /\ Left("idle", b) = 0
BY DEF Left

LEMMA LeftType ==
  ASSUME TypeInv
  PROVE  Left(pc, bitno) \in 0 .. Pass - 1 /\ Room \in 0 .. MaxDevices
<1>1. RomBits \in Nat \ {0} /\ MaxDevices \in Nat
  BY Bounds
<1>2. Room \in 0 .. MaxDevices
  <2>1. Len(reports) \in Nat /\ Len(reports) <= MaxDevices
    BY DEF TypeInv, TypeOK, Jobs
  <2> QED
    BY <1>1, <2>1 DEF Room
<1>3. bitno \in 1 .. RomBits + 1 /\ (pc \in {"id", "complement", "write", "code"} => bitno <= RomBits)
  <2>1. pc = "code" => bitno \in 1 .. RomBits
    BY ByteEnds DEF TypeInv, Places
  <2>2. pc \in {"id", "complement", "write"} => bitno <= RomBits
    BY DEF TypeInv, Places, Searching
  <2> QED
    BY <1>1, <2>1, <2>2 DEF TypeInv, TypeOK
<1>4. pc \in {"idle", "enter", "reset", "id", "complement", "write", "code", "check", "judge"}
  BY DEF TypeInv, TypeOK
<1>5. Left(pc, bitno) \in 0 .. Pass - 1
  <2>1. CASE pc \in {"id", "complement", "write", "code"}
    BY <1>1, <1>3, <2>1, LeftIs DEF Pass
  <2>2. CASE pc \in {"idle", "enter", "reset", "check", "judge"}
    BY <1>1, <2>2, LeftIs DEF Pass
  <2> QED
    BY <1>4, <2>1, <2>2
<1> QED
  BY <1>2, <1>5

\* Within a pass, each step leaves fewer of them.
LEMMA LeftLower ==
  ASSUME TypeInv, TypeInv', job' # "none",
         Enter \/ ResetBus \/ ReadId \/ ReadComplement \/ WriteDirection \/ ReadCode
  PROVE  Left(pc', bitno') < Left(pc, bitno) /\ UNCHANGED <<reports, dead>>
<1>0. RomBits \in Nat \ {0} /\ ByteBits \in 1 .. 8
  BY Bounds
<1>1. bitno \in 1 .. RomBits + 1 /\ bitno' \in 1 .. RomBits + 1
  BY DEF TypeInv, TypeOK
<1>2. CASE Enter
  <2>1. pc = "enter" /\ pc' \in {"judge", "reset"} /\ UNCHANGED <<reports, dead>>
    BY <1>2 DEF Enter
  <2> QED
    BY <1>0, <2>1, LeftIs DEF Pass
<1>3. CASE ResetBus
  <2>1. pc = "reset" /\ pc' \in {"judge", "id", "code"} /\ UNCHANGED <<reports, dead, bitno>>
    BY <1>3 DEF ResetBus, caller
  <2>2. bitno = 1
    BY <2>1 DEF TypeInv, Jobs
  <2> QED
    BY <1>0, <2>1, <2>2, LeftIs DEF Pass
<1>4. CASE ReadId
  <2>1. pc = "id" /\ pc' = "complement" /\ UNCHANGED <<reports, dead, bitno>>
    BY <1>4 DEF ReadId, caller
  <2> QED
    BY <1>0, <1>1, <2>1, LeftIs
<1>5. CASE ReadComplement
  <2>1. pc = "complement" /\ pc' \in {"judge", "write"} /\ UNCHANGED <<reports, dead, bitno>>
    BY <1>5 DEF ReadComplement
  <2>2. bitno <= RomBits
    BY <2>1 DEF TypeInv, Places, Searching
  <2> QED
    BY <1>0, <1>1, <2>1, <2>2, LeftIs
<1>6. CASE WriteDirection
  <2>1. pc = "write" /\ pc' \in {"judge", "id"} /\ bitno' = bitno + 1 /\ UNCHANGED <<reports, dead>>
    BY <1>6 DEF WriteDirection
  <2>2. bitno <= RomBits
    BY <2>1 DEF TypeInv, Places, Searching
  <2> QED
    BY <1>0, <1>1, <2>1, <2>2, LeftIs
<1>7. CASE ReadCode
  <2>1. pc = "code" /\ pc' \in {"check", "code"} /\ bitno' = bitno + ByteBits /\ UNCHANGED <<reports, dead>>
    BY <1>7 DEF ReadCode
  <2>2. bitno <= RomBits
    BY <2>1, ByteEnds DEF TypeInv, Places
  <2> QED
    BY <1>0, <1>1, <2>1, <2>2, LeftIs
<1> QED
  BY <1>2, <1>3, <1>4, <1>5, <1>6, <1>7

LEMMA BudgetStep ==
  TypeInv /\ [Next]_vars => [job # "none" => job' = "none" \/ Budget' < Budget]_vars
<1> SUFFICES ASSUME TypeInv, [Next]_vars, ~UNCHANGED vars, job # "none", job' # "none"
             PROVE  Budget' < Budget
  OBVIOUS
<1> DEFINE now == Left(pc, bitno)  then == Left(pc', bitno')
           live == IF dead THEN 0 ELSE 1
<1>0. TypeInv'
  BY TypeNext
<1>1. /\ RomBits \in Nat \ {0} /\ now \in 0 .. Pass - 1 /\ Room \in Nat /\ then \in 0 .. Pass - 1 /\ Room' \in Nat
  <2>1. MaxDevices \in Nat /\ RomBits \in Nat \ {0}
    BY Bounds
  <2>2. Left(pc, bitno) \in 0 .. Pass - 1 /\ Room \in 0 .. MaxDevices
    BY LeftType
  <2>3. (Left(pc, bitno) \in 0 .. Pass - 1 /\ Room \in 0 .. MaxDevices)'
    BY <1>0, LeftType, PTL
  <2>4. then \in 0 .. Pass - 1 /\ Room' \in 0 .. MaxDevices
    BY <2>3 DEF Pass
  <2> QED
    BY <2>1, <2>2, <2>4
<1>2. Pass \in Nat \ {0}
  BY <1>1 DEF Pass
<1>3. Room * Pass \in Int /\ live \in {0, 1} /\ live' \in {0, 1}
  BY <1>1, <1>2
<1>4. Budget = Room * Pass + now + live /\ Budget' = Room' * Pass + then + live'
  BY DEF Budget, Pass
<1>5. CASE Enter \/ ResetBus \/ ReadId \/ ReadComplement \/ WriteDirection \/ ReadCode
  <2>1. then < now /\ UNCHANGED <<reports, dead>>
    BY <1>0, <1>5, LeftLower
  <2>2. Room' = Room /\ live' = live
    BY <2>1 DEF Room
  <2> HIDE DEF now, then, live
  <2> QED
    BY <1>1, <1>2, <1>3, <1>4, <2>1, <2>2
<1>6. CASE Judge
  <2>1. /\ reports' = Append(reports, st.rom) /\ pc = "judge" /\ pc' = "enter" /\ dead' = dead
        /\ reports \in Seq(Sensor)
    BY <1>6 DEF Judge, Return, TypeInv, TypeOK
  <2>2. Room' = Room - 1
    <3>1. Len(reports') = Len(reports) + 1 /\ Len(reports) \in Nat
      BY <2>1
    <3> QED
      BY <3>1, Bounds DEF Room
  <2>3. now = 0 /\ then = Pass - 1 /\ live' = live
    BY <2>1, LeftIs
  <2> HIDE DEF now, then, live
  <2>4. (Room - 1) * Pass = Room * Pass - Pass
    BY <1>1, <1>2
  <2> QED
    BY <1>2, <1>3, <1>4, <2>2, <2>3, <2>4
<1>7. CASE ReceiverDies
  <2>1. UNCHANGED <<reports, pc, bitno>> /\ ~dead /\ dead'
    BY <1>7 DEF ReceiverDies, caller
  <2>2. Room' = Room /\ then = now /\ live = 1 /\ live' = 0
    BY <2>1 DEF Room
  <2> HIDE DEF now, then, live
  <2> QED
    BY <1>1, <1>2, <1>3, <1>4, <2>2
<1>8. ~CheckCode /\ ~Rewire /\ ~SearchFirst /\ ~ReadRom
  BY DEF CheckCode, Return, Rewire, SearchFirst, ReadRom, Begin
<1>9. ASSUME NEW rom \in Sensor, Verify(rom) PROVE FALSE
  BY <1>9 DEF Verify, Begin
<1>10. ASSUME NEW v \in Byte, Transfer(v) PROVE FALSE
  BY <1>10 DEF Transfer
<1> QED
  BY <1>5, <1>6, <1>7, <1>8, <1>9, <1>10 DEF Next, Step

LEMMA BudgetBound ==
  ASSUME TypeInv
  PROVE  Budget \in 0 .. (MaxDevices + 1) * Pass
<1> DEFINE now == Left(pc, bitno)  live == IF dead THEN 0 ELSE 1
<1>1. RomBits \in Nat /\ MaxDevices \in Nat /\ now \in 0 .. Pass - 1 /\ Room \in 0 .. MaxDevices /\ live \in {0, 1}
  BY Bounds, LeftType
<1>2. Pass \in Nat /\ Budget = Room * Pass + now + live
  BY <1>1 DEF Pass, Budget
<1> HIDE DEF now, live
<1>3. PICK m \in Nat : MaxDevices = Room + m
  <2>1. MaxDevices - Room \in Nat /\ MaxDevices = Room + (MaxDevices - Room)
    BY <1>1
  <2> QED
    BY <2>1
<1>4. (MaxDevices + 1) * Pass = Room * Pass + m * Pass + Pass
  <2>1. \A a, b, c \in Nat : (a + b + 1) * c = a * c + b * c + c
    OBVIOUS
  <2>2. Room \in Nat
    BY <1>1
  <2> QED
    BY <1>2, <1>3, <2>1, <2>2
<1>5. Room * Pass \in Nat /\ m * Pass \in Nat
  <2>1. \A a, b \in Nat : a * b \in Nat
    OBVIOUS
  <2>2. Room \in Nat
    BY <1>1
  <2> QED
    BY <1>2, <1>3, <2>1, <2>2
<1> QED
  BY <1>1, <1>2, <1>4, <1>5

\* No job of the driver goes on for ever, whatever disturbs it: each of its steps but the last
\* lowers a number that is never above (MAX_DEVICES + 1) * (3 * RomBits + 3), neither a search that
\* finds the same code again and again (_search) nor a receiver that no longer answers can keep
\* discover_locked in its loop. A step is possible as long as the driver's calls return.
THEOREM JobsEnd ==
  Spec => /\ [](Budget \in 0 .. (MaxDevices + 1) * Pass)
          /\ [][job # "none" => job' = "none" \/ Budget' < Budget]_vars
<1>1. TypeInv => Budget \in 0 .. (MaxDevices + 1) * Pass
  BY BudgetBound
<1> QED
  BY TypeInit, TypeNext, BudgetStep, <1>1, PTL DEF Spec

\* How many more of its calls wait for the receiver once that has died: those of the pass it is in,
\* and the reset of the next one, which nothing answers.
Waiting == {"reset", "id", "complement", "code"}
Unheard(p, b) ==
  CASE p = "enter"      -> 1
    [] p = "reset"      -> 1
    [] p = "id"         -> 2 * (RomBits + 1 - b) + 1
    [] p = "complement" -> 2 * (RomBits + 1 - b)
    [] p = "write"      -> 2 * (RomBits - b) + 1
    [] p = "code"       -> RomBits + 1 - b
    [] p = "check"      -> 0
    [] p = "judge"      -> IF b > RomBits THEN 1 ELSE 0
    [] p = "idle"       -> 0

LEMMA UnheardIs ==
  ASSUME NEW b
  PROVE  /\ Unheard("enter", b) = 1 /\ Unheard("reset", b) = 1
         /\ Unheard("id", b) = 2 * (RomBits + 1 - b) + 1
         /\ Unheard("complement", b) = 2 * (RomBits + 1 - b)
         /\ Unheard("write", b) = 2 * (RomBits - b) + 1
         /\ Unheard("code", b) = RomBits + 1 - b
         /\ Unheard("check", b) = 0
         /\ Unheard("judge", b) = (IF b > RomBits THEN 1 ELSE 0)
         /\ Unheard("idle", b) = 0
BY DEF Unheard

LEMMA UnheardType ==
  ASSUME TypeInv
  PROVE  Unheard(pc, bitno) \in 0 .. 2 * RomBits + 1
<1>1. RomBits \in Nat \ {0}
  BY Bounds
<1>2. bitno \in 1 .. RomBits + 1 /\ (pc \in {"id", "complement", "write", "code"} => bitno <= RomBits)
  <2>1. pc = "code" => bitno \in 1 .. RomBits
    BY ByteEnds DEF TypeInv, Places
  <2>2. pc \in {"id", "complement", "write"} => bitno <= RomBits
    BY DEF TypeInv, Places, Searching
  <2> QED
    BY <1>1, <2>1, <2>2 DEF TypeInv, TypeOK
<1>3. CASE pc \in {"id", "complement", "write", "code"}
  BY <1>1, <1>2, <1>3, UnheardIs
<1>4. CASE pc \in {"idle", "enter", "reset", "check", "judge"}
  BY <1>1, <1>4, UnheardIs
<1> QED
  BY <1>3, <1>4 DEF TypeInv, TypeOK

LEMMA UnheardStep ==
  TypeInv /\ [Next]_vars =>
    [dead /\ job' # "none" =>
        IF pc \in Waiting THEN Unheard(pc', bitno') < Unheard(pc, bitno)
        ELSE Unheard(pc', bitno') <= Unheard(pc, bitno)]_vars
<1> SUFFICES ASSUME TypeInv, [Next]_vars, ~UNCHANGED vars, dead, job' # "none"
             PROVE  IF pc \in Waiting THEN Unheard(pc', bitno') < Unheard(pc, bitno)
                    ELSE Unheard(pc', bitno') <= Unheard(pc, bitno)
  OBVIOUS
<1>0. RomBits \in Nat \ {0} /\ ByteBits \in 1 .. 8
  BY Bounds
<1>1. bitno \in 1 .. RomBits + 1 /\ bitno' \in 1 .. RomBits + 1
  <2>1. TypeInv'
    BY TypeNext
  <2> QED
    BY <2>1 DEF TypeInv, TypeOK
<1>2. CASE Enter
  <2>1. pc = "enter" /\ pc' \in {"judge", "reset"} /\ bitno' = 1
    BY <1>2 DEF Enter
  <2> QED
    BY <1>0, <2>1, UnheardIs DEF Waiting
<1>3. CASE ResetBus
  <2>1. pc = "reset" /\ pc' = "judge" /\ bitno' = bitno
    BY <1>3, ResetCalled DEF ResetBus, caller, TypeInv
  <2>2. bitno = 1
    BY <2>1 DEF TypeInv, Jobs
  <2> QED
    BY <1>0, <2>1, <2>2, UnheardIs DEF Waiting
<1>4. CASE ReadId
  <2>1. pc = "id" /\ pc' = "complement" /\ bitno' = bitno
    BY <1>4 DEF ReadId, caller
  <2> QED
    BY <1>0, <1>1, <2>1, UnheardIs DEF Waiting
<1>5. CASE ReadComplement
  <2>1. pc = "complement" /\ pc' \in {"judge", "write"} /\ bitno' = bitno
    BY <1>5 DEF ReadComplement
  <2>2. bitno <= RomBits
    BY <2>1 DEF TypeInv, Places, Searching
  <2> QED
    BY <1>0, <1>1, <2>1, <2>2, UnheardIs DEF Waiting
<1>6. CASE WriteDirection
  <2>1. pc = "write" /\ pc' = (IF bitno = RomBits THEN "judge" ELSE "id") /\ bitno' = bitno + 1
    BY <1>6 DEF WriteDirection
  <2>2. bitno <= RomBits
    BY <2>1 DEF TypeInv, Places, Searching
  <2>3. CASE bitno = RomBits
    BY <1>0, <1>1, <2>1, <2>3, UnheardIs DEF Waiting
  <2>4. CASE bitno # RomBits
    BY <1>0, <1>1, <2>1, <2>2, <2>4, UnheardIs DEF Waiting
  <2> QED
    BY <2>3, <2>4
<1>7. CASE ReadCode
  <2>1. pc = "code" /\ pc' \in {"check", "code"} /\ bitno' = bitno + ByteBits
    BY <1>7 DEF ReadCode
  <2>2. bitno <= RomBits
    BY <2>1, ByteEnds DEF TypeInv, Places
  <2> QED
    BY <1>0, <1>1, <2>1, <2>2, UnheardIs DEF Waiting
<1>8. CASE Judge
  <2>1. pc = "judge" /\ pc' = "enter" /\ bitno > RomBits
    BY <1>8 DEF Judge, Return, Found
  <2> QED
    BY <2>1, UnheardIs DEF Waiting
<1>9. ~CheckCode /\ ~ReceiverDies /\ ~Rewire /\ ~SearchFirst /\ ~ReadRom
  <2>1. job # "none"
    BY DEF TypeInv, Jobs
  <2> QED
    BY <2>1 DEF CheckCode, Return, ReceiverDies, Rewire, SearchFirst, ReadRom, Begin
<1>10. job # "none"
  BY DEF TypeInv, Jobs
<1>11. ASSUME NEW rom \in Sensor, Verify(rom) PROVE FALSE
  BY <1>10, <1>11 DEF Verify, Begin
<1>12. ASSUME NEW v \in Byte, Transfer(v) PROVE FALSE
  BY <1>10, <1>12 DEF Transfer
<1> QED
  BY <1>2, <1>3, <1>4, <1>5, <1>6, <1>7, <1>8, <1>9, <1>11, <1>12 DEF Next, Step

\* _search ignores the status of its calls and goes on to the end of the code without a receiver:
\* each call that listens then waits for its timeout of 100 ms. There are at most two for each bit
\* and one reset more, which ends the scan: 129 in a search for codes of 64 bits.
THEOREM DeadScanEnds ==
  Spec => /\ [](dead => Unheard(pc, bitno) \in 0 .. 2 * RomBits + 1)
          /\ [][dead /\ job' # "none" =>
                  IF pc \in Waiting THEN Unheard(pc', bitno') < Unheard(pc, bitno)
                  ELSE Unheard(pc', bitno') <= Unheard(pc, bitno)]_vars
<1>1. TypeInv => Unheard(pc, bitno) \in 0 .. 2 * RomBits + 1
  BY UnheardType
<1> QED
  BY TypeInit, TypeNext, UnheardStep, <1>1, PTL DEF Spec
=============================================================================
