---------------------------- MODULE RingProofs ----------------------------
(***************************************************************************)
(* A ring of any size gives the newest entries of whatever was written.    *)
(***************************************************************************)
EXTENDS Ring, TLAPS

\* The entries in use are as many as were written and fit, and going back from the write
\* position meets them newest first.
Remembered ==
    /\ count = IF Len(log) < Size THEN Len(log) ELSE Size
    /\ \A k \in 1 .. count : buf[(head + Size - k) % Size] = log[Len(log) + 1 - k]

RingInv == TypeOK /\ Remembered

\* An index that has run past the end of the array once comes back to its start.
LEMMA Wraps ==
    ASSUME Size \in Nat \ {0}, NEW a \in 0 .. 2 * Size - 1
    PROVE  a % Size = IF a < Size THEN a ELSE a - Size
  OBVIOUS

\* Going back at most the whole ring from a position.
LEMMA GoesBack ==
    ASSUME Size \in Nat \ {0}, NEW h \in 0 .. Size - 1, NEW k \in 1 .. Size
    PROVE  (h + Size - k) % Size = IF k <= h THEN h - k ELSE h + Size - k
<1>1. h + Size - k \in 0 .. 2 * Size - 1
  OBVIOUS
<1>2. h + Size - k < Size <=> ~(k <= h)
  OBVIOUS
<1>3. k <= h => (h + Size - k) - Size = h - k
  OBVIOUS
<1> QED
  BY <1>1, <1>2, <1>3, Wraps

\* The next write position is one further, or the start of the array.
LEMMA GoesOn ==
    ASSUME Size \in Nat \ {0}, NEW h \in 0 .. Size - 1
    PROVE  (h + 1) % Size = IF h + 1 = Size THEN 0 ELSE h + 1
<1>1. h + 1 \in 0 .. 2 * Size - 1
  OBVIOUS
<1> QED
  BY <1>1, Wraps

\* A write keeps the types.
LEMMA AddType ==
    ASSUME Size \in Nat \ {0}, TypeOK, NEW v \in Value, Add(v)
    PROVE  TypeOK'
<1>1. buf' \in [0 .. Size - 1 -> Value]
  BY DEF TypeOK, Add
<1>2. head' \in 0 .. Size - 1
  <2>1. head \in 0 .. Size - 1 /\ head' = (head + 1) % Size
    BY DEF TypeOK, Add
  <2> QED
    BY <2>1, GoesOn
<1>3. count' \in 0 .. Size
  BY DEF TypeOK, Add
<1>4. log' \in Seq(Value)
  BY DEF TypeOK, Add
<1> QED
  BY <1>1, <1>2, <1>3, <1>4 DEF TypeOK

\* A write is met first when going back, and the others one step later.
LEMMA AddRemembered ==
    ASSUME Size \in Nat \ {0}, RingInv, NEW v \in Value, Add(v)
    PROVE  Remembered'
<1> DEFINE len == Len(log)
<1>1. /\ len \in Nat /\ Len(log') = len + 1
      /\ log'[len + 1] = v /\ \A j \in 1 .. len : log'[j] = log[j]
  BY DEF RingInv, TypeOK, Add
<1>2. /\ head \in 0 .. Size - 1 /\ head' \in 0 .. Size - 1
      /\ head' = IF head + 1 = Size THEN 0 ELSE head + 1
  BY GoesOn, AddType DEF RingInv, TypeOK, Add
<1>3. /\ count \in 0 .. Size
      /\ count = IF len < Size THEN len ELSE Size
      /\ count' = IF count < Size THEN count + 1 ELSE count
  BY DEF RingInv, TypeOK, Remembered, Add
<1>4. count' = IF Len(log') < Size THEN Len(log') ELSE Size
  BY <1>1, <1>3
<1>5. /\ buf'[head] = v
      /\ \A i \in 0 .. Size - 1 : i # head => buf'[i] = buf[i]
  BY <1>2 DEF RingInv, TypeOK, Add
<1>6. ASSUME NEW k \in 1 .. count'
      PROVE  buf'[(head' + Size - k) % Size] = log'[Len(log') + 1 - k]
  <2>1. k \in 1 .. Size /\ k <= count + 1 /\ k <= len + 1
    BY <1>1, <1>3
  <2>2. (head' + Size - k) % Size = IF k <= head' THEN head' - k ELSE head' + Size - k
    BY <1>2, <2>1, GoesBack
  <2>3. CASE k = 1
    <3>1. (head' + Size - k) % Size = head
      BY <1>2, <2>2, <2>3
    <3>2. Len(log') + 1 - k = len + 1
      BY <1>1, <2>3
    <3> QED
      BY <1>1, <1>5, <3>1, <3>2
  <2>4. CASE k # 1
    <3> DEFINE b == k - 1
    <3>1. b \in 1 .. count /\ b \in 1 .. Size - 1 /\ b \in 1 .. len
      BY <1>3, <2>1, <2>4
    <3>2. (head + Size - b) % Size = IF b <= head THEN head - b ELSE head + Size - b
      BY <1>2, <3>1, GoesBack
    <3>3. (head' + Size - k) % Size = (head + Size - b) % Size
      BY <1>2, <2>1, <2>2, <3>1, <3>2
    <3>4. (head + Size - b) % Size \in 0 .. Size - 1 /\ (head + Size - b) % Size # head
      BY <1>2, <3>1, <3>2
    <3>5. buf'[(head + Size - b) % Size] = buf[(head + Size - b) % Size]
      BY <1>5, <3>4
    <3>6. buf[(head + Size - b) % Size] = log[len + 1 - b]
      BY <3>1 DEF RingInv, Remembered
    <3>7. len + 1 - b \in 1 .. len /\ Len(log') + 1 - k = len + 1 - b
      BY <1>1, <2>1, <3>1
    <3> QED
      BY <1>1, <3>3, <3>5, <3>6, <3>7
  <2> QED
    BY <2>3, <2>4
<1> QED
  BY <1>4, <1>6 DEF Remembered

\* Every write keeps the ring's invariant.
LEMMA AddKeeps ==
    ASSUME Size \in Nat \ {0}, RingInv, NEW v \in Value, Add(v)
    PROVE  RingInv'
  BY AddType, AddRemembered DEF RingInv

\* An empty ring satisfies it.
LEMMA RingInit ==
    ASSUME Size \in Nat \ {0}, Init
    PROVE  RingInv
  BY DEF Init, RingInv, TypeOK, Remembered

\* Both ways of copying give the newest entries, oldest or newest first.
LEMMA RingCopies ==
    ASSUME Size \in Nat \ {0}, RingInv
    PROVE  KeepsNewest
<1> SUFFICES ASSUME NEW max \in 0 .. Size
             PROVE  LET n == IF Len(log) < max THEN Len(log) ELSE max IN
                    /\ OldestFirst(max) = [i \in 1 .. n |-> log[Len(log) - n + i]]
                    /\ NewestFirst(max) = [i \in 1 .. n |-> log[Len(log) + 1 - i]]
  BY DEF KeepsNewest
<1> DEFINE n == IF Len(log) < max THEN Len(log) ELSE max
           start == (head + Size - n) % Size
<1>1. /\ Len(log) \in Nat /\ head \in 0 .. Size - 1
      /\ count = IF Len(log) < Size THEN Len(log) ELSE Size
      /\ \A k \in 1 .. count : buf[(head + Size - k) % Size] = log[Len(log) + 1 - k]
  BY DEF RingInv, TypeOK, Remembered
<1>2. Copied(max) = n /\ n \in 0 .. count /\ n \in 0 .. Size /\ n <= Len(log)
  BY <1>1 DEF Copied
<1>3. n \in 1 .. Size => start = IF n <= head THEN head - n ELSE head + Size - n
  BY <1>1, GoesBack
<1>4. OldestFirst(max) = [i \in 1 .. n |-> buf[(start + (i - 1)) % Size]]
  BY <1>2, Zenon DEF OldestFirst
<1>5. NewestFirst(max) = [i \in 1 .. n |-> buf[(head + Size - i) % Size]]
  BY <1>2, Zenon DEF NewestFirst
<1> SUFFICES /\ OldestFirst(max) = [i \in 1 .. n |-> log[Len(log) - n + i]]
             /\ NewestFirst(max) = [i \in 1 .. n |-> log[Len(log) + 1 - i]]
  OBVIOUS
<1> HIDE DEF n, start
<1>6. ASSUME NEW i \in 1 .. n
      PROVE  buf[(start + (i - 1)) % Size] = log[Len(log) - n + i]
  <2> DEFINE k == n + 1 - i
  <2>1. k \in 1 .. count /\ k \in 1 .. Size /\ n \in 1 .. Size
    BY <1>1, <1>2
  <2>2. start = IF n <= head THEN head - n ELSE head + Size - n
    BY <1>3, <2>1
  <2>3. (head + Size - k) % Size = IF k <= head THEN head - k ELSE head + Size - k
    BY <1>1, <2>1, GoesBack
  <2>4. start + (i - 1) \in 0 .. 2 * Size - 1
    BY <1>1, <1>2, <2>1, <2>2
  <2>5. PICK a \in 0 .. 2 * Size - 1 : a = start + (i - 1)
    BY <2>4
  <2>6. a % Size = (head + Size - k) % Size
    <3>1. a % Size = IF a < Size THEN a ELSE a - Size
      BY Wraps
    <3> QED
      BY <1>1, <1>2, <2>1, <2>2, <2>3, <2>5, <3>1
  <2>7. Len(log) - n + i = Len(log) + 1 - k
    BY <1>1, <1>2
  <2> QED
    BY <1>1, <2>1, <2>5, <2>6, <2>7
<1>7. \A i \in 1 .. n : buf[(head + Size - i) % Size] = log[Len(log) + 1 - i]
  <2>1. \A i \in 1 .. n : i \in 1 .. count
    BY <1>1, <1>2
  <2> QED
    BY <1>1, <2>1, Zenon
<1> QED
  BY <1>4, <1>5, <1>6, <1>7

\* Whatever is written, for ever, the copies are the newest entries in order.
THEOREM RingKeepsNewest ==
    ASSUME Size \in Nat \ {0}
    PROVE  Spec => []KeepsNewest
<1>1. RingInv /\ [Next]_ring => RingInv'
  <2>1. RingInv /\ UNCHANGED ring => RingInv'
    BY DEF RingInv, TypeOK, Remembered, ring
  <2> QED
    BY <2>1, AddKeeps DEF Next
<1> QED
  BY <1>1, RingInit, RingCopies, PTL DEF Spec

=============================================================================
