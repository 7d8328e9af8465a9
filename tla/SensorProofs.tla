---------------------------- MODULE SensorProofs ----------------------------
(***************************************************************************)
(* Theorems about Sensor, for every length of the ring, size of a sample,  *)
(* interval and timer.                                                     *)
(***************************************************************************)
EXTENDS Sensor, TLAPS

\* The time the timer shows since the last sample is never more than what passed.
ShownInv == (time - last_read) % TimerModulus <= age

\* Room for the sample of the call under way, among those the bound allows.
RoomInv == pc \in {"waiting", "reading"} => samples < MaxSamples

SensorInv == SensorTypeOK /\ RoomInv /\ ShownInv /\ RingHoldsLatest

----------------------------------------------------------------------------
(* Remainders *)

LEMMA RemainderInRange ==
    ASSUME NEW M \in Nat \ {0}, NEW x \in Int
    PROVE  x % M \in 0..(M - 1)
  BY SMT

LEMMA RemainderIsLess ==
    ASSUME NEW M \in Nat \ {0}, NEW x \in Nat
    PROVE  x % M = x \/ x % M <= x - M
<1>1. CASE x < M
  BY <1>1
<1>2. CASE x >= M
  <2>1. x = M * (x \div M) + (x % M) /\ x \div M \in Int /\ x % M \in 0..(M - 1)
    BY SMT
  <2>2. x \div M >= 1
    BY <1>2, <2>1
  <2>3. M * (x \div M) >= M
    BY <2>1, <2>2
  <2> QED BY <2>1, <2>3
<1> QED BY <1>1, <1>2

\* A difference of two readings, without the remainder.
LEMMA Shown ==
    ASSUME NEW M \in Nat \ {0}, NEW t \in 0..(M - 1), NEW l \in 0..(M - 1)
    PROVE  (t - l) % M = IF t >= l THEN t - l ELSE t - l + M
  BY SMT

\* When d ticks pass, the timer shows at most d more.
LEMMA ShownGrows ==
    ASSUME NEW M \in Nat \ {0}, NEW t \in 0..(M - 1), NEW l \in 0..(M - 1), NEW d \in Nat
    PROVE  (((t + d) % M) - l) % M <= ((t - l) % M) + d
<1> DEFINE u == (t + d) % M
<1>1. u \in 0..(M - 1) /\ (u = t + d \/ u <= t + d - M)
  <2>1. t + d \in Nat
    OBVIOUS
  <2>2. (t + d) % M \in 0..(M - 1)
    BY <2>1, RemainderInRange
  <2>3. (t + d) % M = t + d \/ (t + d) % M <= (t + d) - M
    BY <2>1, RemainderIsLess, Zenon
  <2> QED BY <2>2, <2>3
<1>2. /\ (u - l) % M = IF u >= l THEN u - l ELSE u - l + M
      /\ (t - l) % M = IF t >= l THEN t - l ELSE t - l + M
  BY <1>1, Shown
<1> HIDE DEF u
<1> QED BY <1>1, <1>2 DEF u

----------------------------------------------------------------------------
(* The interval *)

LEMMA ShownKept ==
    ASSUME SensorTypeOK, ShownInv, [Next]_vars
    PROVE  ShownInv'
<1>1. TimerModulus \in Nat \ {0} /\ MaxStep \in Nat /\ MaxIdle \in Nat
  BY SensorAssumption
<1>2. time \in 0..(TimerModulus - 1) /\ last_read \in 0..(TimerModulus - 1) /\ age \in Nat
  BY <1>1 DEF SensorTypeOK
<1>3. ASSUME NEW d \in Nat, time' = (time + d) % TimerModulus, UNCHANGED last_read,
             age' = Least(age + d, TimerModulus)
      PROVE  ShownInv'
  <2>1. (time' - last_read) % TimerModulus <= ((time - last_read) % TimerModulus) + d
    BY <1>1, <1>2, <1>3, ShownGrows
  <2>2. time' \in 0..(TimerModulus - 1)
    BY <1>1, <1>2, <1>3, RemainderInRange
  <2>3. (time' - last_read) % TimerModulus \in 0..(TimerModulus - 1)
        /\ (time - last_read) % TimerModulus \in 0..(TimerModulus - 1)
    <3>1. time' - last_read \in Int /\ time - last_read \in Int
      BY <1>2, <2>2
    <3> QED BY <1>1, <3>1, RemainderInRange
  <2> QED BY <1>1, <1>2, <1>3, <2>1, <2>3 DEF ShownInv, Least
<1>4. CASE Idle
  BY <1>1, <1>3, <1>4 DEF Idle, Elapse
<1>5. CASE Poll
  <2>1. PICK d \in 1..MaxStep :
          /\ time' = (time + d) % TimerModulus
          /\ IF IntervalPassed(time)
             THEN last_read' = time /\ age' = d
             ELSE age' = Least(age + d, TimerModulus) /\ UNCHANGED last_read
    BY <1>5 DEF Poll
  <2>2. CASE IntervalPassed(time)
    <3>1. (time' - time) % TimerModulus <= ((time - time) % TimerModulus) + d
      BY <1>1, <1>2, <2>1, ShownGrows
    <3>2. (time - time) % TimerModulus = 0
      BY <1>1, <1>2, Shown
    <3>3. (time' - time) % TimerModulus <= 0 + d
      BY <3>1, <3>2
    <3> QED BY <2>1, <2>2, <3>3 DEF ShownInv
  <2>3. CASE ~IntervalPassed(time)
    BY <1>1, <1>3, <2>1, <2>3
  <2> QED BY <2>2, <2>3
<1>6. CASE UNCHANGED <<time, last_read, age>>
  BY <1>6 DEF ShownInv
<1> QED
  BY <1>4, <1>5, <1>6 DEF Next, sensor_read_data_into_buffer, Call, Read, ReadFails,
     sensor_get_buffered_data, OutOfMemory, vars

----------------------------------------------------------------------------
(* The ring *)

\* The slots behind the index, without the remainder.
LEMMA Slot ==
    ASSUME NEW N \in Nat \ {0}, NEW i \in 0..(N - 1), NEW k \in 0..(N - 1)
    PROVE  /\ (i - 1 - k) % N = IF i >= k + 1 THEN i - 1 - k ELSE i - 1 - k + N
           /\ (i + 1) % N = IF i = N - 1 THEN 0 ELSE i + 1
  BY SMT

\* With one more sample every other slot is one further behind.
LEMMA SlotMoves ==
    ASSUME NEW N \in Nat \ {0}, NEW i \in 0..(N - 1), NEW k \in 0..(N - 1)
    PROVE  /\ (i + 1) % N \in 0..(N - 1)
           /\ k = 0 => (((i + 1) % N) - 1 - k) % N = i
           /\ k > 0 => /\ (((i + 1) % N) - 1 - k) % N = (i - 1 - (k - 1)) % N
                       /\ (((i + 1) % N) - 1 - k) % N \in 0..(N - 1)
                       /\ (((i + 1) % N) - 1 - k) % N # i
<1> DEFINE j == (i + 1) % N
<1>1. j = (IF i = N - 1 THEN 0 ELSE i + 1) /\ j \in 0..(N - 1)
  BY Slot
<1>2. (j - 1 - k) % N = IF j >= k + 1 THEN j - 1 - k ELSE j - 1 - k + N
  BY <1>1, Slot
<1>3. k > 0 => (i - 1 - (k - 1)) % N
                  = IF i >= (k - 1) + 1 THEN i - 1 - (k - 1) ELSE i - 1 - (k - 1) + N
  BY Slot
<1> HIDE DEF j
<1> QED BY <1>1, <1>2, <1>3 DEF j

LEMMA RingKept ==
    ASSUME SensorTypeOK, RingHoldsLatest, [Next]_vars
    PROVE  RingHoldsLatest'
<1>1. CASE Read
  <2>1. /\ ring' = [ring EXCEPT ![idx] = samples + 1] /\ samples' = samples + 1
        /\ idx' = (idx + 1) % SENSOR_BUFFER_LEN
    BY <1>1 DEF Read, NextIndex
  <2>2. /\ SENSOR_BUFFER_LEN \in Nat \ {0} /\ idx \in 0..(SENSOR_BUFFER_LEN - 1)
        /\ samples \in Nat /\ ring \in [Slots -> 0..MaxSamples]
    BY SensorAssumption DEF SensorTypeOK, Slots
  <2> SUFFICES ASSUME NEW k \in Slots
               PROVE  ring'[Behind(k)'] = IF samples' >= k THEN samples' - k ELSE 0
    BY DEF RingHoldsLatest
  <2>3. k \in 0..(SENSOR_BUFFER_LEN - 1)
    BY DEF Slots
  <2>4. CASE k = 0
    <3>1. Behind(k)' = idx
      BY <2>1, <2>2, <2>3, <2>4, SlotMoves DEF Behind
    <3> QED BY <2>1, <2>2, <2>4, <3>1 DEF Slots
  <2>5. CASE k > 0
    <3>1. Behind(k)' = Behind(k - 1) /\ Behind(k)' \in Slots /\ Behind(k)' # idx
      BY <2>1, <2>2, <2>3, <2>5, SlotMoves DEF Behind, Slots
    <3>2. ring'[Behind(k)'] = ring[Behind(k - 1)]
      BY <2>1, <2>2, <3>1
    <3>3. k - 1 \in Slots
      BY <2>2, <2>3, <2>5 DEF Slots
    <3>4. ring[Behind(k - 1)] = IF samples >= k - 1 THEN samples - (k - 1) ELSE 0
      BY <3>3 DEF RingHoldsLatest
    <3> QED BY <2>1, <2>2, <2>3, <3>2, <3>4
  <2> QED BY <2>3, <2>4, <2>5
<1>2. CASE UNCHANGED <<ring, idx, samples>>
  BY <1>2 DEF RingHoldsLatest, Behind
<1> QED
  BY <1>1, <1>2 DEF Next, sensor_read_data_into_buffer, Idle, Call, Poll, ReadFails,
     sensor_get_buffered_data, OutOfMemory, vars, buffer

----------------------------------------------------------------------------
(* Types *)

\* A product is monotonic in its first factor.
LEMMA ProductOrder ==
    ASSUME NEW a \in Nat, NEW b \in Nat, NEW m \in Nat, a <= b
    PROVE  a * m <= b * m /\ a * m \in Nat
  BY SMT

\* Every byte of the output that is read from the ring lies in the ring.
LEMMA InRing ==
    ASSUME NEW L \in Nat \ {0}, NEW m \in Nat \ {0}, NEW n \in Nat, n < L * m
    PROVE  n \div m \in 0..(L - 1) /\ n % m \in 0..(m - 1)
<1>1. n = m * (n \div m) + (n % m) /\ n \div m \in Int /\ n % m \in 0..(m - 1)
  BY SMT
<1>2. n \div m >= 0
  BY <1>1
<1>3. ASSUME n \div m >= L PROVE FALSE
  <2>1. L * m <= (n \div m) * m
    BY <1>1, <1>3, ProductOrder
  <2> QED BY <1>1, <2>1
<1> QED BY <1>1, <1>2, <1>3

LEMMA CopyType ==
    ASSUME SensorTypeOK
    PROVE  Copied \in [0..(OutputSize - 1) -> Bytes \union {Uninitialised}]
<1> DEFINE L == SENSOR_BUFFER_LEN
           m == SampleSize
<1>1. /\ L \in Nat \ {0} /\ m \in Nat \ {0} /\ idx \in 0..(L - 1)
      /\ ring \in [0..(L - 1) -> 0..MaxSamples]
  BY SensorAssumption DEF SensorTypeOK, Slots
<1>2. ASSUME NEW n \in Nat, n < L * m PROVE RingByte(n) \in Bytes
  <2>1. n \div m \in 0..(L - 1) /\ n % m \in 0..(m - 1)
    BY <1>1, <1>2, InRing
  <2>2. ring[n \div m] \in 0..MaxSamples
    BY <1>1, <2>1
  <2> QED BY <2>1, <2>2 DEF RingByte, Bytes
<1>3. ASSUME NEW n \in 0..(OutputSize - 1)
      PROVE  (IF n >= idx /\ n < idx + idx THEN RingByte(n - idx)
              ELSE IF n < L - idx THEN RingByte(idx * m + n)
              ELSE Uninitialised) \in Bytes \union {Uninitialised}
  <2>1. n \in Nat /\ n < L * m
    <3>1. L * m \in Nat
      BY <1>1
    <3> QED BY <3>1 DEF OutputSize
  <2>2. CASE n >= idx /\ n < idx + idx
    <3>1. n - idx \in Nat /\ n - idx < L * m
      BY <1>1, <2>1, <2>2
    <3> QED BY <1>2, <2>2, <3>1
  <2>3. CASE ~(n >= idx /\ n < idx + idx) /\ n < L - idx
    <3>1. idx * m + (L - idx) * m = L * m /\ idx * m \in Nat /\ (L - idx) * m \in Nat
      BY <1>1
    <3>2. L - idx <= (L - idx) * m
      <4>1. 1 * (L - idx) <= m * (L - idx)
        BY <1>1, ProductOrder
      <4> QED BY <1>1, <4>1
    <3>3. idx * m + n \in Nat /\ idx * m + n < L * m
      BY <1>1, <2>1, <2>3, <3>1, <3>2
    <3> QED BY <1>2, <2>3, <3>3
  <2>4. CASE ~(n >= idx /\ n < idx + idx) /\ ~(n < L - idx)
    BY <2>4
  <2> QED BY <2>2, <2>3, <2>4
<1> QED BY <1>3 DEF Copied

LEMMA RoomKept ==
    ASSUME RoomInv, [Next]_vars
    PROVE  RoomInv'
  BY DEF RoomInv, Next, sensor_read_data_into_buffer, Idle, Elapse, Call, Poll, Read, ReadFails,
         sensor_get_buffered_data, OutOfMemory, vars

LEMMA TypesKept ==
    ASSUME SensorTypeOK, RoomInv, [Next]_vars
    PROVE  SensorTypeOK'
<1> USE SensorAssumption DEF SensorTypeOK, buffer
<1>1. ASSUME NEW d \in Nat
      PROVE  /\ (time + d) % TimerModulus \in 0..(TimerModulus - 1)
             /\ Least(age + d, TimerModulus) \in 0..TimerModulus
  <2>1. time + d \in Int /\ TimerModulus \in Nat \ {0}
    OBVIOUS
  <2>2. Least(age + d, TimerModulus) \in 0..TimerModulus
    BY DEF Least
  <2> QED BY <2>1, <2>2, RemainderInRange
<1>2. CASE Idle
  <2>1. PICK d \in 1..MaxIdle : Elapse(d)
    BY <1>2 DEF Idle
  <2>2. d \in Nat
    OBVIOUS
  <2>3. time' \in 0..(TimerModulus - 1) /\ age' \in 0..TimerModulus
    BY <1>1, <2>1, <2>2 DEF Elapse
  <2> QED BY <1>2, <2>3 DEF Idle
<1>3. CASE Call
  BY <1>3 DEF Call
<1>4. CASE Poll
  <2>1. PICK d \in 1..MaxStep :
          /\ time' = (time + d) % TimerModulus
          /\ IF IntervalPassed(time)
             THEN pc' = "reading" /\ last_read' = time /\ age' = d
             ELSE age' = Least(age + d, TimerModulus) /\ UNCHANGED <<pc, last_read>>
    BY <1>4 DEF Poll
  <2>2. d \in Nat /\ d \in 0..TimerModulus
    OBVIOUS
  <2>3. time' \in 0..(TimerModulus - 1) /\ age' \in 0..TimerModulus
    BY <1>1, <2>1, <2>2
  <2> QED BY <1>4, <2>1, <2>3 DEF Poll
<1>5. CASE Read
  <2>1. idx' \in Slots
    BY <1>5, SlotMoves DEF Read, NextIndex, Slots
  <2>2. samples' \in 0..MaxSamples
    BY <1>5 DEF Read, RoomInv
  <2> QED BY <1>5, <2>1, <2>2 DEF Read
<1>6. CASE ReadFails
  BY <1>6 DEF ReadFails
<1>7. CASE sensor_get_buffered_data
  BY <1>7, CopyType DEF sensor_get_buffered_data
<1>8. CASE OutOfMemory
  BY <1>8 DEF OutOfMemory
<1>9. CASE UNCHANGED vars
  BY <1>9 DEF vars
<1> QED
  BY <1>2, <1>3, <1>4, <1>5, <1>6, <1>7, <1>8, <1>9 DEF Next, sensor_read_data_into_buffer

----------------------------------------------------------------------------
(* Theorems *)

LEMMA InitHolds == Init => SensorInv
<1> SUFFICES ASSUME Init PROVE SensorInv
  OBVIOUS
<1> USE SensorAssumption DEF Init
<1>1. SensorTypeOK
  BY DEF SensorTypeOK, Slots
<1>2. RoomInv
  BY DEF RoomInv
<1>3. ShownInv
  <2>1. TimerModulus \in Nat \ {0} /\ time - last_read \in Int
    OBVIOUS
  <2>2. (time - last_read) % TimerModulus \in 0..(TimerModulus - 1)
    BY <2>1, RemainderInRange
  <2> QED BY <2>2 DEF ShownInv
<1>4. RingHoldsLatest
  <2> SUFFICES ASSUME NEW k \in Slots
               PROVE  ring[Behind(k)] = IF samples >= k THEN samples - k ELSE 0
    BY DEF RingHoldsLatest
  <2>1. idx - 1 - k \in Int
    BY DEF Slots
  <2>2. Behind(k) \in Slots
    BY <2>1, RemainderInRange DEF Behind, Slots
  <2> QED BY <2>2 DEF Slots
<1> QED BY <1>1, <1>2, <1>3, <1>4 DEF SensorInv

\* The inductive invariant of the sample buffer.
THEOREM Inductive == Spec => []SensorInv
<1>1. Init => SensorInv
  BY InitHolds
<1>2. SensorInv /\ [Next]_vars => SensorInv'
  BY TypesKept, RoomKept, ShownKept, RingKept DEF SensorInv
<1> QED BY <1>1, <1>2, PTL DEF Spec

\* The index stays in the ring and every byte of the output is one of the ring or
\* none at all: the copy reads nothing outside the buffer.
THEOREM TypeCorrect == Spec => []SensorTypeOK
<1>1. SensorInv => SensorTypeOK
  BY DEF SensorInv
<1> QED BY <1>1, Inductive, PTL

\* The ring holds the latest samples in order, whatever reads failed.
THEOREM LatestInRing == Spec => []RingHoldsLatest
<1>1. SensorInv => RingHoldsLatest
  BY DEF SensorInv
<1> QED BY <1>1, Inductive, PTL

\* Samples keep their distance, wherever the timer wraps.
THEOREM Spaced == Spec => SamplesSpaced
<1> DEFINE Far == pc = "waiting" /\ pc' = "reading" => age >= ReadInterval
<1>1. SensorInv /\ [Next]_vars => [Far]_vars
  <2> SUFFICES ASSUME SensorInv, Next, pc = "waiting", pc' = "reading"
               PROVE  age >= ReadInterval
    BY DEF Far
  <2>1. IntervalPassed(time)
    BY DEF Next, sensor_read_data_into_buffer, Idle, Call, Poll, Read, ReadFails,
           sensor_get_buffered_data, OutOfMemory
  <2>2. (time - last_read) % TimerModulus >= ReadInterval
    BY <2>1 DEF IntervalPassed
  <2>3. (time - last_read) % TimerModulus <= age
    BY DEF SensorInv, ShownInv
  <2>4. (time - last_read) % TimerModulus \in Int /\ age \in Int /\ ReadInterval \in Int
    <3>1. TimerModulus \in Nat \ {0} /\ time - last_read \in Int /\ age \in Int
          /\ ReadInterval \in Int
      BY SensorAssumption DEF SensorInv, SensorTypeOK
    <3> QED BY <3>1, RemainderInRange
  <2> QED BY <2>2, <2>3, <2>4
<1> QED BY <1>1, Inductive, PTL DEF Spec, SamplesSpaced

=============================================================================
