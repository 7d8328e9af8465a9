------------------------------- MODULE Sensor -------------------------------
(***************************************************************************)
(* The sensor's sample buffer (sensor.c): sensor_read_data_into_buffer     *)
(* polls the free-running timer until SENSOR_READ_INTERVAL has passed      *)
(* since the last sample, reads one over I2C and puts it into a ring;      *)
(* sensor_get_buffered_data copies the ring out, in bytes, as the input of *)
(* a model.                                                                *)
(*                                                                         *)
(* Samples are numbered from 1; 0 stands for the zeros of an unused slot.  *)
(* A sample is SampleSize bytes, and a byte of it is named by the number   *)
(* of the sample and its place in it.                                      *)
(***************************************************************************)
EXTENDS Integers, Sequences

CONSTANTS
    SENSOR_BUFFER_LEN,
    SampleSize,     \* sizeof(sensor_data_t)
    ReadInterval,   \* SENSOR_READ_INTERVAL in ticks: 240000 in the build
    TimerModulus,   \* the timer wraps here: 2^32 in the build
    MaxStep,        \* bound: longest time a round of the loop takes
    MaxIdle,        \* bound: longest time between two calls
    MaxSamples,     \* bound: how many samples are read
    Uninitialised   \* a byte of malloc'ed memory nobody has written

ASSUME SensorAssumption ==
    /\ SENSOR_BUFFER_LEN \in Nat \ {0}
    /\ SampleSize \in Nat \ {0, 1}  \* the second copy stays in the output
    /\ MaxStep \in Nat \ {0} /\ MaxIdle \in Nat
    /\ ReadInterval \in Nat
    /\ ReadInterval + MaxStep < TimerModulus /\ TimerModulus \in Nat
    /\ MaxSamples \in Nat

VARIABLES
    time,       \* CSR_TIME
    pc,         \* "idle", "waiting", "reading" or "copying"
    timer,      \* what sensor_read_data_into_buffer last read from CSR_TIME
    last_read,  \* g_sensor_last_read_time
    ring,       \* g_sensor_data_buffer: slot -> number of the sample in it
    idx,        \* g_sensor_data_buffer_idx
    output,     \* the bytes last handed to the model, <<>> if none
    \* history
    age,        \* ticks since the last sample was started, up to the modulus
    samples     \* how many samples have been stored

buffer == <<ring, idx>>
vars == <<time, pc, timer, last_read, ring, idx, output, age, samples>>

Slots == 0..(SENSOR_BUFFER_LEN - 1)
OutputSize == SENSOR_BUFFER_LEN * SampleSize
Bytes == [sample : 0..MaxSamples, place : 0..(SampleSize - 1)]
Least(a, b) == IF a < b THEN a ELSE b

SensorTypeOK ==
    /\ time \in 0..(TimerModulus - 1)
    /\ pc \in {"idle", "waiting", "reading", "copying"}
    /\ timer \in 0..(TimerModulus - 1) /\ last_read \in 0..(TimerModulus - 1)
    /\ ring \in [Slots -> 0..MaxSamples]
    /\ idx \in Slots
    /\ output = <<>> \/ output \in [0..(OutputSize - 1) -> Bytes \union {Uninitialised}]
    /\ age \in 0..TimerModulus
    /\ samples \in 0..MaxSamples

\* Before the first sample last_read is 0, whatever the timer says.
Init ==
    /\ time \in 0..(TimerModulus - 1)
    /\ pc = "idle"
    /\ timer = 0 /\ last_read = 0
    /\ ring = [s \in Slots |-> 0] /\ idx = 0
    /\ output = <<>>
    /\ age = TimerModulus /\ samples = 0

Elapse(d) ==
    /\ time' = (time + d) % TimerModulus
    /\ age' = Least(age + d, TimerModulus)

\* The rest of the program runs.
Idle ==
    /\ pc = "idle"
    /\ \E d \in 1..MaxIdle : Elapse(d)
    /\ UNCHANGED <<pc, timer, last_read, buffer, output, samples>>

----------------------------------------------------------------------------
(* sensor_read_data_into_buffer *)

Call ==
    /\ pc = "idle" /\ samples < MaxSamples
    /\ pc' = "waiting"
    /\ UNCHANGED <<time, timer, last_read, buffer, output, age, samples>>

\* A signed difference, and one that takes a wrap for a long time.
IntervalPassed_signed(now) == now - last_read >= ReadInterval
IntervalPassed_at_wrap(now) == now < last_read \/ now - last_read >= ReadInterval

\* The difference of unsigned times survives the wrap of the timer.
IntervalPassed(now) == (now - last_read) % TimerModulus >= ReadInterval

\* A round of the loop: read the timer, compare.
Poll ==
    /\ pc = "waiting"
    /\ timer' = time
    /\ \E d \in 1..MaxStep :
          /\ time' = (time + d) % TimerModulus
          /\ IF IntervalPassed(time)
             THEN pc' = "reading" /\ last_read' = time /\ age' = d
             ELSE age' = Least(age + d, TimerModulus) /\ UNCHANGED <<pc, last_read>>
    /\ UNCHANGED <<buffer, output, samples>>

\* An index that runs out of the ring.
NextIndex_unwrapped == idx + 1
NextIndex == (idx + 1) % SENSOR_BUFFER_LEN

\* The sample goes into the ring, or the transfer fails and the ring stays as
\* it was, its interval spent.
Read ==
    /\ pc = "reading"
    /\ samples' = samples + 1
    /\ ring' = [ring EXCEPT ![idx] = samples']
    /\ idx' = NextIndex
    /\ pc' = "copying"
    /\ UNCHANGED <<time, timer, last_read, output, age>>

\* A failure that is looked at behind the advance of the index.
ReadFails_late ==
    /\ pc = "reading"
    /\ pc' = "idle"
    /\ idx' = NextIndex
    /\ UNCHANGED <<time, timer, last_read, ring, output, age, samples>>

ReadFails ==
    /\ pc = "reading"
    /\ pc' = "idle"
    /\ UNCHANGED <<time, timer, last_read, buffer, output, age, samples>>

sensor_read_data_into_buffer == Poll \/ Read \/ ReadFails

----------------------------------------------------------------------------
(* sensor_get_buffered_data *)

\* Byte n of the ring as memory.
RingByte(n) == [sample |-> ring[n \div SampleSize], place |-> n % SampleSize]

\* The two calls of memcpy, in order: their lengths, and the place of the
\* second copy, count bytes by the number of samples.
Copied ==
    LET first == SENSOR_BUFFER_LEN - idx
    IN  [n \in 0..(OutputSize - 1) |->
            IF n >= idx /\ n < idx + idx THEN RingByte(n - idx)
            ELSE IF n < first THEN RingByte(idx * SampleSize + n)
            ELSE Uninitialised]

\* Its check of the size passes: read_input, the only caller, has made the same
\* comparison before it called for a sample.
sensor_get_buffered_data ==
    /\ pc = "copying"
    /\ output' = Copied
    /\ pc' = "idle"
    /\ UNCHANGED <<time, timer, last_read, buffer, age, samples>>

\* read_input got no memory for the copy: the sample stays in the ring.
OutOfMemory ==
    /\ pc = "copying"
    /\ output' = <<>>
    /\ pc' = "idle"
    /\ UNCHANGED <<time, timer, last_read, buffer, age, samples>>

Next ==
    \/ Idle \/ Call
    \/ sensor_read_data_into_buffer
    \/ sensor_get_buffered_data \/ OutOfMemory

\* The processor executes the statements of a call.
Spec ==
    /\ Init /\ [][Next]_vars
    /\ WF_vars(sensor_read_data_into_buffer) /\ WF_vars(sensor_get_buffered_data)

----------------------------------------------------------------------------
(* Properties *)

(***************************************************************************)
(* Samples are at least SENSOR_READ_INTERVAL apart in real time, across    *)
(* the wrap of the timer and however long the program was busy in between. *)
(***************************************************************************)
SamplesSpaced == [][pc = "waiting" /\ pc' = "reading" => age >= ReadInterval]_vars

(***************************************************************************)
(* The wait for the interval ends.                                         *)
(***************************************************************************)
WaitEnds == pc = "waiting" ~> pc # "waiting"

\* Slot of the ring that is k slots behind the newest sample.
Behind(k) == (idx - 1 - k) % SENSOR_BUFFER_LEN

(***************************************************************************)
(* The ring holds the last SENSOR_BUFFER_LEN good samples, newest behind   *)
(* the index: a failed read leaves no hole and no sample is stored twice.  *)
(***************************************************************************)
RingHoldsLatest ==
    \A k \in Slots : ring[Behind(k)] = IF samples >= k THEN samples - k ELSE 0

(***************************************************************************)
(* sensor.c says the copy maps the ring to [idx, ..., len-1, 0, ...,       *)
(* idx-1]: the model gets the samples whole, from the oldest to the newest.*)
(***************************************************************************)
OldestFirst ==
    output # <<>> /\ pc = "idle" =>
        \A k \in Slots, place \in 0..(SampleSize - 1) :
            output[k * SampleSize + place] =
                [sample |-> ring[(idx + k) % SENSOR_BUFFER_LEN], place |-> place]

============================================================================
