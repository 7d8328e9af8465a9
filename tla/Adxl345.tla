------------------------------ MODULE Adxl345 -------------------------------
(***************************************************************************)
(* The accelerometer read over the I2C driver: sensor_init compares the    *)
(* identity in register 0 (sensor.c) and adxl345_read_data reads the axes  *)
(* (adxl345.c).  Neither learns how many bytes the driver got.             *)
(*                                                                         *)
(* Other users of the bus read and write registers as they like between    *)
(* two calls: the driver exports both operations.                          *)
(***************************************************************************)
EXTENDS I2C

CONSTANTS
    ADXL345_DATA_X0,  \* register of the first byte of the axes
    DataSize,         \* sizeof(raw_data)
    Uninitialised     \* a byte of raw_data nobody has written

ASSUME Adxl345Assumption ==
    /\ 0 \in Registers /\ ADXL345_DATA_X0 \in Registers
    /\ DataSize \in 1..MaxCount /\ MaxCount <= RxDepth
    /\ Uninitialised \notin Bytes

VARIABLES
    client,  \* "off", "identify", "ready", "sampling" or "failed"
    sample,  \* bytes of the sample last returned, <<>> if none
    \* history
    lagged,  \* the driver has once found the controller still at work
    wrote    \* a register has been written

accelVars == <<vars, client, sample, lagged, wrote>>

Adxl345TypeOK ==
    /\ I2CTypeOK
    /\ client \in {"off", "identify", "ready", "sampling", "failed"}
    /\ sample = <<>> \/ sample \in [1..DataSize -> Bytes \union {Uninitialised}]
    /\ lagged \in BOOLEAN /\ wrote \in BOOLEAN

AccelInit ==
    /\ Init
    /\ client = "off" /\ sample = <<>>
    /\ lagged = FALSE /\ wrote = FALSE

----------------------------------------------------------------------------

\* sensor_get_device_id: register 0, one byte.
sensor_get_device_id ==
    /\ client = "off"
    /\ i2c_read_target_registers(0, 1)
    /\ client' = "identify"
    /\ UNCHANGED sample

\* device_id is zero unless a byte came, and only register 0 holds the
\* identity.
Identified == data # <<>> /\ data[1].register = 0

\* sensor_init with the status of the transfer, which is always STATUS_OK.
sensor_init ==
    /\ client = "identify" /\ pc = "idle"
    /\ client' = IF Identified THEN "ready" ELSE "failed"
    /\ UNCHANGED <<vars, sample>>

\* Calls adxl345_read_data; one that is a register off.
adxl345_read_data_off_by_one ==
    /\ client = "ready"
    /\ i2c_read_target_registers(ADXL345_DATA_X0 - 1, DataSize)
    /\ client' = "sampling"
    /\ UNCHANGED sample

adxl345_read_data ==
    /\ client = "ready"
    /\ i2c_read_target_registers(ADXL345_DATA_X0, DataSize)
    /\ client' = "sampling"
    /\ UNCHANGED sample

\* The bytes that came, and whatever the stack held for the others.
ReturnSample ==
    /\ client = "sampling" /\ pc = "idle"
    /\ sample' = [i \in 1..DataSize |-> IF i <= Len(data) THEN data[i] ELSE Uninitialised]
    /\ client' = "ready"
    /\ UNCHANGED vars

Other ==
    /\ client = "ready"
    /\ \E a \in Registers :
          \/ \E n \in 1..MaxCount : i2c_read_target_registers(a, n)
          \/ i2c_write_target_register(a)
    /\ UNCHANGED <<client, sample>>

Step ==
    \/ sensor_get_device_id \/ sensor_init
    \/ adxl345_read_data \/ ReturnSample \/ Other
    \/ (Driver \/ Controller) /\ UNCHANGED <<client, sample>>

\* Any step of the driver but sensor_init and ReturnSample, which leave it
\* alone, is an access to the controller.
AccelNext ==
    /\ Step
    /\ lagged' = (lagged \/ (driver' # driver /\ ~ControllerIdle))
    /\ wrote' = (wrote \/ request'.write)

AccelSpec == AccelInit /\ [][AccelNext]_accelVars

----------------------------------------------------------------------------
(* Properties *)

(***************************************************************************)
(* While the controller has always been done when the driver looked and no *)
(* register has been written, the sensor is accepted and a sample is the   *)
(* registers of the axes, all of them and in order, of one reading of the  *)
(* target: no byte is left over from the identity, from an earlier sample  *)
(* or from the stack.                                                      *)
(***************************************************************************)
SampleWhole ==
    ~lagged /\ ~wrote =>
        /\ client # "failed"
        /\ sample # <<>> =>
               \E t \in 1..transfer :
                   sample = [i \in 1..DataSize |->
                                [register |-> ADXL345_DATA_X0 + i - 1, transfer |-> t]]

(***************************************************************************)
(* However far the controller lags and whatever is written, bytes reach a  *)
(* sample in the order they were read from the target and none twice; what *)
(* is missing is missing at the end.                                       *)
(***************************************************************************)
SampleInOrder ==
    \A i, j \in DOMAIN sample :
        i < j /\ sample[j] # Uninitialised =>
            /\ sample[i] # Uninitialised
            /\ \/ sample[i].transfer < sample[j].transfer
               \/ /\ sample[i].transfer = sample[j].transfer
                  /\ sample[i].register < sample[j].register

============================================================================
