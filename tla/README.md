# Verification of the bare-metal IREE runtime

TLA+ models of the Kenning bare-metal IREE runtime (`src/iree-runtime`), TLC
configurations that check them on small instances, and TLAPS proofs, for every
value of the constants, of the safety of each of its components and of the three
refinements between its levels.

## 1. The system

The runtime is one thread on the Springbok core. A host (Kenning) talks to it
over a UART in messages; the runtime loads a compiled model into IREE, feeds it
inputs, runs it, and returns results. A build with an accelerometer also reads
inputs by itself and infers on them between messages.

| Component | State | Operations | Used by |
|---|---|---|---|
| UART driver (`uart.c`) | FIFO and error register of the hardware; nothing of its own but `initialized` | `uart_read`, `uart_getchar`, `uart_write`, `uart_init` | protocol |
| Protocol (`protocol.c`) | one message buffer for request and response | `receive_message`, `send_message`, response builders | main loop, callbacks |
| Main loop and callbacks (`iree_runtime.c`) | none besides the message pointer | `init_server`, `wait_for_message`, `handle_message`, eight callbacks | - |
| Input readers (`base_`, `sensor_input_reader.c`) | none | `read_input` | main loop |
| Model (`model.c`) | `g_model_struct`, `g_model_state` | load struct, weights, input; run; get output, statistics; reset | callbacks, main loop, sensor reader |
| IREE wrapper (`iree_wrapper.c`) | handles of instance, device, context, weights, input list, result list | create context, prepare buffers, run, get output, release | model |
| Sensor (`sensor.c`) | ring of samples, index, time of the last sample | check the identity of the device, read a sample into the ring, copy the ring out | sensor reader |
| Accelerometer (`adxl345.c`) | none | read the registers of the axes | sensor |
| I2C driver (`i2c.c`) | FIFOs and timing registers of the controller; `initialized` | `i2c_init`, read and write registers of a target | sensor, accelerometer |
| Register fields (`utils.h`) | none | set and get a field, trailing zeros, encoded statuses | drivers |

All interaction is by calls on the one thread. What runs concurrently is the
hardware: bytes arrive while the program polls, infers or samples, the timer
runs and wraps, the I2C controller works off its entries. What is hard is
therefore (a) sequences of requests, some refused and some failing half-way
inside IREE, that leave handles, struct and state at odds, (b) framing on a line
that loses bytes and pauses, (c) the polling loops against timer and FIFOs, and
(d) who gets which result when the sensor build infers between two requests.
`PROJECT.json` lists every hazard at its line.

What makes each component correct:

* wrapper and model: a context, its instance and its weights live and die
  together; the device outlives them; results belong to the live context; the
  model state never promises what is not there;
* main loop: an acknowledgement means the request took effect, a refusal takes
  back no stage, and a result is the one of the acknowledged weights and input
  unless a refusal spoiled a stage that was not repeated since; automatic
  inference is not starved;
* protocol: a FIFO channel of the messages the buffer holds on a clean line;
  otherwise resynchronisation at the next silence, without losing an undisturbed
  message, and never more behind the buffer than the size field;
* UART: a timeout that is neither early nor late, no silent loss on the way in,
  nothing lost on the way out;
* sensor, accelerometer and I2C: samples spaced by their interval, a ring without
  holes, a read that returns this transfer's registers, a sample of one reading,
  a write that lands while the format FIFO has room;
* start: the line and the bus set as configured while they are quiet, and the
  main loop entered with every device ready;
* register fields: a field reads back what was written and no other changes.

## 2. The modules

| Module | Models | Extends |
|---|---|---|
| `IreeWrapper` | `iree_wrapper.c`: handles and the outcomes of each function, one step each | |
| `WrapperCalls` | the same functions one IREE call at a time: who owns what, and what each path releases | instance of `IreeWrapper` |
| `Model` | `model.c`: one action per operation | `IreeWrapper` |
| `Session` | abstract: what the replies promise a host | |
| `Runtime` | `iree_runtime.c` and the input readers: one action per step of `main` and per callback | `Model`, instance of `Session` |
| `Uart` | `uart_read`, `uart_getchar`, `uart_write`, `uart_putchar` over both FIFOs and the timer | |
| `MessageChannel` | abstract: a FIFO channel of messages | |
| `Protocol` | `receive_message` over the bytes of the line | instance of `MessageChannel` |
| `I2C` | register transfers and the controller | |
| `Adxl345` | `sensor_init`'s identity check and `adxl345_read_data` over the transfers | `I2C` |
| `Sensor` | the ring, its timer, the copy | |
| `RegisterFields` | the field macros and encoded statuses of `utils.h`, as operators on words (sets of bit positions) | |
| `ServerInit` | `init_server`, `uart_init`, `i2c_init`, `sensor_init`, one register access at a time | `RegisterFields` |
| `ModelProofs`, `RuntimeProofs`, `UartProofs`, `SensorProofs`, `AccelProofs`, `WrapperProofs`, `ProtocolProofs` | theorems | their component |
| `RegisterProofs` | theorems about the register fields and the start | `ServerInit` |
| `MC*` | values of the constants, and claims of the documentation | their component |

How they fit: `Runtime` calls `Model` calls `IreeWrapper`, and `WrapperCalls`
shows that the one-step functions of `IreeWrapper` are what the IREE calls in
them amount to. `Protocol` rests on a `uart_read` that takes bytes, fails on a
flagged one or times out; `Uart` is that loop. `Runtime` receives whole messages,
as `Protocol` delivers them up to the first disturbance (`IsChannel`). `Sensor`
reads a sample or fails; `Adxl345` is that read over `I2C`. `ServerInit` is what
comes before the `Init` of all of them.

**State and actions.** Variables carry the names of the C globals. A handle is
abstracted to what the properties tell apart: a context to the blob it executes,
a list of views to their number and the payload they were made from, a result to
the weights and input it was computed from. A C function is an operator of its
name; the last parameter of a model operation is the status it returns. A
function that several callers chain on one handle (`prepare_output_buffer`, then
`run_inference`) is an operator from the handle's old value to the set of its
outcomes. In `Runtime`, `pc` stands between the calls `main` makes; `msg` is the
message buffer, which a callback overwrites with the response.

**History variables.** `told` and `spoiled` in `Runtime` (what the host has been
told, and the lowest stage of it that a refusal has made untrue); `seen`
(the globals between two functions), `failures` and `lost` in `WrapperCalls`;
`sent`, `delivered`, `clean` and `disturbed` in `Protocol`; `age`, `delivered`,
`skipped`, `reported` and `written` in `Uart`; `written`, `whole` and `keptUp` in
`I2C`; `lagged` and `wrote` in `Adxl345`; `age` and `samples` in `Sensor`; the
fields `atWork` and `identity` of `i2c` in `ServerInit`. No guard of
the program's actions reads them, except where a bound counts them.

**Failures.** Each IREE call that can return an error has a name in `IreeCalls`
and fails only if a run puts the name into `Faults`. Use of a NULL handle or of
an array beyond its end is undefined in C: the operator then has every outcome.

**Definitions named with a suffix** (`TooEarly_by_one`, `Waited_signed`, ...) are
plausible bugs. Nothing uses them; each stands before the definition it would
replace, and replacing it breaks the property `PROJECT.json` names under
`mutants`. They show that the property says something about the code.

## 3. What the runs check

| Run | Instance | Shows |
|---|---|---|
| `MCModel` | 2 models (1 and 2 arguments and results), 3 inputs, 8 structs, every call may fail | the handles stay consistent: `ContextWhole`, `DeviceBehindState`, `ResultsOfContext`, `NoResultBeforeInput`, `NoStageSkipped` |
| `RuntimeBase` | 2 models, 2 inputs, 5 structs, two of them invalid, no sensor, every IREE call may fail | the program refines `Session` (`KeepsPromise`) |
| `RuntimeSensor` | the same with a sensor that may fail and a struct that does not fit it | `KeepsPromise`, and `KeepsInferring` |
| `MCWrapper` | the same 2 models, lists of up to 2, every IREE call may fail, twice in a behaviour | nothing dangles, is freed twice, overwritten or forgotten (`NothingDangles`, `OwnedIsHeld`), only failures lose views (`OnlyFailuresLose`), and the calls amount to `IreeWrapper` (`ReturnsAsSpecified`) |
| `MCUart` | timer modulo 8, timeout 3, FIFOs of 2 and 1, 4 bytes in, 2 out | `TimeoutIsGenuine`, `TimeoutIsPrompt`, `NoSilentLoss`, `WrittenGoesOut`, `CallsEnd` |
| `MCProtocol` | sizes of 2 letters in base 3, 3 of 4 messages: an empty one, one that fills the buffer, one that is accepted and does not fit it, one that is refused; damage, overrun, pauses | `receive_message` implements `MessageChannel` up to the first disturbance (`IsChannel`, `PayloadFits`); behind it `CleanMessageArrives`, `AlwaysResynchronises` |
| `MCAdxl` | 3 registers, 4 transfers of up to 2 bytes, format FIFO of 4, receive FIFO of 3, a controller of any speed | `WritesLand`, `ReadsIfKeptUp` of the driver; `SampleWhole`, `SampleInOrder` of its client |
| `MCSensor` | ring of 3, timer modulo 8, 5 samples | `RingHoldsLatest`, `SamplesSpaced`, `WaitEnds` |
| `MCInit` | every baud rate, word length and speed, wrong ones too, 6 clocks; UART and I2C host disabled, enabled or at work | `LineAsConfigured`, `LineSetWhileQuiet`, `TimingsHold`, `RunsWhenReady` |
| `DocReadIfLoaded`, `DocOutput`, `DocSensorOrder` | as `RuntimeSensor`, `RuntimeBase`, `MCSensor` | disagreements, see below |

**Why the bounds are enough.** Two models that differ in their signature make a
stale result or a wrong argument list visible; a third would repeat a case.
`SIZE_MODULUS` 8 lets an input size wrap (7 + 3 = 2). The timers start at every
value and wrap inside a wait. The FIFOs are shorter than the number of bytes, so
the receive FIFO overflows and `uart_write` has to wait. In `Protocol` two letters per size make byte order matter, and a
payload that reads like a message of its own makes a lost boundary visible; with
a limit of 6 the buffer has room for 3 letters of payload, and the payloads have
0, 3, 4 and 6 (the last one beyond the limit). The ring wraps within five samples. In `Adxl345` four transfers are an identity, a
sample, another user's transfer and a sample, and a late byte of each can reach
the next; the format FIFO holds one write, so that a lagging controller makes it
lose entries anywhere in the next transfer. Two failures let a failed call follow a failed one in `WrapperCalls`;
three lists or blobs would repeat a case. `ServerInit` is not bounded but given
the configurations that differ: all rates the driver accepts at the clock of the
build, and clock periods on both sides of the shortest time. The message and transfer counts are the only
bounds of the histories: `MaxMessages`, `MaxBytes`, `MaxWritten`, `MaxLength`, `MaxTransfers`,
`MaxCount`, `MaxSamples`, `MaxFailures`;
`MaxStep` and `MaxIdle` bound the ticks of one step.

**What a refusal may spoil.** The runs and the theorem of `KeepsPromise` have
every fault, and structs that arrive whole but are not valid. The code does not
keep everything then, and `Session` says what is left of the promise: a refusal
takes back no stage, but it may spoil one, and until a request of that stage or a
lower one is acknowledged again nothing is promised of the results. `Runtime`
allows itself four ways to do so, one for each stage, each tied to what the code
has replaced although it refused:

* `SpoilStruct`: a struct is stored before it is validated (`model.c:31`);
* `SpoilWeights`: the old context is released before a new one can fail
  (`iree_wrapper.c:117`), and what uses the NULL context is undefined;
* `SpoilInput`: a failed push leaves the views pushed so far
  (`iree_wrapper.c:240`), which may fit a model that takes fewer arguments than
  its struct describes (`OneOutput`);
* `SpoilResult`: in the base build a failed creation of the result list leaves the
  state at "inference done" over a NULL list (`iree_wrapper.c:251`, used at 286).

None of the four can be left out: without any one of them TLC refutes
`KeepsPromise` in `RuntimeBase`. Every other refusal, such as a failed inference
or an input of a wrong size, spoils nothing.

**Fairness.** `Runtime`: weak fairness of the whole next-state relation. The
processor keeps executing and no call blocks for ever, since the wait for a
message ends with the UART timeout and a write with room in the FIFO (`CallsEnd`).
Nothing is assumed of the host. `Sensor`: weak fairness of the statements of a
call. `Uart`: the same for each of `uart_read` and `uart_putchar`, and of the
transmitter, which no flow control holds up. `Protocol`: weak
fairness of the receiver, which the main loop calls again for ever; none of the
host, which may stop inside a message. A silence is what `AlwaysResynchronises`
needs: a host that floods the line for ever could keep the receiver inside
payloads, and the last silence of each behaviour is there because the number of
messages is bounded. `I2C`, `Adxl345`, `WrapperCalls` and `ServerInit` have safety properties only,
hence no fairness.

**Deadlock** is checked everywhere but in `MCAdxl`, where the bound on transfers
ends a behaviour, and in `MCInit`, where the start comes to its end.

**Assumed of the hardware.** A UART that is disabled finishes the character it
sends and then is no longer busy (`ServerInit`); it takes the divisor over with
the write of LCRH; its error flags belong to the byte read before them or to an
overrun behind it (`Uart`). `uart_init` and `i2c_init` are called once, by
`init_server`. The I2C controller carries out its entries in order while its host is
enabled, whatever the driver does meanwhile, loses an entry or a byte that finds
its FIFO full, and empties the FIFOs whose bits are written to FIFO_CTRL.
The library retains what it is given as `Retains` says and needs what `Needs`
says (`WrapperCalls`).

### Disagreements with the documentation

Each `Doc*` run states one claim and finds it violated:

* `DocReadIfLoaded`: "read input if model is loaded"; after a failed reload no
  model is loaded and the state still says so.
* `DocOutput`: a refused IOSPEC has already replaced the struct (`model.c:31`), so
  OUTPUT acknowledges with another number of outputs than the inference had.
* `DocSensorOrder`: the copy of the ring counts samples where `memcpy` counts
  bytes, so the window is neither whole nor ordered as the comment says.

Noticed while modelling, without a run of their own since one guard decides each:

* `README.md:298-301` describes the model as sent and loaded before the
  specification of inputs and outputs; `model.c:79` refuses that order.
* The comments of the callbacks promise DATA and STATS responses
  (`iree_runtime.c:292`, `317`); the code sends OK (lines 309, 335).
* A register write ends with a read of one byte that nobody takes (`i2c.c:239`):
  the next read returns it as its first byte, against `i2c.h:258` and `273`. The
  runtime itself only reads; `ReadsIfKeptUp` and `SampleWhole` exclude it.
* `get_output` checks the mapped length only when the view is NULL
  (`iree_wrapper.c:297`), where the branch before has already returned: the check
  never fires, and the copy rests on the sizes alone.
* The error statuses of IREE own storage that nobody frees (`iree_wrapper.h:75`).
* `uart_write` does not look at the status of `uart_putchar` (`uart.c:128`). The
  only error it could miss is a driver that was never initialised.
* A baud rate whose divisor is exact gets a fraction of one 64th
  (`lround(x + 0.5)`, `uart.c:51`); `LineAsConfigured` allows that 64th.
* The rise and fall cycles of the I2C timing are written without having been set
  (`i2c.c:73`), and `raw_data` is not initialised (`adxl345.c:17`): both are any
  value in the models.
* The limit of `receive_message` (`protocol.c:41`) is on the number in the size
  field, which does not count the field. The buffer has `MAX_MESSAGE_SIZE_BYTES`
  from the message on (`protocol.c:12`, 23), so the room for a payload is less by
  all of the header, as the callbacks reckon (`iree_runtime.c:304`, 330). The four
  sizes up to the limit are accepted, and line 59 reads up to four bytes behind
  `g_message_buffer`. `PayloadFits` has both bounds; what the bytes overwrite is
  not modelled.
* `i2c_write_byte` writes FDATA without looking at FMTFULL (`i2c.c:205`). A
  transfer has at most four entries, so with a FIFO that holds more an entry is
  only lost behind a controller that lags by whole transfers; `WritesLand` says
  what holds then.
* `i2c_init` never disables the host (`i2c.c:109-130`). If the program starts over
  while the controller is in a transfer, the controller goes on and refills the
  receive FIFO behind its reset, and the byte is taken for the identity of the
  sensor. An identity that comes after the driver has polled for it fails the
  start as well (`i2c.c:274`, `sensor.c:25`). `RunsWhenReady` names both.
* `i2c.h:273` promises `count` registers; with a controller that lags behind
  (`i2c.c:274`) a read returns before its bytes are there. `ReadsIfKeptUp` states
  when it does not: the simulated controller of this repository's platform works
  at the access, and there the driver is right until a register is written.

## 4. What is proved

`ModelProofs` proves, for every set of weights, inputs and structs, every
signature and every set of failing calls (from `WrapperAssumption` and
`ModelAssumption` only), that the properties of `MCModel` hold. The inductive
invariant `ModelInv` is the type invariant with the four state properties, and a
run of all of them is `MCModel`. They need each other: `ResultsOfContext` after
an inference needs that the context's blob has a signature (type), that a NULL
context gives no named result, and `NoResultBeforeInput` needs that only
`run_model` makes results and that it raises the state. One lemma per operation
(`StructInv`, `WeightsInv`, `InputInv`, `RunInv`, `ResetInv`) shows that it keeps
`ModelInv`; `InputListType`, `OutputListOk` and `CreateContextWhole` are the facts
about the wrapper they rest on. `NoStageIsSkipped` follows from the type
invariant and a case split over the operations.

`RuntimeProofs` proves that every step of the program is a step of the model
component or leaves it alone (`RuntimeImplementsModel`), so what is proved of the
component holds of both builds of the program; `RuntimeContextWhole` is the first
such consequence. The proof needs that the message handled is a request of the
protocol (`MessageOk`), which is its invariant. `RuntimeTypeCorrect` adds what the
shared buffer holds between request and response (`BufferOk`).

`UartProofs` proves the safety of the UART driver for every timer, timeout and
FIFO depth, as long as a round of the loop does not take a turn of the timer
(`UartAssumption`). `UartInv` adds to the type invariant: `TimerInv`, the age of
`start_timer` at each statement, bounded, with the timer as its remainder, so that
`Difference` (the unsigned difference of two readings is the time between them)
makes `Waited` equal to `age` (`WaitedIsAge`); `CountInv`, what is left to do; and
`LineInv`, which says that behind the byte delivered last the FIFO holds all the
host has sent unless the overrun flag stands, and that the flag only stands over a
full FIFO and is looked at before a byte can get in behind the gap. `NoSilentLoss`
is not inductive without it. `WrittenGoesOut` is.

`SensorProofs` does the same for the sample buffer. `ShownInv` says that the timer
never shows more time since the last sample than has passed (`ShownGrows`), which
gives `SamplesSpaced` after idle times of any length; `SlotMoves` is the step of
`RingHoldsLatest`; and the type invariant carries `CopyType`, that both copies
read bytes of the ring only, wrong as their order is.

That the program keeps the promises of `Session` (`RuntimeKeepsPromise`) is proved
step by step under the refinement mapping of the runs. `PromiseInv` ties what the
host was told to the globals: at each stage that stands (`Stands`: the model state
has reached it and neither it nor a lower one is spoiled) the struct, the context
and the lists are those last acknowledged (`GlobalsAsTold`). One lemma per
operation says what its status gives away (`StructOutcome` to `RunOutcome`), one
per stage what its refusal spoils (`SpoilOfStruct` to `SpoilOfResult`), and
`RefusedStands` that a refusal which spoiled nothing leaves what stands. There is
no hypothesis on faults or structs: only the assumptions of the modules, and
`ListAssumption`, that a list is not the null pointer.

`AccelProofs` is about the accelerometer over the I2C driver and a controller of
any speed. `SampleInOrder` needs that the bytes the caller has, those in the
receive FIFO and those still to be read are one sequence in the order of
`Before` (`OrderInv`); that a read which begins comes behind all of them needs in
turn that the reads in the format FIFO are in the order of their transfers, and
that the last entry of a transfer, and no other, is a read (`FormatInv`).
`TransferInv` adds what each entry will do. An entry is a data byte, an address or
the end of a transfer by its place alone (`ShapeInv`), but the controller takes the
entries one by one and the driver may be half-way through a transfer when it does;
`BusInv` says for each entry, and across the end of the FIFO, which byte may follow
and which register it is for. From it `LandInv`: the last write to a register that
waits in the FIFO is the last that returned, and with none waiting the register
holds it. That is `WritesLand` when the FIFO is empty. All this is said of the
entries that are `Sound`, of transfers behind the latest one that lost an entry;
the others may do anything to the registers. It is enough because entries wait in
the order of their transfers (`AgeInv`): before a sound write is carried out
whatever is not sound is gone, and the START of its transfer has ended what it
left half-way. A loss makes nothing sound (`LossKeeps`). `KeptInv` says that with a
controller that keeps up at most one entry waits and what was read of the transfer
is with the caller or in the receive FIFO, register by register (`ReadsIfKeptUp`);
`ClientInv` carries it through `sensor_init` and a sample (`SampleWhole`).

`ProtocolProofs` is about `receive_message` for every base, width of the fields,
set of messages and depth of the FIFO, on a line with damage, overruns and pauses.
The size and the type of a message are numbers written in letters; that decoding
inverts encoding is induction over the letters. The library's induction schemes
take an operator and cannot be used here, but that the order of the naturals is
well-founded can, and gives induction over a set (`SetInduction`). `SyncInv` is
the invariant of the framing: as long as `clean`, what the receiver has taken of a
message, the FIFO and line, and what the host has left to send are together the
messages not yet delivered, from some message on (`InSync`); and before the first
disturbance from the first one on. The start is quantified because a silence that
the receiver waits out begins a new account: then nothing of an old message is
left on either side, and the next message is its first. Neither `CleanMessageArrives`
nor the first half of `PayloadFits` is inductive without it, since what arrives
next is decided by letters that are still on the line; the second half, of sizes
the host never sent, rests on the limit alone (`LimitBoundsPayload`). `ProtocolIsChannel` shows each step before a
disturbance to be one of `MessageChannel` or a stutter.

`WrapperProofs` is about the wrapper one IREE call at a time, for any models,
sizes of the lists and number of failures, at any calls. `OwnInv` says of each
pointer, global or local, that the program owns something by it exactly while it
is set, and `LocalInv` which local pointers are set at which statement: both are
needed to see that the early returns of `create_device` and the `cleanup` label of
`create_context` release all of it, once (`OwnedIsHeld`). `GlobalInv` says that a
context stands only with its instance, weights and device, and which of the four
stand at each statement of `create_context`, so that each release finds its users
gone (`NothingDangles`). `ViewsInv` counts the views of an input that are made and
moved, and bounds what a failure loses (`OnlyFailuresLose`).

That these calls amount to the one-step functions of `IreeWrapper`
(`ImplementsWrapper`) needs besides what the globals have become since the caller
saw them (`SeenInv`): unchanged in most functions; in `create_context` the blob
from the copy on, the device as it was until it is created, and after a failure
some call that is to blame for it and the device as that call leaves it
(`Blamed`); in `prepare_input_buffer` the list with as many views as were moved.
It is what lets `Model` and `Runtime` use `IreeWrapper` in place of the calls.

`RegisterProofs` proves for every 32-bit word, the set of the positions of its
ones: the trailing zeros the macro computes are the least position, a contiguous
field reads back what was written to it, other bits stay, and an error tells its
module and code. On these rests the start, for every configuration, clock and
clock period and whatever ran before: `StartInv` says what each statement of
`uart_init`, `i2c_init` and `sensor_init` has done before it. `LineInv`: the
transmitter is done before the first register of the line changes
(`LineSetWhileQuiet`), and rate and format are those computed from the
configuration. `TimingInv`: the registers written so far hold the cycles computed,
both numbers of a register whole (`TimingReadsBack`), and `RoundsUp` makes each
the least that is not shorter than the speed allows, at any clock period
(`TimingsHold`). `ReadyInv`: the main loop is reached with every device of the
build ready (`RunsWhenReady`). It needs that a controller which was done when its
receive FIFO was reset (`Done`) has nothing left that could fill it again, which
the controller's own steps keep (`ControllerStep`). A word stands for a number by a recursive sum;
`NumberOfBits` shows that sum to give back each number of 16 bits. The one
hypothesis is that of `LineIsConfigured`: `ClockFits`, that the reference clock can
make the rates of the driver; the clock of the build can (`BuildClockFits`).

Every invariant and action property of the passing runs has its theorem. Only
model-checked is liveness (`KeepsInferring`, `CallsEnd`, `AlwaysResynchronises`,
`WaitEnds`), which is beyond the proof system.

## 5. What is not modelled

* `get_status_str` and the log: a lookup of names;
* the scaling of `adxl345_read_data`, in floating point, which keeps no state;
* `Runtime` over `Protocol` behind a disturbance: what a made-up message does to
  the callbacks depends on the bytes after the table, since its type is not
  checked (`iree_runtime.c:171`); up to the disturbance `Runtime` has the messages
  `IsChannel` shows to arrive;
* the bytes of a response on the wire: `uart_write` sends what it is given
  (`WrittenGoesOut`), and the header is the format `Wire` decodes;
* the status fields and formats of the I2C driver that no function uses;
* failed allocations that the code does not check;
* the bytes an accepted message writes behind the message buffer: where they land
  is up to the linker;
* a count of 0, or one that does not fit the `uint8_t` it is sent in
  (`i2c.c:265`), of registers to read: the callers use 1 and 6;
* the size check of `sensor_get_buffered_data` (`sensor.c:85-88`): `read_input`
  has compared the same two sizes;
* the arithmetic of `LS_ONE`: `RegisterFields` has what it means, the least bit
  of a word;
* build files, platforms, scenarios and tests.

## 6. Plan

Done: all components of section 1; the refinements of `Session`, `MessageChannel`
and `IreeWrapper`; a proof of every safety and action property that a run checks.
Next, in this order:

1. that `ReturnsAsSpecified` and `RuntimeKeepsPromise` compose: `Runtime` over
   `WrapperCalls` instead of `IreeWrapper`;
2. the two hazards of `PROJECT.json` that no property covers (an unchecked
   allocation, a wrapped sum of sizes): both end in memory the models do not have.
