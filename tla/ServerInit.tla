----------------------------- MODULE ServerInit -----------------------------
(***************************************************************************)
(* The start of the program: init_server (iree_runtime.c) and the          *)
(* functions it calls, uart_init (uart.c), i2c_init (i2c.c) and            *)
(* sensor_init (sensor.c), one register access at a time.                  *)
(*                                                                         *)
(* The devices are external.  The UART's transmitter finishes what it was  *)
(* sending when the UART is disabled, and takes its baud rate divisor over *)
(* when LCRH is written; the I2C controller empties the FIFOs whose bits   *)
(* are written to FIFO_CTRL, which reads as zero, and while it is enabled, *)
(* by whoever used it before too, goes on with what is in its format FIFO. *)
(*                                                                         *)
(* The configuration is a variable set in Init: init_server has one, but   *)
(* the drivers answer for all.                                             *)
(***************************************************************************)
EXTENDS RegisterFields, FiniteSetsExt

CONSTANTS
    UartConfigs,  \* [data_bits, stop_bits, parity, baudrate]
    I2CConfigs,   \* [speed, clock_period_nanos]
    REF_CLOCK,    \* UART reference clock: 24000000 in the build
    Garbage       \* what a local that nobody has written may hold

\* What a uint16_t holds.
Uint16 == 0..2^16 - 1

ASSUME ServerInitAssumption ==
    /\ UartConfigs \subseteq
           [data_bits : Nat, stop_bits : Nat, parity : BOOLEAN, baudrate : Nat]
    /\ \A c \in I2CConfigs : c.clock_period_nanos \in Nat \ {0}
    /\ REF_CLOCK \in Nat
    /\ Garbage \subseteq Uint16

VARIABLES
    pc,      \* what is done next; "running" or "failed" at the end
    config,  \* [uart, i2c]: what the devices are to be set to
    board,   \* [sensor_build, device]: what is built in and what answers
    uart,    \* registers of the UART and its driver's `initialized'
    i2c      \* [TIMING, CTRL: registers of the I2C controller,
             \*  full: its FIFOs that hold something, busy: it carries out an
             \*  entry, initialized: of its driver, and as history
             \*  atWork: it was still at work when its receive FIFO was reset,
             \*  identity: what sensor_init took for the identity]

vars == <<pc, config, board, uart, i2c>>

\* Words and the numbers they stand for.
Bits(n) == {p \in 0..15 : (n \div 2^p) % 2 = 1}
Number(word) == MapThenSumSet(LAMBDA p : 2^p, word)

LCRH_PEN == {1}
LCRH_EPS == {2}
LCRH_STP2 == {3}
LCRH_FEN == {4}
LCRH_WLEN == {5, 6}
LCRH_SPS == {7}
CTRL_ENABLEHOST == {0}
FIFO_CTRL == [rx |-> {0}, fmt |-> {1}, acq |-> {7}, tx |-> {8}]
UpperHalf == 16..31
LowerHalf == 0..15
BAUDRATE_VALUES ==
    {110, 300, 600, 1200, 2400, 4800, 9600, 14400, 19200, 38400, 57600, 115200}
SENSOR_DEVICE_ID == 229

InitTypeOK ==
    /\ config.uart \in UartConfigs /\ config.i2c \in I2CConfigs
    /\ board \in [sensor_build : BOOLEAN, device : 0..255]
    /\ uart \in [enabled : BOOLEAN, busy : BOOLEAN, IBRD : Uint16, FBRD : 0..255,
                 LCRH : SUBSET (0..7), rate : Uint16 \X (0..255), initialized : BOOLEAN]
    /\ i2c.TIMING \in [0..4 -> Word]
    /\ i2c.full \subseteq DOMAIN FIFO_CTRL
    /\ i2c.CTRL \in Word /\ i2c.initialized \in BOOLEAN
    /\ i2c.busy \in BOOLEAN /\ i2c.atWork \in BOOLEAN
    /\ i2c.identity \in {"unread", "own", "left over", "late"}

\* Whatever ran before may have left the devices in use.
Init ==
    /\ pc = "uart_init"
    /\ config \in [uart : UartConfigs, i2c : I2CConfigs]
    /\ board \in [sensor_build : BOOLEAN, device : {SENSOR_DEVICE_ID, 0}]
    /\ \E on \in BOOLEAN, sending \in BOOLEAN :
          uart = [enabled |-> on, busy |-> sending, IBRD |-> 1, FBRD |-> 0,
                  LCRH |-> IF on THEN LCRH_FEN ELSE {}, rate |-> <<1, 0>>,
                  initialized |-> FALSE]
    /\ \E on \in BOOLEAN, working \in BOOLEAN, left \in {{}, DOMAIN FIFO_CTRL} :
          i2c = [TIMING |-> [r \in 0..4 |-> {}], full |-> left,
                 CTRL |-> IF on THEN CTRL_ENABLEHOST ELSE {}, busy |-> on /\ working,
                 initialized |-> FALSE, atWork |-> FALSE, identity |-> "unread"]

----------------------------------------------------------------------------
(* uart_init *)

TransmitterDone ==
    /\ uart.busy
    /\ uart' = [uart EXCEPT !.busy = FALSE]
    /\ UNCHANGED <<pc, config, board, i2c>>

UartValid ==
    /\ config.uart.data_bits \in 5..8
    /\ config.uart.stop_bits \in 1..2
    /\ config.uart.baudrate \in BAUDRATE_VALUES

UartRefused ==
    /\ pc = "uart_init" /\ ~UartValid
    /\ pc' = "failed"
    /\ UNCHANGED <<config, board, uart, i2c>>

\* One access of the driver to the UART.
UartStep(at, next, registers) ==
    /\ pc = at
    /\ pc' = next
    /\ uart' = registers
    /\ UNCHANGED <<config, board, i2c>>

DisableUart ==
    UartValid /\ UartStep("uart_init", "while busy", [uart EXCEPT !.enabled = FALSE])

WaitWhileBusy_not == UartStep("while busy", "disable fifo", uart)

\* The loop that polls FR ends when the transmitter is idle.
WaitWhileBusy == ~uart.busy /\ UartStep("while busy", "disable fifo", uart)

DisableFifo ==
    UartStep("disable fifo", "integer divisor", [uart EXCEPT !.LCRH = @ \ LCRH_FEN])

\* The divisor is REF_CLOCK over Sixteenth; what is left of it in 64ths is
\* rounded by lround(x + 0.5), the next whole number above x.
Sixteenth == 16 * config.uart.baudrate
IntegerDivisor == (REF_CLOCK \div Sixteenth) % 2^16

\* A fraction that nobody has scaled to 64ths.
FractionalDivisor_unscaled == ((REF_CLOCK % Sixteenth) \div Sixteenth + 1) % 2^8

FractionalDivisor == ((64 * (REF_CLOCK % Sixteenth)) \div Sixteenth + 1) % 2^8

\* The number of bits where their code belongs.
LineControl_uncoded == ShiftLeft(Bits(config.uart.data_bits), 5) \cup LCRH_FEN

LineControl ==
    ShiftLeft(Bits(config.uart.data_bits - 5), 5)
    \cup (IF config.uart.parity THEN LCRH_PEN \cup LCRH_EPS \cup LCRH_SPS ELSE {})
    \cup (IF config.uart.stop_bits = 2 THEN LCRH_STP2 ELSE {})
    \cup LCRH_FEN

SetLine ==
    \/ UartStep("integer divisor", "fractional divisor", [uart EXCEPT !.IBRD = IntegerDivisor])
    \/ UartStep("fractional divisor", "line control", [uart EXCEPT !.FBRD = FractionalDivisor])
    \/ UartStep("line control", "enable uart",
                [uart EXCEPT !.LCRH = LineControl, !.rate = <<uart.IBRD, uart.FBRD>>])

EnableUart ==
    UartStep("enable uart", IF board.sensor_build THEN "i2c_init" ELSE "running",
             [uart EXCEPT !.enabled = TRUE, !.initialized = TRUE])

uart_init == UartRefused \/ DisableUart \/ WaitWhileBusy \/ DisableFifo \/ SetLine \/ EnableUart

----------------------------------------------------------------------------
(* The I2C controller (external) *)

HostEnabled == i2c.CTRL = CTRL_ENABLEHOST

\* It begins an entry of the format FIFO, reads a byte from the bus, or is done
\* with the entry.
ControllerWorks ==
    /\ HostEnabled
    /\ \/ /\ ~i2c.busy /\ "fmt" \in i2c.full
          /\ \E rest \in {i2c.full, i2c.full \ {"fmt"}} :
                i2c' = [i2c EXCEPT !.full = rest, !.busy = TRUE]
       \/ /\ i2c.busy
          /\ \/ i2c' = [i2c EXCEPT !.full = @ \cup {"rx"}]
             \/ i2c' = [i2c EXCEPT !.busy = FALSE]
    /\ UNCHANGED <<pc, config, board, uart>>

----------------------------------------------------------------------------
(* i2c_init *)

\* A division that rounds down: a cycle short of the time.
round_up_divide_down(a, b) == (a \div b) % 2^16

round_up_divide(a, b) == ((a - 1) \div b + 1) % 2^16

\* Nanoseconds a speed asks for.
Times(high, low, start_setup, start_hold, data_setup, stop_setup, stop_hold) ==
    [scl_time_high |-> high, scl_time_low |-> low, start_signal_setup |-> start_setup,
     start_signal_hold |-> start_hold, data_signal_setup |-> data_setup,
     stop_signal_setup |-> stop_setup, stop_signal_hold |-> stop_hold]
DefaultTimes ==
    [I2C_SPEED_STANDARD  |-> Times(4000, 4700, 4700, 4000, 250, 4000, 4700),
     I2C_SPEED_FAST      |-> Times(600, 1300, 600, 600, 100, 600, 1300),
     I2C_SPEED_FAST_PLUS |-> Times(260, 500, 260, 260, 50, 260, 500)]

SpeedKnown == config.i2c.speed \in DOMAIN DefaultTimes

Cycles(parameter) ==
    round_up_divide(DefaultTimes[config.i2c.speed][parameter], config.i2c.clock_period_nanos)

\* A timing register from its two fields.
Timing(upper, lower) ==
    SET_REG_FIELD(SET_REG_FIELD({}, UpperHalf, Bits(upper)), LowerHalf, Bits(lower))

I2CRefused ==
    /\ pc = "i2c_init" /\ ~SpeedKnown
    /\ pc' = "failed"
    /\ UNCHANGED <<config, board, uart, i2c>>

SetTiming(register, at, next, upper, lower) ==
    /\ pc = at
    /\ i2c' = [i2c EXCEPT !.TIMING[register] = Timing(upper, lower)]
    /\ pc' = next
    /\ UNCHANGED <<config, board, uart>>

\* The cycles of rise and fall are the two fields of the local structure that
\* get_default_config_for_speed does not set.
SetTimings ==
    \/ /\ SpeedKnown
       /\ SetTiming(0, "i2c_init", "timing 1", Cycles("scl_time_high"), Cycles("scl_time_low"))
    \/ \E rise \in Garbage, fall \in Garbage : SetTiming(1, "timing 1", "timing 2", rise, fall)
    \/ SetTiming(2, "timing 2", "timing 3",
                 Cycles("start_signal_setup"), Cycles("start_signal_hold"))
    \/ SetTiming(3, "timing 3", "timing 4", Cycles("data_signal_setup"), 1)
    \/ SetTiming(4, "timing 4", "reset rx",
                 Cycles("stop_signal_setup"), Cycles("stop_signal_hold"))

AtWork == HostEnabled /\ (i2c.busy \/ "fmt" \in i2c.full)

\* FIFO_CTRL reads as zero.
ResetFifo(fifo, at, next) ==
    /\ pc = at
    /\ LET written == SET_REG_FIELD({}, FIFO_CTRL[fifo], {0})
       IN  i2c' = [i2c EXCEPT !.full = {f \in @ : FIFO_CTRL[f] \cap written = {}},
                              !.atWork = IF fifo = "rx" THEN AtWork ELSE @]
    /\ pc' = next
    /\ UNCHANGED <<config, board, uart>>

\* Entries of another user stay in the format FIFO.
ResetFifos_forgetful ==
    \/ ResetFifo("rx", "reset rx", "reset acq")
    \/ ResetFifo("acq", "reset acq", "reset tx")
    \/ ResetFifo("tx", "reset tx", "enable host")

ResetFifos ==
    \/ ResetFifo("rx", "reset rx", "reset fmt")
    \/ ResetFifo("fmt", "reset fmt", "reset acq")
    \/ ResetFifo("acq", "reset acq", "reset tx")
    \/ ResetFifo("tx", "reset tx", "enable host")

EnableHost ==
    /\ pc = "enable host"
    /\ i2c' = [i2c EXCEPT !.CTRL = CTRL_ENABLEHOST, !.initialized = TRUE]
    /\ pc' = "sensor_init"
    /\ UNCHANGED <<config, board, uart>>

i2c_init == I2CRefused \/ SetTimings \/ ResetFifos \/ EnableHost

----------------------------------------------------------------------------
(* sensor_init *)

\* What the transfer of sensor_get_device_id makes of device_id, which was
\* zero: the byte of the sensor, one left over from another transfer, or none
\* that has come when the driver polls for it.
Identity(came, device_id) ==
    \/ /\ came = "own" /\ device_id = board.device
       /\ i2c.full \cap {"rx", "fmt"} = {} /\ ~i2c.busy
    \/ /\ came = "left over"
       /\ "rx" \in i2c.full \/ i2c.busy
    \/ /\ came = "late" /\ device_id = 0
       /\ "rx" \notin i2c.full

\* Unless its byte was taken the transfer is left to the controller.
sensor_get_device_id(came, device_id) ==
    /\ Identity(came, device_id)
    /\ \E rest \in IF came = "left over" THEN {i2c.full, i2c.full \ {"rx"}} ELSE {i2c.full} :
          i2c' = [i2c EXCEPT !.full = IF came = "own" THEN rest ELSE rest \cup {"fmt"},
                             !.identity = came]

sensor_init ==
    /\ pc = "sensor_init"
    /\ \E came \in {"own", "left over", "late"}, device_id \in {0, SENSOR_DEVICE_ID} :
          /\ sensor_get_device_id(came, device_id)
          /\ pc' = IF device_id = SENSOR_DEVICE_ID THEN "running" ELSE "failed"
    /\ UNCHANGED <<config, board, uart>>

init_server == uart_init \/ i2c_init \/ sensor_init

Next == init_server \/ TransmitterDone \/ ControllerWorks

Spec == Init /\ [][Next]_vars

----------------------------------------------------------------------------
(* Properties *)

Within(a, b, distance) == a - b \in (-distance)..distance

(***************************************************************************)
(* Once the UART driver says it is initialised the line is what the        *)
(* configuration asked for: word length, stop bits, parity, FIFOs on, and  *)
(* a divisor in effect, not just written, that fits its registers and is   *)
(* at most one 64th off the ideal one at every rate the driver takes.      *)
(***************************************************************************)
LineAsConfigured ==
    uart.initialized =>
        /\ uart.enabled
        /\ Number(GET_REG_FIELD(uart.LCRH, LCRH_WLEN)) = config.uart.data_bits - 5
        /\ LCRH_STP2 \subseteq uart.LCRH <=> config.uart.stop_bits = 2
        /\ LCRH_PEN \subseteq uart.LCRH <=> config.uart.parity
        /\ LCRH_FEN \subseteq uart.LCRH
        /\ uart.rate[2] < 64
        /\ Within((64 * uart.rate[1] + uart.rate[2]) * Sixteenth, 64 * REF_CLOCK, Sixteenth)

(***************************************************************************)
(* The line is never changed under a character that is being sent: its     *)
(* registers change only while the UART is disabled and idle, whatever was *)
(* going on when the program started.                                      *)
(***************************************************************************)
LineSetWhileQuiet ==
    [][<<uart.IBRD, uart.FBRD, uart.LCRH, uart.rate>>'
           # <<uart.IBRD, uart.FBRD, uart.LCRH, uart.rate>>
       => ~uart.enabled /\ ~uart.busy]_vars

\* The fields of the timing registers, as the controller reads them.
FieldOf ==
    [scl_time_high |-> <<0, UpperHalf>>, scl_time_low |-> <<0, LowerHalf>>,
     start_signal_setup |-> <<2, UpperHalf>>, start_signal_hold |-> <<2, LowerHalf>>,
     data_signal_setup |-> <<3, UpperHalf>>,
     stop_signal_setup |-> <<4, UpperHalf>>, stop_signal_hold |-> <<4, LowerHalf>>]
CyclesSet(parameter) ==
    Number(GET_REG_FIELD(i2c.TIMING[FieldOf[parameter][1]], FieldOf[parameter][2]))

(***************************************************************************)
(* When the I2C driver says it is initialised each timing the controller   *)
(* reads from its registers lasts at least as long as the speed demands,   *)
(* and not a cycle longer, at every clock and whatever the unset rise and  *)
(* fall times hold.                                                        *)
(***************************************************************************)
TimingsHold ==
    i2c.initialized =>
        \A p \in DOMAIN FieldOf :
            LET time == DefaultTimes[config.i2c.speed][p]
                period == config.i2c.clock_period_nanos
            IN  (CyclesSet(p) - 1) * period < time /\ time <= CyclesSet(p) * period

(***************************************************************************)
(* The main loop starts with every device of the build ready, and, unless  *)
(* somebody's transfer was still at work when the receive FIFO was reset,  *)
(* with empty FIFOs and the right sensor: i2c_init never stops the host.   *)
(* The start fails only if a configuration is wrong, the sensor is not     *)
(* there or was late to answer, or such a transfer got in the way.         *)
(***************************************************************************)
RunsWhenReady ==
    /\ pc = "running" =>
           /\ uart.initialized
           /\ board.sensor_build =>
                  /\ i2c.initialized
                  /\ ~i2c.atWork => i2c.full = {} /\ board.device = SENSOR_DEVICE_ID
    /\ pc = "failed" =>
           \/ ~UartValid
           \/ /\ board.sensor_build
              /\ \/ ~SpeedKnown
                 \/ board.device # SENSOR_DEVICE_ID
                 \/ i2c.identity = "late"
                 \/ i2c.atWork

============================================================================
