-------------------------------- MODULE Uart --------------------------------
(***************************************************************************)
(* Reading and writing with the UART driver (uart.c), once uart_init has   *)
(* returned: uart_read polls the receive FIFO and the free-running timer   *)
(* until it has its bytes, an error, or UART_TIMEOUT_S without a byte;     *)
(* uart_write waits for room in the transmit FIFO before each byte, and    *)
(* does not look at the receive FIFO meanwhile.                            *)
(*                                                                         *)
(* Three things run at once: the driver's statements, the clock, and the   *)
(* line, in both directions.  A driver step takes at most MaxStep ticks;   *)
(* time is only kept during uart_read.  Bytes are numbered in the order    *)
(* the host sends them, and the caller of uart_write hands them over; the  *)
(* numbers stand for their values and say which byte got where.            *)
(***************************************************************************)
EXTENDS Integers, Sequences

CONSTANTS
    TimerModulus,  \* the timer wraps here: 2^32 in the build
    Timeout,       \* UART_TIMEOUT_S in ticks: 120000 in the build
    MaxStep,       \* bound: longest time one statement of uart_read takes
    FifoDepth,     \* depth of the receive FIFO of the hardware
    TxDepth,       \* depth of its transmit FIFO
    MaxBytes,      \* bound: bytes the host ever sends
    MaxLength,     \* bound: bytes one uart_read is asked for
    MaxWritten     \* bound: bytes ever handed to uart_write

ASSUME UartAssumption ==
    /\ Timeout \in Nat \ {0}
    /\ MaxStep \in Nat \ {0}
    /\ TimerModulus \in Nat \ {0}
    /\ Timeout + 4 * MaxStep < TimerModulus
    /\ FifoDepth \in Nat \ {0} /\ TxDepth \in Nat \ {0}
    /\ MaxBytes \in Nat
    /\ MaxLength \in Nat /\ MaxWritten \in Nat

VARIABLES
    \* the hardware
    fifo,         \* receive FIFO: records [byte, bad], oldest first
    overrun,      \* OE of RSRECR: a byte found the FIFO full and was lost
    tx,           \* transmit FIFO: numbers of the bytes in it
    time,         \* CSR_TIME
    \* the line
    sent,         \* how many bytes the host has sent
    wire,         \* how many bytes the host has been sent
    \* uart_read and uart_write
    pc,           \* "returned", "getchar", "errors", "judge" or "putchar"
    data_length,  \* bytes still to read or to write
    start_timer,
    status,       \* of the last uart_getchar, then of uart_read
    c,            \* what uart_getchar read from DR
    \* history
    age,          \* ticks since start_timer was read, never wrapping
    delivered,    \* the last byte stored in a caller's buffer
    skipped,      \* a byte was stored that does not follow the one before
    reported,     \* some uart_read returned UART_STATUS_RECV_ERROR
    written       \* how many bytes uart_write has written to DR

hardware == <<fifo, overrun>>
sending == <<tx, wire, written>>
vars == <<fifo, overrun, time, sent, pc, data_length, start_timer, status, c,
          age, delivered, skipped, reported, sending>>

Received == [byte : 0..MaxBytes, bad : BOOLEAN]

UartTypeOK ==
    /\ fifo \in Seq(Received) /\ Len(fifo) <= FifoDepth
    /\ overrun \in BOOLEAN
    /\ time \in 0..(TimerModulus - 1)
    /\ sent \in 0..MaxBytes
    /\ tx \in Seq(1..MaxWritten) /\ Len(tx) <= TxDepth
    /\ wire \in 0..MaxWritten /\ written \in 0..MaxWritten
    /\ pc \in {"returned", "getchar", "errors", "judge", "putchar"}
    /\ data_length \in 0..(MaxLength + MaxWritten)
    /\ start_timer \in 0..(TimerModulus - 1)
    /\ status \in {"OK", "NO_DATA", "RECV_ERROR", "TIMEOUT"}
    /\ c \in Received
    /\ age \in Nat
    /\ delivered \in 0..MaxBytes
    /\ skipped \in BOOLEAN
    /\ reported \in BOOLEAN

Init ==
    /\ fifo = <<>> /\ overrun = FALSE
    /\ time \in 0..(TimerModulus - 1)
    /\ sent = 0
    /\ tx = <<>> /\ wire = 0 /\ written = 0
    /\ pc = "returned" /\ data_length = 0 /\ start_timer = 0 /\ status = "OK"
    /\ c = [byte |-> 0, bad |-> FALSE]
    /\ age = 0 /\ delivered = 0 /\ skipped = FALSE /\ reported = FALSE

----------------------------------------------------------------------------
(* The line (external) *)

\* A byte arrives, damaged or not; a full FIFO loses it and flags the overrun.
Arrive(bad) ==
    /\ sent < MaxBytes
    /\ sent' = sent + 1
    /\ IF Len(fifo) < FifoDepth
       THEN fifo' = Append(fifo, [byte |-> sent', bad |-> bad]) /\ UNCHANGED overrun
       ELSE overrun' = TRUE /\ UNCHANGED fifo
    /\ UNCHANGED <<time, pc, data_length, start_timer, status, c, age, delivered,
                   skipped, reported, sending>>

\* The oldest byte goes out.
Transmit ==
    /\ tx # <<>>
    /\ tx' = Tail(tx)
    /\ wire' = Head(tx)
    /\ UNCHANGED <<hardware, time, sent, pc, data_length, start_timer, status, c, age,
                   delivered, skipped, reported, written>>

----------------------------------------------------------------------------
(* uart_read *)

\* A statement takes d ticks; a step that reads start_timer restarts the age.
Takes(d) == time' = (time + d) % TimerModulus
Elapse == \E d \in 0..MaxStep : Takes(d) /\ age' = age + d
ReadStartTimer ==
    /\ start_timer' = time
    /\ \E d \in 0..MaxStep : Takes(d) /\ age' = d

\* A loop that looks at its counter only behind a byte.
Call_unchecked(n) ==
    /\ pc = "returned"
    /\ ReadStartTimer
    /\ data_length' = n
    /\ pc' = "getchar"
    /\ UNCHANGED <<hardware, sent, status, c, delivered, skipped, reported, sending>>

\* The caller asks for n bytes; the timer is read before the loop.
Call(n) ==
    /\ pc = "returned"
    /\ ReadStartTimer
    /\ data_length' = n
    /\ IF n = 0 THEN status' = "OK" /\ UNCHANGED pc
                ELSE pc' = "getchar" /\ UNCHANGED status
    /\ UNCHANGED <<hardware, sent, c, delivered, skipped, reported, sending>>

\* uart_getchar takes a byte from DR ...
uart_getchar ==
    /\ pc = "getchar"
    /\ Elapse
    /\ IF fifo = <<>>
       THEN pc' = "judge" /\ status' = "NO_DATA" /\ UNCHANGED <<fifo, c>>
       ELSE /\ pc' = "errors"
            /\ fifo' = Tail(fifo)
            /\ c' = Head(fifo)
            /\ UNCHANGED status
    /\ UNCHANGED <<overrun, sent, data_length, start_timer, delivered, skipped, reported, sending>>

\* An error mask without the overrun flag.
ReadErrors_but_overrun ==
    /\ pc = "errors"
    /\ pc' = "judge"
    /\ Elapse
    /\ status' = IF c.bad THEN "RECV_ERROR" ELSE "OK"
    /\ overrun' = FALSE
    /\ UNCHANGED <<fifo, sent, data_length, start_timer, c, delivered, skipped, reported, sending>>

\* ... and then reads RSRECR, clearing what it finds: the byte in hand pays
\* for an error, its own or an overrun behind it.
ReadErrors ==
    /\ pc = "errors"
    /\ pc' = "judge"
    /\ Elapse
    /\ status' = IF c.bad \/ overrun THEN "RECV_ERROR" ELSE "OK"
    /\ overrun' = FALSE
    /\ UNCHANGED <<fifo, sent, data_length, start_timer, c, delivered, skipped, reported, sending>>

\* A good byte is stored and restarts the clock of the timeout.
Store ==
    /\ pc = "judge" /\ status = "OK"
    /\ ReadStartTimer
    /\ data_length' = data_length - 1
    /\ pc' = IF data_length' = 0 THEN "returned" ELSE "getchar"
    /\ skipped' = (skipped \/ c.byte # delivered + 1)
    /\ delivered' = c.byte
    /\ UNCHANGED <<hardware, sent, status, c, reported, sending>>

ReturnError ==
    /\ pc = "judge" /\ status = "RECV_ERROR"
    /\ pc' = "returned"
    /\ reported' = TRUE
    /\ UNCHANGED <<hardware, time, sent, data_length, start_timer, status, c, age,
                   delivered, skipped, sending>>

\* The difference in signed arithmetic, and one tick too many.
Waited_signed == time - start_timer
Waited_and_one == ((time - start_timer) % TimerModulus) + 1

\* end_timer - start_timer in unsigned arithmetic.
Waited == (time - start_timer) % TimerModulus

ReturnTimeout ==
    /\ pc = "judge" /\ status = "NO_DATA"
    /\ Waited > Timeout
    /\ pc' = "returned"
    /\ status' = "TIMEOUT"
    /\ UNCHANGED <<hardware, time, sent, data_length, start_timer, c, age,
                   delivered, skipped, reported, sending>>

\* A loop that reads start_timer again in every round.
PollAgain_restarting ==
    /\ pc = "judge" /\ status = "NO_DATA"
    /\ Waited <= Timeout
    /\ pc' = "getchar"
    /\ ReadStartTimer
    /\ UNCHANGED <<hardware, sent, data_length, status, c, delivered, skipped, reported, sending>>

\* At least a tick passes in a round of the loop.
PollAgain ==
    /\ pc = "judge" /\ status = "NO_DATA"
    /\ Waited <= Timeout
    /\ pc' = "getchar"
    /\ \E d \in 1..MaxStep : Takes(d) /\ age' = age + d
    /\ UNCHANGED <<hardware, sent, data_length, start_timer, status, c,
                   delivered, skipped, reported, sending>>

uart_read == uart_getchar \/ ReadErrors \/ Store \/ ReturnError \/ ReturnTimeout \/ PollAgain

----------------------------------------------------------------------------
(* uart_write *)

\* A caller hands over n bytes; no status of uart_putchar reaches it.
CallWrite(n) ==
    /\ pc = "returned" /\ written + n <= MaxWritten
    /\ data_length' = n
    /\ status' = "OK"
    /\ pc' = IF n = 0 THEN "returned" ELSE "putchar"
    /\ UNCHANGED <<hardware, time, sent, start_timer, c, age, delivered, skipped,
                   reported, sending>>

\* One that does not wait: a byte written to a full FIFO is lost.
uart_putchar_at_once ==
    /\ pc = "putchar"
    /\ tx' = IF Len(tx) < TxDepth THEN Append(tx, written + 1) ELSE tx
    /\ written' = written + 1
    /\ data_length' = data_length - 1
    /\ pc' = IF data_length' = 0 THEN "returned" ELSE "putchar"
    /\ UNCHANGED <<hardware, time, sent, start_timer, status, c, age, delivered,
                   skipped, reported, wire>>

\* uart_putchar waits for room and writes DR.
uart_putchar ==
    /\ pc = "putchar" /\ Len(tx) < TxDepth
    /\ tx' = Append(tx, written + 1)
    /\ written' = written + 1
    /\ data_length' = data_length - 1
    /\ pc' = IF data_length' = 0 THEN "returned" ELSE "putchar"
    /\ UNCHANGED <<hardware, time, sent, start_timer, status, c, age, delivered,
                   skipped, reported, wire>>

Next ==
    \/ \E bad \in BOOLEAN : Arrive(bad)
    \/ Transmit
    \/ \E n \in 0..MaxLength : Call(n)
    \/ uart_read
    \/ \E n \in 0..MaxWritten : CallWrite(n)
    \/ uart_putchar

\* The processor executes the driver's statements and the transmitter, which
\* no flow control holds up, sends what it has; the host owes no byte.
Spec ==
    /\ Init /\ [][Next]_vars
    /\ WF_vars(uart_read) /\ WF_vars(uart_putchar) /\ WF_vars(Transmit)

----------------------------------------------------------------------------
(* Properties *)

(***************************************************************************)
(* uart_read gives up only when more than Timeout ticks really passed      *)
(* since the last byte it stored, though it sees a timer that wraps.       *)
(***************************************************************************)
TimeoutIsGenuine ==
    [][pc = "judge" /\ pc' = "returned" /\ status' = "TIMEOUT" => age > Timeout]_vars

(***************************************************************************)
(* and it never waits much longer than that for the next byte.             *)
(***************************************************************************)
TimeoutIsPrompt == pc \notin {"returned", "putchar"} => age <= Timeout + 4 * MaxStep

(***************************************************************************)
(* Until a receive error has been reported, callers get every byte the     *)
(* host sent, in order: no byte is delivered behind a lost or damaged one. *)
(***************************************************************************)
NoSilentLoss == skipped => reported

(***************************************************************************)
(* What is handed to uart_write goes out whole and in order: a byte that   *)
(* was written is in the FIFO or on the wire, whatever is read in between. *)
(***************************************************************************)
WrittenGoesOut == tx = [i \in 1..(written - wire) |-> wire + i]

(***************************************************************************)
(* A read or a write always comes to an end, whatever the host does: they  *)
(* are the only things that keep the main loop from running.               *)
(***************************************************************************)
CallsEnd == pc # "returned" ~> pc = "returned"

============================================================================
