-------------------------------- MODULE I2C ---------------------------------
(***************************************************************************)
(* Register transfers of the I2C driver (i2c.c) and the controller it      *)
(* drives.  The driver writes a transfer as format entries into FDATA and, *)
(* for a read, empties the receive FIFO until STATUS says it is empty.  It *)
(* never waits for the controller, nor asks whether the format FIFO has    *)
(* room for an entry.  The controller carries out the entries on the bus.  *)
(*                                                                         *)
(* Contents of registers are abstracted to where they come from: a byte is *)
(* the register it was read from and the transfer that read it, and the    *)
(* contents of a register the transfer that wrote it last.  Reads are of 1 *)
(* to MaxCount registers: a count of zero, or one beyond the byte it is    *)
(* sent in, is left out.                                                   *)
(***************************************************************************)
EXTENDS Integers, Sequences

CONSTANTS
    Registers,     \* register addresses of the target: an interval from 0
    MaxCount,      \* bound: most registers read at once
    MaxTransfers,  \* bound: how many transfers are made
    FmtDepth,      \* depth of the format FIFO of the controller
    RxDepth        \* depth of its receive FIFO

ASSUME I2CAssumption ==
    /\ Registers \subseteq Nat
    /\ MaxCount \in Nat \ {0}
    /\ MaxTransfers \in Nat
    /\ FmtDepth \in Nat \ {0}
    /\ RxDepth \in Nat \ {0}

VARIABLES
    \* the driver
    pc,        \* "idle", "format" or "drain"
    request,   \* [write, address, count] of the transfer being made
    transfer,  \* its number
    entries,   \* format entries still to be written to FDATA
    data,      \* bytes stored for the caller
    \* the controller and the target
    fmt,       \* format FIFO
    rx,        \* receive FIFO
    addressed, \* the target has got its register pointer since START
    pointer,
    fetching,  \* bytes the controller still has to read, and for which transfer
    memory,    \* register -> transfer that wrote it last
    \* history
    written,   \* register -> write last returned to a caller
    whole,     \* the first transfer behind those that lost an entry
    keptUp     \* the controller was done at every access of this transfer, and
               \* nothing was left over when it began

driver == <<pc, request, transfer, entries, data, written, whole, keptUp>>
controller == <<fmt, rx, addressed, pointer, fetching, memory>>
vars == <<pc, request, transfer, entries, data, fmt, rx, addressed, pointer,
          fetching, memory, written, whole, keptUp>>

\* The entries i2c_write_byte makes, reduced to the formats the driver uses;
\* each remembers the transfer it belongs to.
Entry(format, byte) == [format |-> format, byte |-> byte, transfer |-> transfer']
Requests == [write : BOOLEAN, address : Registers, count : 1..MaxCount]
Bytes == [register : Nat, transfer : 1..MaxTransfers]
Entries == [format : {"START", "TX", "RX_STOP"}, byte : Nat, transfer : 1..MaxTransfers]

I2CTypeOK ==
    /\ pc \in {"idle", "format", "drain"}
    /\ request \in Requests
    /\ transfer \in 0..MaxTransfers
    /\ entries \in Seq(Entries)
    /\ data \in Seq(Bytes) /\ Len(data) <= MaxCount
    /\ fmt \in Seq(Entries) /\ Len(fmt) <= FmtDepth
    /\ rx \in Seq(Bytes) /\ Len(rx) <= RxDepth
    /\ addressed \in BOOLEAN
    /\ pointer \in Nat
    /\ fetching \in [left : 0..MaxCount, transfer : 0..MaxTransfers]
    /\ memory \in [Registers -> 0..MaxTransfers]
    /\ written \in [Registers -> 0..MaxTransfers]
    /\ whole \in 0..(MaxTransfers + 1)
    /\ keptUp \in BOOLEAN

Init ==
    /\ pc = "idle" /\ transfer = 0 /\ entries = <<>> /\ data = <<>>
    /\ \E a \in Registers : request = [write |-> FALSE, address |-> a, count |-> 1]
    /\ fmt = <<>> /\ rx = <<>>
    /\ addressed = FALSE /\ pointer = 0
    /\ fetching = [left |-> 0, transfer |-> 0]
    /\ memory = [r \in Registers |-> 0]
    /\ written = [r \in Registers |-> 0]
    /\ whole = 0
    /\ keptUp = TRUE

----------------------------------------------------------------------------
(* The controller (external) *)

ControllerIdle == fmt = <<>> /\ fetching.left = 0

\* Take the next entry: START begins a transfer, the first byte after it sets
\* the target's register pointer, further bytes write registers.
Execute ==
    /\ fetching.left = 0 /\ fmt # <<>>
    /\ fmt' = Tail(fmt)
    /\ LET e == Head(fmt)
       IN  \/ /\ e.format = "START"
              /\ addressed' = FALSE
              /\ UNCHANGED <<pointer, fetching, memory>>
           \/ /\ e.format = "TX" /\ ~addressed
              /\ addressed' = TRUE /\ pointer' = e.byte
              /\ UNCHANGED <<fetching, memory>>
           \/ /\ e.format = "TX" /\ addressed
              /\ memory' = [r \in Registers |-> IF r = pointer THEN e.transfer ELSE memory[r]]
              /\ pointer' = pointer + 1
              /\ UNCHANGED <<addressed, fetching>>
           \/ /\ e.format = "RX_STOP"
              /\ fetching' = [left |-> e.byte, transfer |-> e.transfer]
              /\ UNCHANGED <<addressed, pointer, memory>>
    /\ UNCHANGED <<driver, rx>>

\* A byte read from the target; a full receive FIFO loses it.
Fetch ==
    /\ fetching.left > 0
    /\ fetching' = [fetching EXCEPT !.left = @ - 1]
    /\ rx' = IF Len(rx) = RxDepth THEN rx
             ELSE Append(rx, [register |-> pointer, transfer |-> fetching.transfer])
    /\ pointer' = pointer + 1
    /\ UNCHANGED <<driver, fmt, addressed, memory>>

Controller == Execute \/ Fetch

----------------------------------------------------------------------------
(* The driver *)

\* The driver's next access to a register of the controller.
Access == keptUp' = (keptUp /\ ControllerIdle)

Begin == transfer' = transfer + 1 /\ keptUp' = (ControllerIdle /\ rx = <<>>)

\* The entries of a read; one that counts from zero.
ReadEntries_short(address, count) ==
    <<Entry("START", 0), Entry("TX", address), Entry("RX_STOP", count - 1)>>
ReadEntries(address, count) ==
    <<Entry("START", 0), Entry("TX", address), Entry("RX_STOP", count)>>

\* The entries of a write; one with address and data swapped.  A write ends
\* with a read of one byte that nobody takes.
WriteEntries_swapped(address) ==
    <<Entry("START", 0), Entry("TX", 0), Entry("TX", address), Entry("RX_STOP", 1)>>
WriteEntries(address) ==
    <<Entry("START", 0), Entry("TX", address), Entry("TX", 0), Entry("RX_STOP", 1)>>

i2c_read_target_registers(address, count) ==
    /\ pc = "idle" /\ transfer < MaxTransfers
    /\ Begin
    /\ request' = [write |-> FALSE, address |-> address, count |-> count]
    /\ entries' = ReadEntries(address, count)
    /\ data' = <<>>
    /\ pc' = "format"
    /\ UNCHANGED <<controller, written, whole>>

i2c_write_target_register(address) ==
    /\ pc = "idle" /\ transfer < MaxTransfers
    /\ Begin
    /\ request' = [write |-> TRUE, address |-> address, count |-> 1]
    /\ entries' = WriteEntries(address)
    /\ data' = <<>>
    /\ pc' = "format"
    /\ UNCHANGED <<controller, written, whole>>

\* An entry that finds the format FIFO full is lost, and with it the meaning of
\* its transfer.
Put ==
    IF Len(fmt) < FmtDepth
    THEN fmt' = Append(fmt, Head(entries)) /\ UNCHANGED whole
    ELSE UNCHANGED fmt /\ whole' = transfer + 1

\* A write returns behind its last entry, a read goes on to drain.
i2c_write_byte ==
    /\ pc = "format" /\ Access
    /\ Put
    /\ entries' = Tail(entries)
    /\ pc' = IF entries' # <<>> THEN "format" ELSE IF request.write THEN "idle" ELSE "drain"
    /\ written' = IF pc' = "idle" THEN [written EXCEPT ![request.address] = transfer]
                  ELSE written
    /\ UNCHANGED <<request, transfer, data, rx, addressed, pointer, fetching, memory>>

\* A loop that empties the FIFO without counting.
i2c_read_byte_uncounted ==
    /\ pc = "drain" /\ Access
    /\ rx # <<>>
    /\ data' = Append(data, Head(rx))
    /\ rx' = Tail(rx)
    /\ UNCHANGED <<pc, request, transfer, entries, fmt, addressed, pointer, fetching,
                   memory, written, whole>>

\* A loop that stores from the end of the buffer.
i2c_read_byte_backwards ==
    /\ pc = "drain" /\ Access
    /\ rx # <<>> /\ Len(data) < request.count
    /\ data' = <<Head(rx)>> \o data
    /\ rx' = Tail(rx)
    /\ UNCHANGED <<pc, request, transfer, entries, fmt, addressed, pointer, fetching,
                   memory, written, whole>>

\* The loop looks at STATUS, takes a byte, and leaves on an empty FIFO; the
\* controller can only add bytes between the look and the taking.
i2c_read_byte ==
    /\ pc = "drain" /\ Access
    /\ rx # <<>> /\ Len(data) < request.count
    /\ data' = Append(data, Head(rx))
    /\ rx' = Tail(rx)
    /\ UNCHANGED <<pc, request, transfer, entries, fmt, addressed, pointer, fetching,
                   memory, written, whole>>

ReturnData ==
    /\ pc = "drain" /\ Access
    /\ rx = <<>> \/ Len(data) >= request.count
    /\ pc' = "idle"
    /\ UNCHANGED <<request, transfer, entries, data, controller, written, whole>>

Driver == i2c_write_byte \/ i2c_read_byte \/ ReturnData

Next ==
    \/ Controller
    \/ \E a \in Registers, n \in 1..MaxCount : i2c_read_target_registers(a, n)
    \/ \E a \in Registers : i2c_write_target_register(a)
    \/ Driver

Spec == Init /\ [][Next]_vars

----------------------------------------------------------------------------
(* Properties *)

(***************************************************************************)
(* A read returns the registers it was asked for, all of them, in order,   *)
(* read by this transfer and not left over from an earlier one.            *)
(***************************************************************************)
ReadsRegisters ==
    pc = "idle" /\ transfer > 0 /\ ~request.write =>
        data = [i \in 1..request.count |->
                   [register |-> request.address + i - 1, transfer |-> transfer]]

(***************************************************************************)
(* It does so whenever the controller is done at each access of the driver *)
(* and no byte was left in the receive FIFO when it began, whatever        *)
(* transfers, lagging ones and writes too, went before.                    *)
(***************************************************************************)
ReadsIfKeptUp == keptUp => ReadsRegisters

(***************************************************************************)
(* Once the controller has caught up, a register whose last write returned *)
(* in one of the transfers that found room for all their entries, this one *)
(* and those behind it, holds what was written: no read, and no write to   *)
(* another register, gets in the way, however far the controller lags, and *)
(* nothing of a transfer that lost entries, on a bus it left half-way,     *)
(* outlives the START of the next.  A transfer that did lose entries is    *)
(* promised nothing: the driver does not look whether the FIFO has room.   *)
(***************************************************************************)
WritesLand ==
    pc = "idle" /\ ControllerIdle =>
        \A r \in Registers : written[r] >= whole => memory[r] = written[r]

============================================================================
