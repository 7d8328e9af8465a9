------------------------------ MODULE Protocol ------------------------------
(***************************************************************************)
(* The message protocol (protocol.c) over the bytes of the serial line.    *)
(*                                                                         *)
(* A message on the wire is its size (little-endian, counting the type),   *)
(* its type, its payload; nothing marks where one begins.  receive_message *)
(* reads the three fields with three calls of uart_read, and after any     *)
(* error the main loop calls it again for whatever byte comes next.  Only  *)
(* the silence that makes uart_read time out brings receiver and host back *)
(* together.                                                               *)
(*                                                                         *)
(* uart_read is abstract here (module Uart has its loop): it takes the     *)
(* letters in line one by one, fails on one that carries an error flag,    *)
(* and times out when the host stays silent with nothing left to read.     *)
(* Handling a message takes no time: a busy device only leaves bytes in    *)
(* line.  One letter of the wire stands for a byte, and the fields are     *)
(* SIZE_WIDTH and TYPE_WIDTH letters wide.                                 *)
(***************************************************************************)
EXTENDS Integers, SequencesExt

CONSTANTS
    BASE,                    \* letters are 0..BASE-1: 256 in the build
    SIZE_WIDTH, TYPE_WIDTH,  \* sizeof message_size_t and message_type_t: 4 and 2
    MAX_MESSAGE_SIZE_BYTES,
    HostMessages,            \* the messages the host sends
    MaxMessages,             \* bound: how many it sends
    FifoDepth                \* letters the receive FIFO holds

Letters == 0..(BASE - 1)
Damaged == BASE  \* a letter that comes with an error flag

\* What a letter of an unsigned integer counts for, by its address.
PlaceValue[i \in Nat] == IF i = 0 THEN 1 ELSE BASE * PlaceValue[i - 1]

SizeModulus == PlaceValue[SIZE_WIDTH]
TypeModulus == PlaceValue[TYPE_WIDTH]

\* The message begins two bytes into a buffer two bytes longer than the limit,
\* so the payload has what the header leaves of the limit.
PayloadRoom == MAX_MESSAGE_SIZE_BYTES - (SIZE_WIDTH + TYPE_WIDTH)

ASSUME ProtocolAssumption ==
    /\ BASE \in Nat \ {0, 1}
    /\ SIZE_WIDTH \in Nat \ {0} /\ TYPE_WIDTH \in Nat \ {0}
    /\ MAX_MESSAGE_SIZE_BYTES \in (SIZE_WIDTH + TYPE_WIDTH)..(SizeModulus - 1)
    /\ HostMessages \subseteq [message_type : 0..(TypeModulus - 1), payload : Seq(Letters)]
    /\ MaxMessages \in Nat
    /\ FifoDepth \in Nat \ {0}

VARIABLES
    line,       \* letters in the receive FIFO
    rest,       \* letters of the current message the host has yet to send
    sent,       \* history: messages the host has started to send
    field,      \* the field receive_message reads: "size", "type", "payload"
    data,       \* letters of it read so far
    msg_size, msg_type,  \* of the message being received
    delivered,  \* history: messages handed to handle_message
    clean,      \* history: the current message met an aligned receiver and
                \* was not disturbed
    disturbed   \* history: some message was damaged, paused in, or longer
                \* than the message buffer

receiver == <<field, data, msg_size, msg_type, delivered>>
vars == <<line, rest, sent, field, data, msg_size, msg_type, delivered, clean,
          disturbed>>

----------------------------------------------------------------------------
(* The wire format *)

\* An unsigned integer as the bytes of its little-endian representation.
Encoded(n, width) == [i \in 1..width |-> (n \div PlaceValue[i - 1]) % BASE]

\* The integer that has this representation in memory; on a machine that takes
\* the bytes the other way round.
Decoded_big_endian(letters) ==
    CHOOSE n \in 0..(PlaceValue[Len(letters)] - 1) : Encoded(n, Len(letters)) = Reverse(letters)
Decoded(letters) ==
    CHOOSE n \in 0..(PlaceValue[Len(letters)] - 1) : Encoded(n, Len(letters)) = letters

\* A payload length that counts the type.
PayloadLength_and_type(size) == size

\* MESSAGE_SIZE_PAYLOAD in the unsigned arithmetic of size_t.
PayloadLength(size) == (size - TYPE_WIDTH) % SizeModulus

\* What send_message writes, and what a host sends.
Wire(m) == Encoded(TYPE_WIDTH + Len(m.payload), SIZE_WIDTH)
           \o Encoded(m.message_type, TYPE_WIDTH) \o m.payload

\* The message buffer holds the message.  The limit of receive_message does not
\* count the size field: it accepts messages up to SIZE_WIDTH letters longer,
\* whose last letters land behind the buffer.  What they do there is not
\* modelled; such a message counts as a disturbance.
WellSized(m) == Len(m.payload) <= PayloadRoom

ProtocolTypeOK ==
    /\ line \in Seq(Letters \union {Damaged}) /\ Len(line) <= FifoDepth
    /\ rest \in Seq(Letters)
    /\ sent \in Seq(HostMessages)
    /\ field \in {"size", "type", "payload"}
    /\ data \in Seq(Letters)
    /\ msg_size \in 0..MAX_MESSAGE_SIZE_BYTES
    /\ msg_type \in 0..(TypeModulus - 1)
    /\ delivered \in Seq([message_type : Nat, payload : Seq(Letters)])
    /\ clean \in BOOLEAN /\ disturbed \in BOOLEAN

Init ==
    /\ line = <<>> /\ rest = <<>> /\ sent = <<>>
    /\ field = "size" /\ data = <<>>
    /\ msg_size = 0 /\ msg_type = 0
    /\ delivered = <<>>
    /\ clean = TRUE /\ disturbed = FALSE

----------------------------------------------------------------------------
(* The host and the line (external) *)

\* The receiver is about to read a size and has read nothing of it.
AtBoundary == field = "size" /\ data = <<>>

\* A message starts clean behind a clean one, or when the receiver waits for
\* it with nothing else to read.
HostStarts(m) ==
    /\ rest = <<>>
    /\ Len(sent) < MaxMessages
    /\ sent' = Append(sent, m)
    /\ rest' = Wire(m)
    /\ clean' = (WellSized(m) /\ (clean \/ (AtBoundary /\ line = <<>>)))
    /\ disturbed' = (disturbed \/ ~WellSized(m))
    /\ UNCHANGED <<line, receiver>>

HostSends ==
    /\ rest # <<>> /\ Len(line) < FifoDepth
    /\ rest' = Tail(rest)
    /\ line' = Append(line, Head(rest))
    /\ UNCHANGED <<sent, receiver, clean, disturbed>>

\* A letter arrives with a parity, framing or break error.
Damage ==
    /\ rest # <<>> /\ Len(line) < FifoDepth
    /\ rest' = Tail(rest)
    /\ line' = Append(line, Damaged)
    /\ clean' = FALSE /\ disturbed' = TRUE
    /\ UNCHANGED <<sent, receiver>>

\* A letter finds the receive FIFO full; the one read next gets the flag.
Overrun ==
    /\ rest # <<>> /\ Len(line) = FifoDepth
    /\ rest' = Tail(rest)
    /\ line' = [line EXCEPT ![1] = Damaged]
    /\ clean' = FALSE /\ disturbed' = TRUE
    /\ UNCHANGED <<sent, receiver>>

----------------------------------------------------------------------------
(* receive_message *)

\* receive_message returned, and the main loop calls it again.
Again == field' = "size" /\ data' = <<>>

Deliver(type, payload) ==
    /\ Again
    /\ delivered' = Append(delivered, [message_type |-> type, payload |-> payload])

\* A limit on the payload where the one on the message is meant, and one on the
\* whole message that is off by one.
ReadSize_of_payload(letters) ==
    /\ field = "size"
    /\ IF Len(letters) < SIZE_WIDTH
       THEN data' = letters /\ UNCHANGED <<field, msg_size>>
       ELSE IF PayloadLength(Decoded(letters)) > MAX_MESSAGE_SIZE_BYTES
       THEN Again /\ UNCHANGED msg_size
       ELSE field' = "type" /\ data' = <<>> /\ msg_size' = Decoded(letters)
    /\ UNCHANGED <<msg_type, delivered>>
ReadSize_below_limit(letters) ==
    /\ field = "size"
    /\ IF Len(letters) < SIZE_WIDTH
       THEN data' = letters /\ UNCHANGED <<field, msg_size>>
       ELSE IF SIZE_WIDTH + Decoded(letters) >= MAX_MESSAGE_SIZE_BYTES
       THEN Again /\ UNCHANGED msg_size
       ELSE field' = "type" /\ data' = <<>> /\ msg_size' = Decoded(letters)
    /\ UNCHANGED <<msg_type, delivered>>

ReadSize(letters) ==
    /\ field = "size"
    /\ IF Len(letters) < SIZE_WIDTH
       THEN data' = letters /\ UNCHANGED <<field, msg_size>>
       ELSE IF Decoded(letters) > MAX_MESSAGE_SIZE_BYTES
       THEN Again /\ UNCHANGED msg_size  \* PROTOCOL_STATUS_MSG_TOO_BIG
       ELSE field' = "type" /\ data' = <<>> /\ msg_size' = Decoded(letters)
    /\ UNCHANGED <<msg_type, delivered>>

ReadType(letters) ==
    /\ field = "type"
    /\ IF Len(letters) < TYPE_WIDTH
       THEN data' = letters /\ UNCHANGED <<field, msg_type, delivered>>
       ELSE /\ msg_type' = Decoded(letters)
            /\ IF PayloadLength(msg_size) = 0
               THEN Deliver(msg_type', <<>>)
               ELSE field' = "payload" /\ data' = <<>> /\ UNCHANGED delivered
    /\ UNCHANGED msg_size

ReadPayload(letters) ==
    /\ field = "payload"
    /\ IF Len(letters) < PayloadLength(msg_size)
       THEN data' = letters /\ UNCHANGED <<field, delivered>>
       ELSE Deliver(msg_type, letters)
    /\ UNCHANGED <<msg_size, msg_type>>

Receive ==
    /\ line # <<>> /\ Head(line) # Damaged
    /\ line' = Tail(line)
    /\ LET letters == Append(data, Head(line))
       IN  ReadSize(letters) \/ ReadType(letters) \/ ReadPayload(letters)
    /\ UNCHANGED <<rest, sent, clean, disturbed>>

\* PROTOCOL_STATUS_CLIENT_DISCONNECTED: the flagged letter is gone.
ReceiveError ==
    /\ line # <<>> /\ Head(line) = Damaged
    /\ line' = Tail(line)
    /\ Again
    /\ UNCHANGED <<rest, sent, msg_size, msg_type, delivered, clean, disturbed>>

\* A receiver that goes on with its field after a timeout.
ReceiveTimeout_resuming ==
    /\ line = <<>>
    /\ clean' = (clean /\ rest = <<>>)
    /\ disturbed' = (disturbed \/ rest # <<>>)
    /\ UNCHANGED <<line, rest, sent, receiver>>

\* PROTOCOL_STATUS_TIMEOUT: nothing to read, and the host is between two
\* messages or pauses inside one.
ReceiveTimeout ==
    /\ line = <<>>
    /\ Again
    /\ clean' = (clean /\ rest = <<>>)
    /\ disturbed' = (disturbed \/ rest # <<>>)
    /\ UNCHANGED <<line, rest, sent, msg_size, msg_type, delivered>>

receive_message == Receive \/ ReceiveError \/ ReceiveTimeout

Next ==
    \/ \E m \in HostMessages : HostStarts(m)
    \/ HostSends \/ Damage \/ Overrun
    \/ receive_message

\* The main loop calls receive_message for ever; the host owes nothing.
Spec == Init /\ [][Next]_vars /\ WF_vars(receive_message)

----------------------------------------------------------------------------
(* Properties *)

(***************************************************************************)
(* Until the host pauses inside a message or sends one longer than the     *)
(* buffer, or the line damages or loses a byte, the three reads of         *)
(* receive_message put the bytes back together into exactly the host's     *)
(* messages: the types that index the table of callbacks are those the     *)
(* host sent.                                                              *)
(***************************************************************************)
Channel == INSTANCE MessageChannel WITH Messages <- HostMessages
IsChannel ==
    Channel!Init /\ [][~disturbed' => [Channel!Next]_<<sent, delivered>>]_vars

(***************************************************************************)
(* Whatever happened before, a message is delivered whole if it found the  *)
(* receiver waiting for a size with an empty line, or followed such a      *)
(* message, and was not disturbed itself: garbage that a pause has         *)
(* separated from it cannot corrupt it.                                    *)
(***************************************************************************)
CleanMessageArrives ==
    clean /\ rest = <<>> /\ line = <<>> /\ sent # <<>> =>
        AtBoundary /\ delivered # <<>> /\ Last(delivered) = Last(sent)

(***************************************************************************)
(* However the line and the host misbehave, the receiver comes back to the *)
(* point where a new message can start; it never waits for ever for the    *)
(* rest of a message that is not coming.                                   *)
(***************************************************************************)
AlwaysResynchronises == []<>AtBoundary

(***************************************************************************)
(* The payload that is being read against the room behind the header in    *)
(* the message buffer.  receive_message bounds the size from above only,   *)
(* by a limit that forgets the size field, and the length of the payload   *)
(* is the size minus that of the type, unsigned.  So the payload fits      *)
(* while the host sends messages the buffer holds and nothing disturbs     *)
(* them, which rests on the receiver never taking payload for a size; and  *)
(* whatever is taken for a size, a payload ends at most SIZE_WIDTH letters *)
(* behind the buffer, unless the size does not even count the type.        *)
(***************************************************************************)
PayloadFits ==
    field = "payload" =>
        /\ ~disturbed => PayloadLength(msg_size) <= PayloadRoom
        /\ msg_size >= TYPE_WIDTH => PayloadLength(msg_size) <= PayloadRoom + SIZE_WIDTH

============================================================================
