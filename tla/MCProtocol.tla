----------------------------- MODULE MCProtocol -----------------------------
(* A small instance of Protocol for TLC: sizes take two letters, so their  *)
(* byte order matters, and payload letters can be mistaken for sizes.      *)
EXTENDS Protocol

Message(type, payload) == [message_type |-> type, payload |-> payload]

\* An empty payload, one that reads like a message of its own and just fits
\* the buffer, one that is accepted and does not fit, and one too big for
\* receive_message.
MCMessages ==
    {Message(2, <<>>), Message(0, <<1, 0, 2>>),
     Message(1, <<1, 0, 2, 0>>), Message(1, <<1, 0, 2, 0, 1, 0>>)}
=============================================================================
