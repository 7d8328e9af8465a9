--------------------------- MODULE MessageChannel ---------------------------
(***************************************************************************)
(* What the protocol promises an application: a channel that delivers the  *)
(* host's messages whole, once each, in the order they were sent.          *)
(***************************************************************************)
EXTENDS Naturals, Sequences

CONSTANT Messages

VARIABLES sent, delivered

Init == sent = <<>> /\ delivered = <<>>

Send == \E m \in Messages : sent' = Append(sent, m) /\ UNCHANGED delivered

Deliver ==
    /\ Len(delivered) < Len(sent)
    /\ delivered' = Append(delivered, sent[Len(delivered) + 1])
    /\ UNCHANGED sent

Next == Send \/ Deliver

Spec == Init /\ [][Next]_<<sent, delivered>>

============================================================================
