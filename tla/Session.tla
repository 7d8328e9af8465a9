------------------------------ MODULE Session ------------------------------
(***************************************************************************)
(* What the runtime promises a host, in terms of its replies alone: which  *)
(* struct, weights and input it has acknowledged, which inference it has   *)
(* acknowledged, and what an OUTPUT reply may then carry.                  *)
(*                                                                         *)
(* An acknowledged request moves the session to the request's stage and    *)
(* takes effect; a refused one leaves the stage and what was acknowledged. *)
(* A result handed out is the one computed by the acknowledged weights     *)
(* from the acknowledged input, cut to the number of outputs of the        *)
(* acknowledged struct.                                                    *)
(*                                                                         *)
(* A refusal may spoil a stage: what the host was told stands there does   *)
(* not.  Then nothing is promised of the results of that stage and of      *)
(* those above, until a request of that stage or a lower one is            *)
(* acknowledged.                                                           *)
(***************************************************************************)
EXTENDS Integers

CONSTANTS
    NULL, Statistics,
    Structs,    \* the structs a host may have acknowledged
    Weights, Inputs,
    SensorData, \* the inputs the board may read by itself, {} without a sensor
    Outputs     \* the results there can be

VARIABLES
    stage,    \* 0 nothing .. 1 struct .. 2 weights .. 3 input .. 4 result
    struct, weights, data,  \* last acknowledged
    result,   \* the last acknowledged inference: [weights, data]
    spoiled,  \* the lowest spoiled stage, or 5
    reply     \* the reply being sent, or NULL

vars == <<stage, struct, weights, data, result, spoiled, reply>>
acknowledged == <<stage, struct, weights, data, result>>

Ok(payload) == [message_type |-> "OK", payload |-> payload]
Error == [message_type |-> "ERROR", payload |-> NULL]

Init ==
    /\ stage = 0
    /\ struct = NULL /\ weights = NULL /\ data = NULL
    /\ result = [weights |-> NULL, data |-> NULL]
    /\ spoiled = 5
    /\ reply = NULL

Answer(message) == reply = NULL /\ reply' = message

Reach(s) ==
    /\ stage' = s
    /\ spoiled' = IF s <= spoiled THEN 5 ELSE spoiled

TakeStruct(s) ==
    /\ Reach(1) /\ struct' = s
    /\ UNCHANGED <<weights, data, result>>

TakeWeights(w) ==
    /\ stage >= 1
    /\ Reach(2) /\ weights' = w
    /\ UNCHANGED <<struct, data, result>>

TakeInput(x) ==
    /\ stage >= 2
    /\ Reach(3) /\ data' = x
    /\ UNCHANGED <<struct, weights, result>>

Infer ==
    /\ stage >= 3
    /\ Reach(4) /\ result' = [weights |-> weights, data |-> data]
    /\ UNCHANGED <<struct, weights, data>>

Acknowledge ==
    /\ Answer(Ok(NULL))
    /\ \/ \E s \in Structs : TakeStruct(s)
       \/ \E w \in Weights : TakeWeights(w)
       \/ \E x \in Inputs : TakeInput(x)
       \/ Infer

GiveOutput ==
    /\ stage = 4
    /\ \/ Answer(Ok([weights |-> result.weights, data |-> result.data,
                     views |-> struct.num_output]))
       \/ spoiled <= stage /\ \E output \in Outputs : Answer(Ok(output))
    /\ UNCHANGED <<acknowledged, spoiled>>

GiveStatistics ==
    /\ stage >= 2
    /\ Answer(Ok(Statistics))
    /\ UNCHANGED <<acknowledged, spoiled>>

MaySpoil == spoiled' \in 1..spoiled

Refuse == Answer(Error) /\ MaySpoil /\ UNCHANGED acknowledged

Deliver == reply # NULL /\ reply' = NULL /\ UNCHANGED <<acknowledged, spoiled>>

\* With a sensor the board reads inputs and runs inferences by itself, and
\* drops the session when one of them fails.
Board ==
    /\ SensorData # {}
    /\ reply = NULL /\ UNCHANGED reply
    /\ \/ \E x \in SensorData : TakeInput(x)
       \/ Infer
       \/ stage' = 0 /\ MaySpoil /\ UNCHANGED <<struct, weights, data, result>>

Next == Acknowledge \/ GiveOutput \/ GiveStatistics \/ Refuse \/ Deliver \/ Board

Spec == Init /\ [][Next]_vars

============================================================================
