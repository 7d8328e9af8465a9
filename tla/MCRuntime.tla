----------------------------- MODULE MCRuntime -----------------------------
(***************************************************************************)
(* Small instances of Runtime for TLC, with and without a sensor, and the  *)
(* claims of the documentation that the code does not keep.                *)
(***************************************************************************)
EXTENDS Runtime, TLC

CONSTANTS w1, w2, x1, x2

MCNumArgs == w1 :> 1 @@ w2 :> 2
MCNumResults == w1 :> 1 @@ w2 :> 2
MCInputLen == x1 :> 2 @@ x2 :> 2

OneInput == [num_input |-> 1, num_input_dim |-> <<2, 0>>, input_bytes |-> <<2, 0>>,
             num_output |-> 1, output_bytes |-> 4, hal_element_type |-> "f32"]
TwoInputs == [OneInput EXCEPT !.num_input = 2, !.input_bytes = <<1, 1>>, !.num_output = 2]
\* A model with one argument fits the list a push of its second input left.
OneOutput == [TwoInputs EXCEPT !.num_output = 1]
OtherSize == [OneInput EXCEPT !.input_bytes = <<3, 0>>]
NoOutputs == [OneInput EXCEPT !.num_output = 0]
UnknownType == [TwoInputs EXCEPT !.hal_element_type = "f8"]

ValidStructs == {OneInput, TwoInputs, OneOutput}
AllStructs == ValidStructs \cup {NoOutputs, UnknownType}
SensorStructs == AllStructs \cup {OtherSize}

----------------------------------------------------------------------------
(***************************************************************************)
(* iree_runtime.c:61: main reads an input "if model is loaded".            *)
(***************************************************************************)
ReadsOnlyIfModelLoaded ==
    [][pc = "read_input" /\ pc' # "wait_for_message" => gp_context # NULL]_vars

(***************************************************************************)
(* iree_runtime.c:290: OUTPUT "retrieves model inference output and sends  *)
(* it back": all the outputs of the struct the host was told is loaded.    *)
(***************************************************************************)
OutputIsComplete ==
    [][Handling("OUTPUT") /\ msg'.message_type = "OK"
        => msg'.payload.views = told.struct.num_output]_vars

============================================================================
