------------------------------ MODULE MCModel ------------------------------
(***************************************************************************)
(* Small instance of Model for TLC: two models that differ in the number   *)
(* of their arguments and results, two inputs of one size and one of       *)
(* another, and structs that are valid, that wrap the input size, and that *)
(* break each rule of load_model_struct.                                   *)
(***************************************************************************)
EXTENDS Model, TLC

CONSTANTS w1, w2, x1, x2, xLong

MCNumArgs == w1 :> 1 @@ w2 :> 2
MCNumResults == w1 :> 1 @@ w2 :> 2
MCInputLen == x1 :> 2 @@ x2 :> 2 @@ xLong :> 3

OneInput == [num_input |-> 1, num_input_dim |-> <<2, 0>>, input_bytes |-> <<2, 0>>,
             num_output |-> 1, output_bytes |-> 4, hal_element_type |-> "f32"]
\* 7 + 3 wraps to 2 modulo 8: the size check sees the length of x1.
TwoInputs == [OneInput EXCEPT !.num_input = 2, !.num_input_dim = <<2, 1>>,
                              !.input_bytes = <<7, 3>>, !.num_output = 2]

NoInputs == [OneInput EXCEPT !.num_input = 0]
TooManyInputs == [OneInput EXCEPT !.num_input = 3]
TooDeep == [OneInput EXCEPT !.num_input_dim = <<5, 0>>]
NoOutputs == [OneInput EXCEPT !.num_output = 0]
TooManyOutputs == [OneInput EXCEPT !.num_output = 3]
UnknownType == [OneInput EXCEPT !.hal_element_type = "f8"]

ValidStructs == {OneInput, TwoInputs}
AllStructs == ValidStructs \cup
    {NoInputs, TooManyInputs, TooDeep, NoOutputs, TooManyOutputs, UnknownType}

============================================================================
