------------------------------- MODULE Model -------------------------------
(***************************************************************************)
(* The model component (model.c): the life cycle of the ML model, from the *)
(* struct that describes its inputs and outputs, to its weights, to an     *)
(* input, to the result of an inference.                                   *)
(*                                                                         *)
(* An operation is an action with the C function's name.  Its last         *)
(* parameter is the status it returns, which the caller quantifies over.   *)
(* Pointers are never NULL: every caller passes the message buffer, a      *)
(* local or a checked allocation.                                          *)
(***************************************************************************)
EXTENDS IreeWrapper, Functions

CONSTANTS
    TypeLabels,          \* element type labels a host may send
    Structs,             \* MlModel structs a host may send
    InputLen,            \* InputLen[x]: size of payload x in bytes
    MAX_MODEL_INPUT_DIM, \* 4 in the build
    SIZE_MODULUS,        \* size_t wraps here: 2^32 in the build
    MAX_OUTPUT_SIZE      \* room for a result in the message buffer

MODEL_STATE_UNINITIALIZED == 0
MODEL_STATE_STRUCT_LOADED == 1
MODEL_STATE_WEIGHTS_LOADED == 2
MODEL_STATE_INPUT_LOADED == 3
MODEL_STATE_INFERENCE_DONE == 4

\* Labels the host may put in the struct and the element types they stand for.
IREE_HAL_ELEMENT_TYPES ==
    [i8  |-> "INT_8",   u8  |-> "UINT_8",  i16 |-> "INT_16",   u16 |-> "UINT_16",
     i32 |-> "INT_32",  u32 |-> "UINT_32", i64 |-> "INT_64",   u64 |-> "UINT_64",
     f16 |-> "FLOAT_16", f32 |-> "FLOAT_32", f64 |-> "FLOAT_64"]

HalElementTypes ==
    {"NONE"} \cup {IREE_HAL_ELEMENT_TYPES[l] : l \in DOMAIN IREE_HAL_ELEMENT_TYPES}

\* The MlModel struct.  input_bytes[i] is input i's length times its element
\* size; output_bytes is the sum of the outputs' sizes, which is all the code
\* uses of them.
MlModel == [num_input        : Nat,
            num_input_dim    : [1..MAX_MODEL_INPUT_NUM -> Nat],
            input_bytes      : [1..MAX_MODEL_INPUT_NUM -> Nat],
            num_output       : Nat,
            output_bytes     : Nat,
            hal_element_type : TypeLabels \cup HalElementTypes]

ASSUME ModelAssumption ==
    /\ Structs \subseteq MlModel
    /\ InputLen \in [Inputs -> Nat]
    /\ MAX_MODEL_INPUT_DIM \in Nat \ {0}
    /\ SIZE_MODULUS \in Nat \ {0}
    /\ MAX_OUTPUT_SIZE \in Nat

VARIABLES
    g_model_struct,   \* the struct, written before it is validated
    g_model_state     \* one of the MODEL_STATE_ values

modelVars == <<g_model_struct, g_model_state, wrapperVars>>

ModelStatus == {"OK", "INV_STATE", "INV_ARG", "INV_PTR", "IREE_ERROR"}

ModelTypeOK ==
    /\ WrapperTypeOK
    /\ g_model_struct \in MlModel
    /\ g_model_state \in MODEL_STATE_UNINITIALIZED..MODEL_STATE_INFERENCE_DONE

ModelInit ==
    /\ WrapperInit
    /\ g_model_struct = [num_input        |-> 0,
                         num_input_dim    |-> [i \in 1..MAX_MODEL_INPUT_NUM |-> 0],
                         input_bytes      |-> [i \in 1..MAX_MODEL_INPUT_NUM |-> 0],
                         num_output       |-> 0,
                         output_bytes     |-> 0,
                         hal_element_type |-> "NONE"]
    /\ g_model_state = MODEL_STATE_UNINITIALIZED

----------------------------------------------------------------------------
\* A check that lets an operation through one stage too early.
TooEarly_by_one(stage) == g_model_state < stage - 1

\* What every operation checks first.
TooEarly(stage) == g_model_state < stage

CountsValid(s) ==
    /\ s.num_input \in 1..MAX_MODEL_INPUT_NUM
    /\ s.num_output \in 1..MAX_MODEL_OUTPUTS
    /\ \A i \in 1..s.num_input : s.num_input_dim[i] <= MAX_MODEL_INPUT_DIM

HasKnownType(s) == s.hal_element_type \in DOMAIN IREE_HAL_ELEMENT_TYPES

\* The label of the element type is replaced by its enum value, in place.
Parsed(s) == [s EXCEPT !.hal_element_type = IREE_HAL_ELEMENT_TYPES[@]]

\* `complete': the payload has the size of the struct.  A struct that is not
\* valid has been stored all the same when the call returns its error.
load_model_struct(s, complete, status) ==
    /\ UNCHANGED wrapperVars
    /\ \/ /\ ~complete
          /\ status = "INV_ARG"
          /\ UNCHANGED <<g_model_struct, g_model_state>>
       \/ /\ complete
          /\ ~(CountsValid(s) /\ HasKnownType(s))
          /\ status = "INV_ARG"
          /\ g_model_struct' = s
          /\ UNCHANGED g_model_state
       \/ /\ complete
          /\ CountsValid(s) /\ HasKnownType(s)
          /\ status = "OK"
          /\ g_model_struct' = Parsed(s)
          /\ g_model_state' = MODEL_STATE_STRUCT_LOADED

load_model_weights(blob, status) ==
    \/ /\ TooEarly(MODEL_STATE_STRUCT_LOADED)
       /\ status = "INV_STATE"
       /\ UNCHANGED modelVars
    \/ /\ ~TooEarly(MODEL_STATE_STRUCT_LOADED)
       /\ release_output_buffer
       /\ release_input_buffer
       /\ create_context(blob, status)
       /\ g_model_state' = IF status = "OK" THEN MODEL_STATE_WEIGHTS_LOADED
                                            ELSE g_model_state
       /\ UNCHANGED g_model_struct

\* The sizes get_model_input_size may compute from the struct.  A count beyond
\* the arrays makes it read past them: any size.
get_model_input_size ==
    LET s == g_model_struct
    IN  IF s.num_input <= MAX_MODEL_INPUT_NUM
        THEN {FoldFunctionOnSet(+, 0, s.input_bytes, 1..s.num_input) % SIZE_MODULUS}
        ELSE 0..(SIZE_MODULUS - 1)

\* The accepted input replaces the one before, which is released first.
load_model_input(data, status) ==
    \/ /\ TooEarly(MODEL_STATE_WEIGHTS_LOADED)
       /\ status = "INV_STATE"
       /\ UNCHANGED modelVars
    \/ /\ ~TooEarly(MODEL_STATE_WEIGHTS_LOADED)
       /\ \E size \in get_model_input_size : InputLen[data] # size
       /\ status = "INV_ARG"
       /\ UNCHANGED modelVars
    \/ /\ ~TooEarly(MODEL_STATE_WEIGHTS_LOADED)
       /\ InputLen[data] \in get_model_input_size
       /\ \E made \in prepare_input_buffer(NULL, g_model_struct.num_input, data) :
            /\ status = made.status
            /\ gp_model_inputs' = made.list
       /\ g_model_state' = IF status = "OK" THEN MODEL_STATE_INPUT_LOADED
                                            ELSE g_model_state
       /\ UNCHANGED <<g_model_struct, contextVars, gp_model_outputs>>

\* The result list is released, made anew, and filled by the inference.
run_model(status) ==
    \/ /\ TooEarly(MODEL_STATE_INPUT_LOADED)
       /\ status = "INV_STATE"
       /\ UNCHANGED modelVars
    \/ /\ ~TooEarly(MODEL_STATE_INPUT_LOADED)
       /\ \E made \in prepare_output_buffer(NULL) :
          \E done \in IF made.status = "OK" THEN run_inference(made.list) ELSE {made} :
            /\ status = done.status
            /\ gp_model_outputs' = done.list
       /\ g_model_state' = IF status = "OK" THEN MODEL_STATE_INFERENCE_DONE
                                            ELSE g_model_state
       /\ UNCHANGED <<g_model_struct, contextVars, gp_model_inputs>>

\* `result' is what the call writes to the caller's buffer.  The sizes of more
\* outputs than the arrays hold are read past them, so that count may fit or not.
get_model_output(status, result) ==
    /\ UNCHANGED modelVars
    /\ \/ /\ TooEarly(MODEL_STATE_INFERENCE_DONE)
          /\ status = "INV_STATE" /\ result = NULL
       \/ /\ ~TooEarly(MODEL_STATE_INFERENCE_DONE)
          /\ \/ g_model_struct.output_bytes % SIZE_MODULUS > MAX_OUTPUT_SIZE
             \/ g_model_struct.num_output > MAX_MODEL_OUTPUTS
          /\ status = "INV_ARG" /\ result = NULL
       \/ /\ ~TooEarly(MODEL_STATE_INFERENCE_DONE)
          /\ \/ g_model_struct.output_bytes % SIZE_MODULUS <= MAX_OUTPUT_SIZE
             \/ g_model_struct.num_output > MAX_MODEL_OUTPUTS
          /\ \E got \in get_output(g_model_struct.num_output) :
                status = got.status /\ result = got.list

\* get_model_stats asks the allocator of gp_device; its buffer is large enough.
get_statistics(status) ==
    /\ status = IF TooEarly(MODEL_STATE_WEIGHTS_LOADED) THEN "INV_STATE" ELSE "OK"
    /\ UNCHANGED modelVars

\* A reset that takes back one stage only.
reset_model_state_by_one ==
    /\ g_model_state' = g_model_state - 1
    /\ UNCHANGED <<g_model_struct, wrapperVars>>

reset_model_state ==
    /\ g_model_state' = MODEL_STATE_UNINITIALIZED
    /\ UNCHANGED <<g_model_struct, wrapperVars>>

\* A caller uses the operations in any order.
ModelNext ==
    \E status \in ModelStatus :
        \/ \E s \in Structs, complete \in BOOLEAN : load_model_struct(s, complete, status)
        \/ \E blob \in Weights : load_model_weights(blob, status)
        \/ \E data \in Inputs : load_model_input(data, status)
        \/ run_model(status)
        \/ reset_model_state

ModelSpec == ModelInit /\ [][ModelNext]_modelVars

----------------------------------------------------------------------------
(* Properties *)

(***************************************************************************)
(* The context, the instance it lives in and the weights it executes exist *)
(* together or not at all, whichever call of create_context failed, and    *)
(* the weights are those the context was made from: it never runs on freed *)
(* or replaced memory, and no failure leaves a part behind.                *)
(***************************************************************************)
ContextWhole ==
    /\ gp_model_weights = gp_context
    /\ gp_context = NULL <=> gp_instance = NULL
    /\ gp_context # NULL => gp_device # NULL

(***************************************************************************)
(* Statistics and input buffers are made through gp_device without a check *)
(* (iree_wrapper.c:206 and 321).  The only guard is the model state, which *)
(* survives a failed reload of the weights; the device must survive too.   *)
(***************************************************************************)
DeviceBehindState ==
    g_model_state >= MODEL_STATE_WEIGHTS_LOADED => gp_device # NULL

(***************************************************************************)
(* Results a live context could hand out were computed by that context,    *)
(* never by the model that was loaded before it.                           *)
(***************************************************************************)
ResultsOfContext ==
    gp_context # NULL /\ gp_model_outputs # NULL /\ gp_model_outputs.views > 0
        => gp_model_outputs.weights = gp_context

(***************************************************************************)
(* Right after its weights are loaded a model has no result, and none can  *)
(* appear before an input has been accepted.                               *)
(***************************************************************************)
NoResultBeforeInput ==
    g_model_state = MODEL_STATE_WEIGHTS_LOADED => gp_model_outputs = NULL

(***************************************************************************)
(* No operation skips a stage: a call can raise the model state by one at  *)
(* most, or restart it from the struct.                                    *)
(***************************************************************************)
NoStageSkipped ==
    [][g_model_state' > g_model_state => g_model_state' = g_model_state + 1]_modelVars

============================================================================
