---------------------------- MODULE IreeWrapper ----------------------------
(***************************************************************************)
(* The IREE wrapper (iree_wrapper.c): the handles it keeps in its file     *)
(* globals and, for every function it exports, the outcomes of one call.   *)
(*                                                                         *)
(* The program is single-threaded, so a call is one step of its caller.    *)
(* Calls that one caller makes in sequence on the same handle are written  *)
(* as operators that take the handle's value on entry and return the SET   *)
(* of possible outcomes, records [status, list]; the caller chains them.   *)
(*                                                                         *)
(* The IREE library itself is external.  Each of its calls that can return *)
(* an error has a name in IreeCalls and fails only if the name is in       *)
(* Faults, so that a run states exactly which failures it considers.       *)
(* Calling IREE on a NULL handle is undefined behaviour: any outcome.      *)
(***************************************************************************)
EXTENDS Integers

CONSTANTS
    NULL,        \* the null pointer
    Weights,     \* compiled models (.vmfb blobs)
    Inputs,      \* payloads a host or a sensor can offer as model input
    NumArgs,     \* NumArgs[w]: number of arguments of w's entry function
    NumResults,  \* NumResults[w]: number of results of w's entry function
    Faults,      \* the IREE calls that may fail
    MAX_MODEL_INPUT_NUM,  \* 2 in the build
    MAX_MODEL_OUTPUTS     \* 12 in the build

\* The IREE calls of create_context, in program order.
ContextCalls == <<"iree_vm_instance_create",
                  "iree_hal_module_register_all_types",
                  "create_device",
                  "iree_vm_bytecode_module_create",
                  "iree_hal_module_create",
                  "iree_vm_context_create_with_modules">>
DeviceCall == 3

IreeCalls == {ContextCalls[i] : i \in DOMAIN ContextCalls}
             \cup {"input_list_create", "input_views", "input_push",
                   "output_list_create", "invoke", "map_range"}

ASSUME WrapperAssumption ==
    /\ NULL \notin Weights
    /\ NULL \notin Inputs
    /\ NULL \notin {"instance", "device"}
    /\ MAX_MODEL_INPUT_NUM \in Nat \ {0}
    /\ MAX_MODEL_OUTPUTS \in Nat \ {0}
    /\ NumArgs \in [Weights -> 1..MAX_MODEL_INPUT_NUM]
    /\ NumResults \in [Weights -> 1..MAX_MODEL_OUTPUTS]
    /\ Faults \subseteq IreeCalls

VARIABLES
    gp_instance,       \* "instance" or NULL
    gp_device,         \* "device" or NULL
    gp_context,        \* the blob the live context executes, or NULL
    gp_model_weights,  \* the blob held in the weights buffer, or NULL
    gp_model_inputs,   \* NULL or a list of input buffer views
    gp_model_outputs   \* NULL or a list of result buffer views

contextVars == <<gp_instance, gp_device, gp_context, gp_model_weights>>
wrapperVars == <<gp_instance, gp_device, gp_context, gp_model_weights,
                 gp_model_inputs, gp_model_outputs>>

\* A list of views: how many, and the payload they were made from.
InputList == [data : Inputs \cup {NULL}, views : 0..MAX_MODEL_INPUT_NUM]

\* A list of results: how many, and the model and input they were computed from.
OutputList == [weights : Weights \cup {NULL}, data : Inputs \cup {NULL},
               views : 0..MAX_MODEL_OUTPUTS]
EmptyOutputs == [weights |-> NULL, data |-> NULL, views |-> 0]

\* A list is not the null pointer.
ASSUME ListAssumption == NULL \notin InputList \cup OutputList

WrapperTypeOK ==
    /\ gp_instance \in {"instance", NULL}
    /\ gp_device \in {"device", NULL}
    /\ gp_context \in Weights \cup {NULL}
    /\ gp_model_weights \in Weights \cup {NULL}
    /\ gp_model_inputs \in InputList \cup {NULL}
    /\ gp_model_outputs \in OutputList \cup {NULL}

WrapperInit ==
    /\ gp_instance = NULL
    /\ gp_device = NULL
    /\ gp_context = NULL
    /\ gp_model_weights = NULL
    /\ gp_model_inputs = NULL
    /\ gp_model_outputs = NULL

Outcome(status, list) == [status |-> status, list |-> list]

\* `failure' is an outcome only when the IREE call may fail.
IfFails(call, failure) == IF call \in Faults THEN {failure} ELSE {}

----------------------------------------------------------------------------
\* A clean-up that forgets the weights buffer.
release_context_but_weights ==
    /\ gp_context' = NULL
    /\ gp_instance' = NULL
    /\ UNCHANGED gp_model_weights

\* What release_context leaves: everything freed but the device.
release_context ==
    /\ gp_context' = NULL
    /\ gp_instance' = NULL
    /\ gp_model_weights' = NULL

\* All calls up to the context succeed; the device is created only once.
context_created(blob) ==
    /\ gp_model_weights' = blob
    /\ gp_instance' = "instance"
    /\ gp_device' = "device"
    /\ gp_context' = blob

\* A clean-up that frees the device, too.
context_failed_with_device(i) ==
    /\ ContextCalls[i] \in Faults
    /\ i = DeviceCall => gp_device = NULL
    /\ gp_device' = NULL
    /\ release_context

\* The i-th IREE call fails: a device created before it is kept, the rest is
\* released by the clean-up.
context_failed(i) ==
    /\ ContextCalls[i] \in Faults
    /\ i = DeviceCall => gp_device = NULL
    /\ gp_device' = IF i > DeviceCall THEN "device" ELSE gp_device
    /\ release_context

\* The context the call replaces was released on entry, so only the end of the
\* call shows.
create_context(blob, status) ==
    \/ status = "OK" /\ context_created(blob)
    \/ status = "IREE_ERROR" /\ \E i \in DOMAIN ContextCalls : context_failed(i)

----------------------------------------------------------------------------
release_input_buffer == gp_model_inputs' = NULL

\* The results of the model before are kept.
release_output_buffer_forgotten == UNCHANGED gp_model_outputs

release_output_buffer == gp_model_outputs' = NULL

\* A failed list creation leaves the handle as it was, a failed view leaves an
\* empty list, a failed push a partial one.  With more inputs than the wrapper's
\* arrays hold, the call writes past them: any outcome.
prepare_input_buffer(held, num_input, data) ==
    IF num_input > MAX_MODEL_INPUT_NUM
    THEN [status : {"OK", "IREE_ERROR"}, list : InputList \cup {NULL}]
    ELSE LET listOf(n) == [data |-> data, views |-> n]
         IN  {Outcome("OK", listOf(num_input))}
             \cup IfFails("input_list_create", Outcome("IREE_ERROR", held))
             \cup {o \in IfFails("input_views", Outcome("IREE_ERROR", listOf(0))) :
                      num_input > 0}
             \cup {o \in {Outcome("IREE_ERROR", listOf(n)) : n \in 0..(num_input - 1)} :
                      "input_push" \in Faults}

prepare_output_buffer(held) ==
    {Outcome("OK", EmptyOutputs)}
    \cup IfFails("output_list_create", Outcome("IREE_ERROR", held))

\* "invoke" stands for a failed lookup of the entry function as well.
\* iree_vm_invoke checks the argument list against the entry function, so it
\* cannot succeed on a list that is missing, empty or of another length.
ArgumentsMatch ==
    gp_model_inputs # NULL /\ gp_model_inputs.views = NumArgs[gp_context]

run_inference(outputs) ==
    IF gp_context = NULL
    THEN [status : {"OK", "IREE_ERROR"}, list : OutputList]
    ELSE IfFails("invoke", Outcome("IREE_ERROR", outputs))
         \cup IF ArgumentsMatch
              THEN {Outcome("OK", [weights |-> gp_context,
                                   data    |-> gp_model_inputs.data,
                                   views   |-> NumResults[gp_context]])}
              ELSE {Outcome("IREE_ERROR", outputs)}

\* The result records an OUTPUT request copies out: the first num_output ones.
get_output(num_output) ==
    IF gp_model_outputs = NULL
    THEN [status : {"OK", "INV_PTR"}, list : OutputList]
    ELSE {o \in IfFails("map_range", Outcome("IREE_ERROR", NULL)) :
             num_output > 0 /\ gp_model_outputs.views > 0}
         \cup IF num_output <= gp_model_outputs.views
              THEN {Outcome("OK", [gp_model_outputs EXCEPT !.views = num_output])}
              ELSE {Outcome("INV_PTR", NULL)}

============================================================================
