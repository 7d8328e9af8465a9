------------------------------ MODULE Runtime ------------------------------
(***************************************************************************)
(* The main loop of the runtime (iree_runtime.c): read an input and infer  *)
(* on it if the board has a sensor, wait for a message, run the message's  *)
(* callback, send the response.  It is one thread; pc is where it stands   *)
(* between two of the calls main makes.                                    *)
(*                                                                         *)
(* The host is the environment: any message may arrive whenever the loop   *)
(* waits for one, or none.  A callback overwrites the request with the     *)
(* response in the one message buffer, which is msg here.                  *)
(***************************************************************************)
EXTENDS Model

CONSTANTS
    SensorData,     \* inputs the linked input reader can read: {} for the base one
    SensorFails,    \* TRUE if reading the sensor may fail
    SENSOR_WINDOW,  \* sensor_get_data_size * SENSOR_BUFFER_LEN
    Statistics      \* the allocator statistics

VARIABLES
    pc,    \* next call: "init_server", "read_input", "run_model",
           \* "reset_model_state", "wait_for_message", "handle_message",
           \* "send_message"; "returned" after main returned 1
    msg,   \* the message buffer: request, then response; NULL if none
    told,  \* history: what the host was told is loaded, see Session
    spoiled \* history: the lowest stage of the model whose request was refused
            \* and has replaced what stood there all the same; Intact if none

vars == <<modelVars, pc, msg, told, spoiled>>

Intact == MODEL_STATE_INFERENCE_DONE + 1

NoPayload == {"OK", "ERROR", "PROCESS", "OUTPUT", "STATS"}

\* An IOSPEC payload of another size than MlModel is NULL.
Request == [message_type : NoPayload, payload : {NULL}]
           \cup [message_type : {"DATA"}, payload : Inputs]
           \cup [message_type : {"MODEL"}, payload : Weights]
           \cup [message_type : {"IOSPEC"}, payload : Structs \cup {NULL}]

Response == [message_type : {"OK"}, payload : {NULL, Statistics} \cup OutputList]
            \cup [message_type : {"ERROR"}, payload : {NULL}]

ASSUME RuntimeAssumption ==
    /\ SensorData \subseteq Inputs
    /\ SensorFails \in BOOLEAN
    /\ SENSOR_WINDOW \in Nat
    /\ \A x \in SensorData : InputLen[x] = SENSOR_WINDOW

RuntimeTypeOK ==
    /\ ModelTypeOK
    /\ pc \in {"init_server", "read_input", "run_model", "reset_model_state",
               "wait_for_message", "handle_message", "send_message", "returned"}
    /\ pc = "handle_message" => msg \in Request
    /\ pc = "send_message" => msg \in Response
    /\ pc \notin {"handle_message", "send_message"} => msg = NULL

Init ==
    /\ ModelInit
    /\ pc = "init_server"
    /\ msg = NULL
    /\ told = [struct |-> NULL, weights |-> NULL, data |-> NULL,
               result |-> [weights |-> NULL, data |-> NULL]]
    /\ spoiled = Intact

Goto(label) == pc' = label

\* The host learns from an OK response that the call took effect.
Tell(status, news) == told' = IF status = "OK" THEN news ELSE told

\* The request of a stage returned `status'.  Accepted, it makes good what was
\* spoiled, unless that lies below its stage; refused, it spoils its stage if
\* it `replaced' what stood there.
Spoil(stage, status, replaced) ==
    spoiled' = CASE status = "OK" /\ stage <= spoiled -> Intact
                 [] status # "OK" /\ replaced /\ stage < spoiled -> stage
                 [] OTHER -> spoiled

\* A struct is stored before it is validated (model.c:31).
SpoilStruct(status) ==
    Spoil(MODEL_STATE_STRUCT_LOADED, status, g_model_struct' # g_model_struct)

\* The context is gone before a new one can fail (iree_wrapper.c:117).
SpoilWeights(status) ==
    Spoil(MODEL_STATE_WEIGHTS_LOADED, status, gp_context' # gp_context)

\* A failed push leaves views of the refused input (iree_wrapper.c:240).
SpoilInput(status) ==
    Spoil(MODEL_STATE_INPUT_LOADED, status,
          /\ gp_model_inputs' \notin {gp_model_inputs, NULL}
          /\ gp_model_inputs'.views > 0)

\* The result list is gone before a new one can fail (iree_wrapper.c:251).
SpoilResult(status) ==
    Spoil(MODEL_STATE_INFERENCE_DONE, status,
          gp_model_outputs # NULL /\ gp_model_outputs' = NULL)

----------------------------------------------------------------------------
\* UART, I2C or sensor initialisation may fail, and main returns.
init_server ==
    /\ pc = "init_server"
    /\ \/ Goto("read_input")
       \/ Goto("returned")
    /\ UNCHANGED <<modelVars, msg, told, spoiled>>

Returned == pc = "returned" /\ UNCHANGED vars

\* The base reader never reads.  The sensor reader wants a model whose input
\* is exactly its window, then loads the window it has read.
read_input(data, status) ==
    IF SensorData = {}
    THEN status = "NO_READ" /\ UNCHANGED modelVars
    ELSE \/ /\ SensorFails
            /\ status = "SENSOR_ERROR" /\ UNCHANGED modelVars
         \/ /\ \E size \in get_model_input_size : size # SENSOR_WINDOW
            /\ status = "INV_ARG" /\ UNCHANGED modelVars
         \/ /\ SENSOR_WINDOW \in get_model_input_size
            /\ load_model_input(data, status)

ReaderStatus == ModelStatus \cup {"NO_READ", "SENSOR_ERROR"}

\* A loop that waits for an inference before it reads the first input.
SkipRead_before_inference ==
    /\ pc = "read_input"
    /\ g_model_state <= MODEL_STATE_WEIGHTS_LOADED
    /\ Goto("wait_for_message")
    /\ UNCHANGED <<modelVars, msg, told, spoiled>>

SkipRead ==
    /\ pc = "read_input"
    /\ g_model_state < MODEL_STATE_WEIGHTS_LOADED
    /\ Goto("wait_for_message")
    /\ UNCHANGED <<modelVars, msg, told, spoiled>>

ReadInput ==
    /\ pc = "read_input"
    /\ g_model_state >= MODEL_STATE_WEIGHTS_LOADED
    /\ \E status \in ReaderStatus, data \in SensorData \cup {NULL} :
         /\ data = NULL <=> SensorData = {}
         /\ read_input(data, status)
         /\ Goto(CASE status = "NO_READ" -> "wait_for_message"
                   [] status = "OK" -> "run_model"
                   [] OTHER -> "reset_model_state")
         /\ Tell(status, [told EXCEPT !.data = data])
         /\ SpoilInput(status)
    /\ UNCHANGED msg

ResultOfTold == [weights |-> told.weights, data |-> told.data]

RunModel ==
    /\ pc = "run_model"
    /\ \/ /\ g_model_state < MODEL_STATE_INPUT_LOADED
          /\ Goto("wait_for_message")
          /\ UNCHANGED <<modelVars, told, spoiled>>
       \/ /\ g_model_state >= MODEL_STATE_INPUT_LOADED
          /\ \E status \in ModelStatus :
               /\ run_model(status)
               /\ Goto(IF status = "OK" THEN "wait_for_message" ELSE "reset_model_state")
               /\ Tell(status, [told EXCEPT !.result = ResultOfTold])
               /\ SpoilResult(status)
    /\ UNCHANGED msg

\* A loop that ignores the failure.
ResetModelState_omitted ==
    /\ pc = "reset_model_state"
    /\ Goto("wait_for_message")
    /\ UNCHANGED <<modelVars, msg, told, spoiled>>

ResetModelState ==
    /\ pc = "reset_model_state"
    /\ reset_model_state
    /\ Goto("wait_for_message")
    /\ UNCHANGED <<msg, told, spoiled>>

\* The read timed out or failed, or the message was too big.
WaitInVain ==
    /\ pc = "wait_for_message"
    /\ Goto("read_input")
    /\ UNCHANGED <<modelVars, msg, told, spoiled>>

WaitForMessage ==
    /\ pc = "wait_for_message"
    /\ msg' \in Request
    /\ Goto("handle_message")
    /\ UNCHANGED <<modelVars, told, spoiled>>

----------------------------------------------------------------------------
(* The callbacks *)

Handling(type) == pc = "handle_message" /\ msg.message_type = type

success_response(payload) == [message_type |-> "OK", payload |-> payload]
failure_response == [message_type |-> "ERROR", payload |-> NULL]

\* The response to a call that returned `status'.
Respond(status, payload) ==
    /\ msg' = IF status = "OK" THEN success_response(payload) ELSE failure_response
    /\ Goto("send_message")

\* ok_callback and error_callback: an unexpected message has no response.
UnexpectedCallback ==
    /\ Handling("OK") \/ Handling("ERROR")
    /\ msg' = NULL
    /\ Goto("read_input")
    /\ UNCHANGED <<modelVars, told, spoiled>>

data_callback ==
    /\ Handling("DATA")
    /\ \E status \in ModelStatus :
         /\ load_model_input(msg.payload, status)
         /\ Respond(status, NULL)
         /\ Tell(status, [told EXCEPT !.data = msg.payload])
         /\ SpoilInput(status)

model_callback ==
    /\ Handling("MODEL")
    /\ \E status \in ModelStatus :
         /\ load_model_weights(msg.payload, status)
         /\ Respond(status, NULL)
         /\ Tell(status, [told EXCEPT !.weights = msg.payload])
         /\ SpoilWeights(status)

process_callback ==
    /\ Handling("PROCESS")
    /\ \E status \in ModelStatus :
         /\ run_model(status)
         /\ Respond(status, NULL)
         /\ Tell(status, [told EXCEPT !.result = ResultOfTold])
         /\ SpoilResult(status)

output_callback ==
    /\ Handling("OUTPUT")
    /\ \E status \in ModelStatus, result \in OutputList \cup {NULL} :
         /\ get_model_output(status, result)
         /\ Respond(status, result)
    /\ UNCHANGED <<told, spoiled>>

stats_callback ==
    /\ Handling("STATS")
    /\ \E status \in ModelStatus :
         /\ get_statistics(status)
         /\ Respond(status, Statistics)
    /\ UNCHANGED <<told, spoiled>>

iospec_callback ==
    /\ Handling("IOSPEC")
    /\ \E status \in ModelStatus :
         /\ load_model_struct(msg.payload, msg.payload # NULL, status)
         /\ Respond(status, NULL)
         /\ Tell(status, [told EXCEPT !.struct = Parsed(msg.payload)])
         /\ SpoilStruct(status)

HandleMessage ==
    \/ UnexpectedCallback
    \/ data_callback
    \/ model_callback
    \/ process_callback
    \/ output_callback
    \/ stats_callback
    \/ iospec_callback

\* A loop that keeps the pointer to the message it has sent.
SendMessage_keeping ==
    /\ pc = "send_message"
    /\ Goto("read_input")
    /\ UNCHANGED <<modelVars, msg, told, spoiled>>

SendMessage ==
    /\ pc = "send_message"
    /\ msg' = NULL
    /\ Goto("read_input")
    /\ UNCHANGED <<modelVars, told, spoiled>>

Next ==
    \/ init_server \/ Returned
    \/ SkipRead \/ ReadInput \/ RunModel \/ ResetModelState
    \/ WaitInVain \/ WaitForMessage
    \/ HandleMessage \/ SendMessage

\* The processor keeps executing: no call of the loop blocks for ever, since
\* the wait for a message is bounded by the UART timeout.
Spec == Init /\ [][Next]_vars /\ WF_vars(Next)

----------------------------------------------------------------------------
(* Properties *)

(***************************************************************************)
(* The runtime keeps the promises of Session, whatever the host sends and  *)
(* whichever IREE call fails: an acknowledgement means the request took    *)
(* effect, a refusal takes back no stage, and an OUTPUT reply carries the  *)
(* result of the acknowledged weights on the last acknowledged input,      *)
(* whatever inferences and inputs failed in between.  That last promise    *)
(* does not survive a refusal that spoiled a stage the host was told is    *)
(* loaded, until the host repeats that stage; what spoils one is spelled   *)
(* out above.  A board that reads and infers by itself drops the session   *)
(* the moment one of the two fails.                                        *)
(***************************************************************************)
Promise == INSTANCE Session WITH
    stage   <- IF pc = "reset_model_state" THEN MODEL_STATE_UNINITIALIZED ELSE g_model_state,
    struct  <- told.struct,
    weights <- told.weights,
    data    <- told.data,
    result  <- told.result,
    reply   <- IF pc = "send_message" THEN msg ELSE NULL,
    Structs <- {Parsed(s) : s \in {t \in Structs : CountsValid(t) /\ HasKnownType(t)}},
    Outputs <- OutputList

KeepsPromise == Promise!Spec

(***************************************************************************)
(* With a sensor, a model that stays loaded keeps being run on fresh       *)
(* inputs: host traffic, refused requests included, cannot starve the      *)
(* automatic inference.                                                    *)
(***************************************************************************)
KeepsInferring ==
    <>[](g_model_state >= MODEL_STATE_WEIGHTS_LOADED)
        => []<>(pc = "wait_for_message" /\ g_model_state = MODEL_STATE_INFERENCE_DONE)

============================================================================
