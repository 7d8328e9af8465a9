--------------------------- MODULE RuntimeProofs ---------------------------
(***************************************************************************)
(* Theorems about the main loop: it only uses the model through its        *)
(* operations, so what ModelProofs shows of the component holds in the     *)
(* program, for any host, with and without a sensor.                       *)
(***************************************************************************)
EXTENDS Runtime, ModelProofs

\* What the callbacks rely on: a request in the buffer is one of the requests.
MessageOk == pc = "handle_message" => msg \in Request

LEMMA MessageInit == Init => MessageOk
BY DEF Init, MessageOk

LEMMA MessageStep == MessageOk /\ [Next]_vars => MessageOk'
<1> SUFFICES ASSUME MessageOk, [Next]_vars, pc' = "handle_message"
             PROVE  msg' \in Request
  BY DEF MessageOk
<1>1. CASE UNCHANGED vars
  BY <1>1 DEF vars, MessageOk
<1>2. CASE WaitForMessage
  BY <1>2 DEF WaitForMessage
<1>3. CASE init_server \/ Returned \/ SkipRead \/ ResetModelState \/ WaitInVain \/ SendMessage
  BY <1>3 DEF init_server, Returned, SkipRead, ResetModelState, WaitInVain, SendMessage,
     Goto, vars
<1>4. CASE ReadInput
  BY <1>4 DEF ReadInput, Goto
<1>5. CASE RunModel
  BY <1>5 DEF RunModel, Goto
<1>6. CASE HandleMessage
  BY <1>6 DEF HandleMessage, UnexpectedCallback, data_callback, model_callback,
     process_callback, output_callback, stats_callback, iospec_callback, Respond, Goto
<1> QED
  BY <1>1, <1>2, <1>3, <1>4, <1>5, <1>6 DEF Next

\* The payload of a request fits its type.
LEMMA PayloadType ==
    ASSUME msg \in Request
    PROVE  /\ msg.message_type = "DATA" => msg.payload \in Inputs
           /\ msg.message_type = "MODEL" => msg.payload \in Weights
           /\ msg.message_type = "IOSPEC" => msg.payload \in Structs \cup {NULL}
BY DEF Request, NoPayload

\* A callback calls one operation of the model, or none that changes it.
LEMMA HandleUsesModel ==
    ASSUME MessageOk, HandleMessage
    PROVE  [ModelNext]_modelVars
<1>0. msg \in Request
  BY DEF MessageOk, HandleMessage, Handling, UnexpectedCallback, data_callback, model_callback,
     process_callback, output_callback, stats_callback, iospec_callback
<1>1. CASE data_callback
  BY <1>0, <1>1, PayloadType DEF data_callback, Handling, ModelNext
<1>2. CASE model_callback
  BY <1>0, <1>2, PayloadType DEF model_callback, Handling, ModelNext
<1>3. CASE process_callback
  BY <1>3 DEF process_callback, ModelNext
<1>4. CASE iospec_callback
  <2>1. PICK status \in ModelStatus : load_model_struct(msg.payload, msg.payload # NULL, status)
    BY <1>4 DEF iospec_callback
  <2>2. CASE msg.payload = NULL
    BY <2>1, <2>2 DEF load_model_struct, modelVars
  <2>3. CASE msg.payload # NULL
    <3>1. msg.payload \in Structs
      BY <1>0, <1>4, <2>3, PayloadType DEF iospec_callback, Handling
    <3> QED
      BY <2>1, <2>3, <3>1 DEF ModelNext
  <2> QED
    BY <2>2, <2>3
<1>5. CASE UnexpectedCallback \/ output_callback \/ stats_callback
  BY <1>5 DEF UnexpectedCallback, output_callback, stats_callback, get_model_output, get_statistics
<1> QED
  BY <1>1, <1>2, <1>3, <1>4, <1>5 DEF HandleMessage

\* The statuses of load_model_input are statuses of the model.
LEMMA LoadInputStatus ==
    ASSUME NEW data, NEW status, load_model_input(data, status)
    PROVE  status \in ModelStatus
<1>1. ASSUME NEW made \in prepare_input_buffer(NULL, g_model_struct.num_input, data)
      PROVE  made.status \in {"OK", "IREE_ERROR"}
  BY DEF prepare_input_buffer, IfFails, Outcome
<1> QED
  BY <1>1 DEF load_model_input, ModelStatus

LEMMA RuntimeUsesModel ==
    ASSUME MessageOk, [Next]_vars
    PROVE  [ModelNext]_modelVars
<1>1. CASE UNCHANGED vars
  BY <1>1 DEF vars
<1>2. CASE init_server \/ Returned \/ SkipRead \/ WaitInVain \/ WaitForMessage \/ SendMessage
  BY <1>2 DEF init_server, Returned, SkipRead, WaitInVain, WaitForMessage, SendMessage, vars
<1>3. CASE ReadInput
  <2>1. PICK status \in ReaderStatus, data \in SensorData \cup {NULL} :
          /\ data = NULL <=> SensorData = {}
          /\ read_input(data, status)
    BY <1>3 DEF ReadInput
  <2>2. CASE load_model_input(data, status) /\ SensorData # {}
    <3>1. data \in Inputs
      BY <2>1, <2>2, RuntimeAssumption
    <3>2. status \in ModelStatus \/ UNCHANGED modelVars
      BY <2>2, LoadInputStatus
    <3> QED
      BY <2>2, <3>1, <3>2 DEF ModelNext
  <2> QED
    BY <2>1, <2>2 DEF read_input
<1>4. CASE RunModel
  BY <1>4 DEF RunModel, ModelNext
<1>5. CASE ResetModelState
  BY <1>5 DEF ResetModelState, ModelNext, ModelStatus
<1>6. CASE HandleMessage
  BY <1>6, HandleUsesModel
<1> QED
  BY <1>1, <1>2, <1>3, <1>4, <1>5, <1>6 DEF Next

\* The program is an implementation of the model component's specification.
THEOREM RuntimeImplementsModel == Spec => ModelSpec
<1>1. Init => ModelInit
  BY DEF Init
<1> QED
  BY <1>1, MessageInit, MessageStep, RuntimeUsesModel, PTL DEF Spec, ModelSpec

\* In the running program, whatever the host sends and whatever IREE call
\* fails, no part of a context outlives the others.
THEOREM RuntimeContextWhole == Spec => []ContextWhole
BY RuntimeImplementsModel, ContextIsWhole, PTL

----------------------------------------------------------------------------
(* The message buffer *)

Labels == {"init_server", "read_input", "run_model", "reset_model_state",
           "wait_for_message", "handle_message", "send_message", "returned"}

\* What the one buffer holds at each label.
BufferOk ==
    /\ pc \in Labels
    /\ pc = "handle_message" => msg \in Request
    /\ pc = "send_message" => msg \in Response
    /\ pc \notin {"handle_message", "send_message"} => msg = NULL

\* A callback answers, with its payload or with an error.
LEMMA ResponseType ==
    ASSUME NEW status, NEW payload, Respond(status, payload),
           status = "OK" => payload \in {NULL, Statistics} \cup OutputList
    PROVE  BufferOk'
<1>1. msg' \in Response
  <2>1. CASE status = "OK"
    BY <2>1 DEF Respond, success_response, Response
  <2>2. CASE status # "OK"
    BY <2>2 DEF Respond, failure_response, Response
  <2> QED BY <2>1, <2>2
<1> QED BY <1>1 DEF BufferOk, Labels, Respond, Goto

LEMMA BufferStep == BufferOk /\ [Next]_vars => BufferOk'
<1> SUFFICES ASSUME BufferOk, [Next]_vars PROVE BufferOk'
  OBVIOUS
<1>1. CASE UNCHANGED vars
  BY <1>1 DEF vars, BufferOk
<1>2. CASE WaitForMessage
  BY <1>2 DEF WaitForMessage, Goto, BufferOk, Labels
<1>3. CASE init_server \/ SkipRead \/ ResetModelState \/ WaitInVain \/ SendMessage
  BY <1>3 DEF init_server, SkipRead, ResetModelState, WaitInVain, SendMessage, Goto,
     BufferOk, Labels
<1>4. CASE Returned
  BY <1>4 DEF Returned, vars, BufferOk
<1>5. CASE ReadInput
  <2>1. pc = "read_input" /\ msg' = msg
        /\ pc' \in {"wait_for_message", "run_model", "reset_model_state"}
    BY <1>5 DEF ReadInput, Goto
  <2> QED BY <2>1 DEF BufferOk, Labels
<1>6. CASE RunModel
  <2>1. pc = "run_model" /\ msg' = msg /\ pc' \in {"wait_for_message", "reset_model_state"}
    BY <1>6 DEF RunModel, Goto
  <2> QED BY <2>1 DEF BufferOk, Labels
<1>7. CASE HandleMessage
  <2>1. CASE UnexpectedCallback
    BY <2>1 DEF UnexpectedCallback, Goto, BufferOk, Labels
  <2>2. CASE data_callback
    BY <2>2, ResponseType DEF data_callback
  <2>3. CASE model_callback
    BY <2>3, ResponseType DEF model_callback
  <2>4. CASE process_callback
    BY <2>4, ResponseType DEF process_callback
  <2>5. CASE output_callback
    BY <2>5, ResponseType DEF output_callback
  <2>6. CASE stats_callback
    BY <2>6, ResponseType DEF stats_callback
  <2>7. CASE iospec_callback
    BY <2>7, ResponseType DEF iospec_callback
  <2> QED BY <1>7, <2>1, <2>2, <2>3, <2>4, <2>5, <2>6, <2>7 DEF HandleMessage
<1> QED
  BY <1>1, <1>2, <1>3, <1>4, <1>5, <1>6, <1>7 DEF Next

\* The message buffer holds a request of the protocol whenever a callback reads it
\* and a response of the protocol whenever one is sent, and the model is typed.
THEOREM RuntimeTypeCorrect == Spec => []RuntimeTypeOK
<1>1. Init => BufferOk
  BY DEF Init, BufferOk, Labels
<1>2. ModelTypeOK /\ BufferOk => RuntimeTypeOK
  BY DEF RuntimeTypeOK, BufferOk, Labels
<1> QED
  BY <1>1, <1>2, BufferStep, RuntimeImplementsModel, ModelTypeCorrect, PTL DEF Spec

----------------------------------------------------------------------------
(* The promises to the host *)

\* The structs a host may have been told are loaded.
Accepted == {Parsed(s) : s \in {t \in Structs : CountsValid(t) /\ HasKnownType(t)}}

ToldType ==
    /\ told \in [struct  : Accepted \cup {NULL},
                 weights : Weights \cup {NULL},
                 data    : Inputs \cup {NULL},
                 result  : [weights : Weights \cup {NULL}, data : Inputs \cup {NULL}]]
    /\ spoiled \in 1..5

\* The host was told that the stage is loaded, and no refusal spoiled it or a lower one.
Stands(stage) == g_model_state >= stage /\ spoiled > stage

StructTold ==
    Stands(1) => g_model_struct = told.struct /\ told.struct \in Accepted

WeightsTold ==
    Stands(2) => gp_context = told.weights /\ gp_context # NULL

InputsTold ==
    Stands(3) /\ gp_model_inputs # NULL /\ gp_model_inputs.views > 0
        => gp_model_inputs.data = told.data

ResultsTold ==
    Stands(4)
        => /\ gp_model_outputs # NULL
           /\ gp_model_outputs.views > 0
                => /\ gp_model_outputs.weights = told.result.weights
                   /\ gp_model_outputs.data = told.result.data

\* The globals hold what the host was told.
GlobalsAsTold == ToldType /\ StructTold /\ WeightsTold /\ InputsTold /\ ResultsTold

OnlyWithSensor == pc \in {"run_model", "reset_model_state"} => SensorData # {}

\* The inductive invariant of the promise.
PromiseInv == GlobalsAsTold /\ OnlyWithSensor

\* What the proofs below stand on.
PromiseContext ==
    /\ ModelTypeOK
    /\ BufferOk
    /\ PromiseInv

LEMMA Numbers ==
    ASSUME PromiseContext
    PROVE  g_model_state \in 0..4 /\ spoiled \in 1..5
BY DEF PromiseContext, ModelTypeOK, MODEL_STATE_UNINITIALIZED, MODEL_STATE_INFERENCE_DONE,
   PromiseInv, GlobalsAsTold, ToldType

----------------------------------------------------------------------------
(* What an operation did, by the status it returned *)

LEMMA AcceptedCounts ==
    ASSUME NEW s \in Accepted
    PROVE  s.num_input \in 1..MAX_MODEL_INPUT_NUM /\ s.num_output \in 1..MAX_MODEL_OUTPUTS
<1>1. PICK t \in Structs : s = Parsed(t) /\ CountsValid(t)
  BY DEF Accepted
<1>2. t \in MlModel
  BY ModelAssumption
<1>3. s.num_input = t.num_input /\ s.num_output = t.num_output
  BY <1>1, <1>2 DEF Parsed, MlModel
<1> QED BY <1>1, <1>3 DEF CountsValid

\* A struct is accepted only if it is complete and valid.
LEMMA StructOutcome ==
    ASSUME NEW s, NEW status, s \in Structs \cup {NULL}, load_model_struct(s, s # NULL, status)
    PROVE  /\ UNCHANGED wrapperVars
           /\ \/ status # "OK" /\ UNCHANGED g_model_state
              \/ /\ status = "OK"
                 /\ g_model_state' = 1
                 /\ g_model_struct' = Parsed(s) /\ Parsed(s) \in Accepted
<1>1. CASE s = NULL
  BY <1>1 DEF load_model_struct
<1>2. CASE s # NULL
  <2>1. CountsValid(s) /\ HasKnownType(s) => Parsed(s) \in Accepted
    BY <1>2 DEF Accepted
  <2> QED BY <1>2, <2>1 DEF load_model_struct, MODEL_STATE_STRUCT_LOADED
<1> QED BY <1>1, <1>2

\* Weights are refused too early, they fail and leave no context, or they replace
\* the model before.
LEMMA WeightsOutcome ==
    ASSUME PromiseContext, NEW blob, NEW status, load_model_weights(blob, status)
    PROVE  /\ UNCHANGED g_model_struct
           /\ \/ status # "OK" /\ UNCHANGED modelVars
              \/ status # "OK" /\ UNCHANGED g_model_state /\ gp_context' = NULL
              \/ /\ status = "OK"
                 /\ g_model_state >= 1 /\ g_model_state' = 2
                 /\ gp_context' = blob
                 /\ gp_model_inputs' = NULL /\ gp_model_outputs' = NULL
<1>1. create_context(blob, status)
          => \/ status = "OK" /\ gp_context' = blob
             \/ status # "OK" /\ gp_context' = NULL
  BY DEF create_context, context_created, context_failed, release_context
<1>2. ~(g_model_state < 1) => g_model_state >= 1
  BY Numbers
<1> QED
  BY <1>1, <1>2 DEF load_model_weights, TooEarly, release_output_buffer, release_input_buffer,
     MODEL_STATE_STRUCT_LOADED, MODEL_STATE_WEIGHTS_LOADED, modelVars

\* An input that is accepted is in the list, if the struct is the one the host knows.
LEMMA InputOutcome ==
    ASSUME PromiseContext, NEW data, NEW status, load_model_input(data, status)
    PROVE  /\ UNCHANGED <<g_model_struct, contextVars, gp_model_outputs>>
           /\ \/ status # "OK" /\ UNCHANGED g_model_state
              \/ /\ status = "OK"
                 /\ g_model_state >= 2 /\ g_model_state' = 3
                 /\ spoiled > 1 => gp_model_inputs'.data = data
<1>1. CASE UNCHANGED modelVars /\ status # "OK"
  BY <1>1 DEF modelVars, wrapperVars, contextVars
<1>2. CASE /\ ~TooEarly(MODEL_STATE_WEIGHTS_LOADED)
           /\ \E made \in prepare_input_buffer(NULL, g_model_struct.num_input, data) :
                 status = made.status /\ gp_model_inputs' = made.list
           /\ g_model_state' = IF status = "OK" THEN MODEL_STATE_INPUT_LOADED
                                                ELSE g_model_state
           /\ UNCHANGED <<g_model_struct, contextVars, gp_model_outputs>>
  <2>1. g_model_state >= 2
    BY <1>2, Numbers DEF TooEarly, MODEL_STATE_WEIGHTS_LOADED
  <2>2. ASSUME spoiled > 1, status = "OK"
        PROVE  gp_model_inputs'.data = data
    <3>1. g_model_struct \in Accepted
      BY <2>1, <2>2, Numbers DEF PromiseContext, PromiseInv, GlobalsAsTold, StructTold, Stands
    <3>2. ~(g_model_struct.num_input > MAX_MODEL_INPUT_NUM)
      BY <3>1, AcceptedCounts, WrapperAssumption
    <3>3. PICK made \in prepare_input_buffer(NULL, g_model_struct.num_input, data) :
            status = made.status /\ gp_model_inputs' = made.list
      BY <1>2
    <3>4. \/ made = Outcome("OK", [data |-> data, views |-> g_model_struct.num_input])
          \/ made.status = "IREE_ERROR"
      BY <3>2, <3>3 DEF prepare_input_buffer, IfFails, Outcome
    <3> QED BY <2>2, <3>3, <3>4 DEF Outcome
  <2> QED BY <1>2, <2>1, <2>2 DEF MODEL_STATE_INPUT_LOADED
<1> QED BY <1>1, <1>2 DEF load_model_input

\* In the context the host knows, an inference that fails leaves an empty result
\* list, or none, or was not begun.
LEMMA RunOutcome ==
    ASSUME PromiseContext, NEW status, run_model(status)
    PROVE  /\ UNCHANGED <<g_model_struct, contextVars, gp_model_inputs>>
           /\ \/ /\ status # "OK" /\ UNCHANGED g_model_state
                 /\ spoiled > 2 => \/ UNCHANGED gp_model_outputs
                                   \/ gp_model_outputs' \in {NULL, EmptyOutputs}
              \/ /\ status = "OK"
                 /\ g_model_state >= 3 /\ g_model_state' = 4
                 /\ spoiled > 2 => /\ ArgumentsMatch
                                   /\ gp_model_outputs' = [weights |-> gp_context,
                                                           data    |-> gp_model_inputs.data,
                                                           views   |-> NumResults[gp_context]]
<1>1. CASE UNCHANGED modelVars /\ status # "OK"
  BY <1>1 DEF modelVars, wrapperVars, contextVars
<1>2. CASE /\ ~TooEarly(MODEL_STATE_INPUT_LOADED)
           /\ \E made \in prepare_output_buffer(NULL) :
              \E done \in IF made.status = "OK" THEN run_inference(made.list) ELSE {made} :
                 status = done.status /\ gp_model_outputs' = done.list
           /\ g_model_state' = IF status = "OK" THEN MODEL_STATE_INFERENCE_DONE
                                                ELSE g_model_state
           /\ UNCHANGED <<g_model_struct, contextVars, gp_model_inputs>>
  <2>1. g_model_state >= 3
    BY <1>2, Numbers DEF TooEarly, MODEL_STATE_INPUT_LOADED
  <2>2. ASSUME spoiled > 2
        PROVE  \/ status # "OK" /\ gp_model_outputs' \in {NULL, EmptyOutputs}
               \/ /\ status = "OK" /\ ArgumentsMatch
                  /\ gp_model_outputs' = [weights |-> gp_context,
                                          data    |-> gp_model_inputs.data,
                                          views   |-> NumResults[gp_context]]
    <3>1. gp_context # NULL
      BY <2>1, <2>2, Numbers DEF PromiseContext, PromiseInv, GlobalsAsTold, WeightsTold, Stands
    <3>2. PICK made \in prepare_output_buffer(NULL) :
            \E done \in IF made.status = "OK" THEN run_inference(made.list) ELSE {made} :
               status = done.status /\ gp_model_outputs' = done.list
      BY <1>2
    <3>3. PICK done \in IF made.status = "OK" THEN run_inference(made.list) ELSE {made} :
            status = done.status /\ gp_model_outputs' = done.list
      BY <3>2
    <3>4. made \in {Outcome("OK", EmptyOutputs), Outcome("IREE_ERROR", NULL)}
      BY <3>2 DEF prepare_output_buffer, IfFails
    <3>5. CASE made = Outcome("OK", EmptyOutputs)
      <4>1. made.status = "OK" /\ made.list = EmptyOutputs
        BY <3>5 DEF Outcome
      <4>2. \/ done = Outcome("IREE_ERROR", EmptyOutputs)
            \/ /\ ArgumentsMatch
               /\ done = Outcome("OK", [weights |-> gp_context,
                                        data    |-> gp_model_inputs.data,
                                        views   |-> NumResults[gp_context]])
        BY <3>1, <3>3, <4>1 DEF run_inference, IfFails
      <4> QED BY <3>3, <4>2 DEF Outcome
    <3>6. CASE made = Outcome("IREE_ERROR", NULL)
      BY <3>3, <3>6 DEF Outcome
    <3> QED BY <3>4, <3>5, <3>6
  <2>3. CASE status = "OK"
    BY <1>2, <2>1, <2>2, <2>3 DEF MODEL_STATE_INFERENCE_DONE
  <2>4. CASE status # "OK"
    BY <1>2, <2>2, <2>4
  <2> QED BY <2>3, <2>4
<1> QED BY <1>1, <1>2 DEF run_model

----------------------------------------------------------------------------
(* What the history records *)

LEMMA SpoilOfStruct ==
    ASSUME spoiled \in 1..5, NEW status, SpoilStruct(status)
    PROVE  /\ status = "OK" => spoiled' = IF 1 <= spoiled THEN 5 ELSE spoiled
           /\ status # "OK" => /\ spoiled' \in 1..spoiled
                               /\ g_model_struct' = g_model_struct \/ spoiled' <= 1
BY DEF SpoilStruct, Spoil, Intact, MODEL_STATE_STRUCT_LOADED, MODEL_STATE_INFERENCE_DONE

LEMMA SpoilOfWeights ==
    ASSUME spoiled \in 1..5, NEW status, SpoilWeights(status)
    PROVE  /\ status = "OK" => spoiled' = IF 2 <= spoiled THEN 5 ELSE spoiled
           /\ status # "OK" => /\ spoiled' \in 1..spoiled
                               /\ gp_context' = gp_context \/ spoiled' <= 2
BY DEF SpoilWeights, Spoil, Intact, MODEL_STATE_WEIGHTS_LOADED, MODEL_STATE_INFERENCE_DONE

LEMMA SpoilOfInput ==
    ASSUME spoiled \in 1..5, NEW status, SpoilInput(status)
    PROVE  /\ status = "OK" => spoiled' = IF 3 <= spoiled THEN 5 ELSE spoiled
           /\ status # "OK" => /\ spoiled' \in 1..spoiled
                               /\ \/ gp_model_inputs' \in {gp_model_inputs, NULL}
                                  \/ ~(gp_model_inputs'.views > 0)
                                  \/ spoiled' <= 3
BY DEF SpoilInput, Spoil, Intact, MODEL_STATE_INPUT_LOADED, MODEL_STATE_INFERENCE_DONE

LEMMA SpoilOfResult ==
    ASSUME spoiled \in 1..5, NEW status, SpoilResult(status)
    PROVE  /\ status = "OK" => spoiled' = IF 4 <= spoiled THEN 5 ELSE spoiled
           /\ status # "OK" => /\ spoiled' \in 1..spoiled
                               /\ gp_model_outputs = NULL \/ gp_model_outputs' # NULL
                                    \/ spoiled' <= 4
BY DEF SpoilResult, Spoil, Intact, MODEL_STATE_INFERENCE_DONE

\* What the parts of told are after an acknowledgement.
LEMMA ToldStruct ==
    ASSUME ToldType, NEW s \in Accepted, told' = [told EXCEPT !.struct = s], spoiled' \in 1..5
    PROVE  /\ ToldType'
           /\ told'.struct = s
           /\ UNCHANGED <<told.weights, told.data, told.result>>
BY DEF ToldType

LEMMA ToldWeights ==
    ASSUME ToldType, NEW blob \in Weights, told' = [told EXCEPT !.weights = blob],
           spoiled' \in 1..5
    PROVE  /\ ToldType'
           /\ told'.weights = blob
           /\ UNCHANGED <<told.struct, told.data, told.result>>
BY DEF ToldType

LEMMA ToldData ==
    ASSUME ToldType, NEW data \in Inputs, told' = [told EXCEPT !.data = data], spoiled' \in 1..5
    PROVE  /\ ToldType'
           /\ told'.data = data
           /\ UNCHANGED <<told.struct, told.weights, told.result>>
BY DEF ToldType

LEMMA ToldResult ==
    ASSUME ToldType, told' = [told EXCEPT !.result = ResultOfTold], spoiled' \in 1..5
    PROVE  /\ ToldType'
           /\ told'.result = [weights |-> told.weights, data |-> told.data]
           /\ UNCHANGED <<told.struct, told.weights, told.data>>
<1>1. ResultOfTold \in [weights : Weights \cup {NULL}, data : Inputs \cup {NULL}]
  BY DEF ToldType, ResultOfTold
<1> QED BY <1>1 DEF ToldType, ResultOfTold

----------------------------------------------------------------------------
(* The globals stay as told *)

LEMMA SameAsTold ==
    ASSUME GlobalsAsTold, UNCHANGED <<modelVars, told, spoiled>>
    PROVE  GlobalsAsTold'
BY DEF GlobalsAsTold, ToldType, StructTold, WeightsTold, InputsTold, ResultsTold, Stands,
   modelVars, wrapperVars

\* A refusal neither tells nor raises anything.
LEMMA RefusedStands ==
    ASSUME PromiseContext, UNCHANGED <<g_model_state, told>>, spoiled' \in 1..spoiled
    PROVE  /\ ToldType'
           /\ \A stage \in 1..4 : Stands(stage)' => Stands(stage)
<1>1. spoiled \in 1..5 /\ g_model_state \in 0..4
  BY Numbers
<1>2. spoiled' \in 1..5
  BY <1>1
<1>3. ToldType'
  BY <1>2 DEF PromiseContext, PromiseInv, GlobalsAsTold, ToldType
<1> QED BY <1>1, <1>2, <1>3 DEF Stands

LEMMA StructAsTold ==
    ASSUME PromiseContext, NEW s, NEW status, s \in Structs \cup {NULL},
           load_model_struct(s, s # NULL, status),
           Tell(status, [told EXCEPT !.struct = Parsed(s)]), SpoilStruct(status)
    PROVE  GlobalsAsTold'
<1>0. GlobalsAsTold /\ spoiled \in 1..5 /\ g_model_state \in 0..4
  BY Numbers DEF PromiseContext, PromiseInv
<1>1. UNCHANGED wrapperVars
  BY StructOutcome
<1>2. CASE status # "OK" /\ UNCHANGED g_model_state
  <2>1. told' = told
    BY <1>2 DEF Tell
  <2>2. spoiled' \in 1..spoiled /\ (g_model_struct' = g_model_struct \/ spoiled' <= 1)
    BY <1>0, <1>2, SpoilOfStruct
  <2>3. ToldType' /\ \A stage \in 1..4 : Stands(stage)' => Stands(stage)
    BY <1>2, <2>1, <2>2, RefusedStands
  <2>4. StructTold'
    BY <1>0, <2>1, <2>2, <2>3 DEF GlobalsAsTold, StructTold, Stands
  <2>5. WeightsTold' /\ InputsTold' /\ ResultsTold'
    BY <1>0, <1>1, <2>1, <2>3 DEF GlobalsAsTold, WeightsTold, InputsTold, ResultsTold, wrapperVars
  <2> QED BY <2>3, <2>4, <2>5 DEF GlobalsAsTold
<1>3. CASE /\ status = "OK"
           /\ g_model_state' = 1
           /\ g_model_struct' = Parsed(s) /\ Parsed(s) \in Accepted
  <2>1. told' = [told EXCEPT !.struct = Parsed(s)]
    BY <1>3 DEF Tell
  <2>2. spoiled' = 5
    BY <1>0, <1>3, SpoilOfStruct
  <2>3. /\ ToldType'
        /\ told'.struct = Parsed(s)
    BY <1>0, <1>3, <2>1, <2>2, ToldStruct DEF GlobalsAsTold
  <2>4. StructTold' /\ WeightsTold' /\ InputsTold' /\ ResultsTold'
    BY <1>3, <2>3 DEF StructTold, WeightsTold, InputsTold, ResultsTold, Stands
  <2> QED BY <2>3, <2>4 DEF GlobalsAsTold
<1>4. \/ status # "OK" /\ UNCHANGED g_model_state
      \/ /\ status = "OK"
         /\ g_model_state' = 1
         /\ g_model_struct' = Parsed(s) /\ Parsed(s) \in Accepted
  BY StructOutcome
<1> QED BY <1>2, <1>3, <1>4

LEMMA WeightsAsTold ==
    ASSUME PromiseContext, NEW blob \in Weights, NEW status,
           load_model_weights(blob, status),
           Tell(status, [told EXCEPT !.weights = blob]), SpoilWeights(status)
    PROVE  GlobalsAsTold'
<1>0. GlobalsAsTold /\ spoiled \in 1..5 /\ g_model_state \in 0..4
  BY Numbers DEF PromiseContext, PromiseInv
<1>1. UNCHANGED g_model_struct
  BY WeightsOutcome
<1>2. CASE status # "OK" /\ UNCHANGED g_model_state
           /\ (UNCHANGED modelVars \/ gp_context' = NULL)
  <2>1. told' = told
    BY <1>2 DEF Tell
  <2>2. spoiled' \in 1..spoiled /\ (gp_context' = gp_context \/ spoiled' <= 2)
    BY <1>0, <1>2, SpoilOfWeights
  <2>3. ToldType' /\ \A stage \in 1..4 : Stands(stage)' => Stands(stage)
    BY <1>2, <2>1, <2>2, RefusedStands
  <2>4. StructTold'
    BY <1>0, <1>1, <2>1, <2>3 DEF GlobalsAsTold, StructTold
  <2>5. CASE UNCHANGED modelVars
    BY <1>0, <2>1, <2>3, <2>4, <2>5
    DEF GlobalsAsTold, WeightsTold, InputsTold, ResultsTold, modelVars, wrapperVars
  <2>6. CASE gp_context' = NULL
    <3>1. ~Stands(2)'
      <4>1. SUFFICES ASSUME Stands(2)' PROVE FALSE
        OBVIOUS
      <4>2. gp_context # NULL
        BY <1>0, <2>3, <4>1 DEF GlobalsAsTold, WeightsTold
      <4> QED BY <2>2, <2>6, <4>1, <4>2 DEF Stands
    <3>2. ~Stands(3)' /\ ~Stands(4)'
      BY <1>0, <1>2, <2>2, <3>1 DEF Stands
    <3>3. WeightsTold' /\ InputsTold' /\ ResultsTold'
      BY <3>1, <3>2 DEF WeightsTold, InputsTold, ResultsTold
    <3> QED BY <2>3, <2>4, <3>3 DEF GlobalsAsTold
  <2> QED BY <1>2, <2>5, <2>6
<1>3. CASE /\ status = "OK"
           /\ g_model_state >= 1 /\ g_model_state' = 2
           /\ gp_context' = blob
           /\ gp_model_inputs' = NULL /\ gp_model_outputs' = NULL
  <2>1. told' = [told EXCEPT !.weights = blob]
    BY <1>3 DEF Tell
  <2>2. spoiled' = IF 2 <= spoiled THEN 5 ELSE spoiled
    BY <1>0, <1>3, SpoilOfWeights
  <2>3. spoiled' \in 1..5
    BY <1>0, <2>2
  <2>4. Stands(1)' => Stands(1)
    BY <1>0, <1>3, <2>2 DEF Stands
  <2>5. /\ ToldType'
        /\ told'.weights = blob
        /\ told'.struct = told.struct
    BY <1>0, <2>1, <2>3, ToldWeights DEF GlobalsAsTold
  <2>6. StructTold'
    BY <1>0, <1>1, <2>4, <2>5 DEF GlobalsAsTold, StructTold
  <2>7. WeightsTold'
    BY <1>3, <2>5, WrapperAssumption DEF WeightsTold
  <2>8. InputsTold' /\ ResultsTold'
    BY <1>3 DEF InputsTold, ResultsTold, Stands
  <2> QED BY <2>5, <2>6, <2>7, <2>8 DEF GlobalsAsTold
<1> QED BY <1>2, <1>3, WeightsOutcome DEF modelVars

LEMMA InputAsTold ==
    ASSUME PromiseContext, NEW data \in Inputs, NEW status,
           load_model_input(data, status),
           Tell(status, [told EXCEPT !.data = data]), SpoilInput(status)
    PROVE  GlobalsAsTold'
<1>0. GlobalsAsTold /\ spoiled \in 1..5 /\ g_model_state \in 0..4
  BY Numbers DEF PromiseContext, PromiseInv
<1>1. UNCHANGED <<g_model_struct, contextVars, gp_model_outputs>>
  BY InputOutcome
<1>2. CASE status # "OK" /\ UNCHANGED g_model_state
  <2>1. told' = told
    BY <1>2 DEF Tell
  <2>2. /\ spoiled' \in 1..spoiled
        /\ \/ gp_model_inputs' \in {gp_model_inputs, NULL}
           \/ ~(gp_model_inputs'.views > 0)
           \/ spoiled' <= 3
    BY <1>0, <1>2, SpoilOfInput
  <2>3. ToldType' /\ \A stage \in 1..4 : Stands(stage)' => Stands(stage)
    BY <1>2, <2>1, <2>2, RefusedStands
  <2>4. StructTold' /\ WeightsTold' /\ ResultsTold'
    BY <1>0, <1>1, <2>1, <2>3 DEF GlobalsAsTold, StructTold, WeightsTold, ResultsTold, contextVars
  <2>5. Stands(3)' => ~(spoiled' <= 3)
    BY <1>0, <2>2 DEF Stands
  <2>6. InputsTold'
    BY <1>0, <2>1, <2>2, <2>3, <2>5 DEF GlobalsAsTold, InputsTold
  <2> QED BY <2>3, <2>4, <2>6 DEF GlobalsAsTold
<1>3. CASE /\ status = "OK"
           /\ g_model_state >= 2 /\ g_model_state' = 3
           /\ spoiled > 1 => gp_model_inputs'.data = data
  <2>1. told' = [told EXCEPT !.data = data]
    BY <1>3 DEF Tell
  <2>2. spoiled' = IF 3 <= spoiled THEN 5 ELSE spoiled
    BY <1>0, <1>3, SpoilOfInput
  <2>3. spoiled' \in 1..5
    BY <1>0, <2>2
  <2>4. /\ Stands(1)' => Stands(1)
        /\ Stands(2)' => Stands(2)
        /\ Stands(3)' => spoiled > 1
        /\ ~Stands(4)'
    BY <1>0, <1>3, <2>2 DEF Stands
  <2>5. /\ ToldType'
        /\ told'.data = data
        /\ told'.struct = told.struct /\ told'.weights = told.weights
    BY <1>0, <2>1, <2>3, ToldData DEF GlobalsAsTold
  <2>6. StructTold' /\ WeightsTold'
    BY <1>0, <1>1, <2>4, <2>5 DEF GlobalsAsTold, StructTold, WeightsTold, contextVars
  <2>7. InputsTold' /\ ResultsTold'
    BY <1>3, <2>4, <2>5 DEF InputsTold, ResultsTold
  <2> QED BY <2>5, <2>6, <2>7 DEF GlobalsAsTold
<1> QED BY <1>2, <1>3, InputOutcome

LEMMA ListsAreThere ==
    /\ EmptyOutputs # NULL
    /\ \A w \in Weights, x \in Inputs \cup {NULL} :
          [weights |-> w, data |-> x, views |-> NumResults[w]] # NULL
<1>1. EmptyOutputs \in OutputList
  BY WrapperAssumption DEF EmptyOutputs, OutputList
<1>2. ASSUME NEW w \in Weights, NEW x \in Inputs \cup {NULL}
      PROVE  [weights |-> w, data |-> x, views |-> NumResults[w]] \in OutputList
  <2>1. NumResults[w] \in 0..MAX_MODEL_OUTPUTS
    BY WrapperAssumption
  <2> QED BY <2>1 DEF OutputList
<1> QED BY <1>1, <1>2, ListAssumption

LEMMA RunAsTold ==
    ASSUME PromiseContext, NEW status, run_model(status),
           Tell(status, [told EXCEPT !.result = ResultOfTold]), SpoilResult(status)
    PROVE  GlobalsAsTold'
<1>0. GlobalsAsTold /\ spoiled \in 1..5 /\ g_model_state \in 0..4
  BY Numbers DEF PromiseContext, PromiseInv
<1>1. UNCHANGED <<g_model_struct, contextVars, gp_model_inputs>>
  BY RunOutcome
<1>2. CASE /\ status # "OK" /\ UNCHANGED g_model_state
           /\ spoiled > 2 => \/ UNCHANGED gp_model_outputs
                             \/ gp_model_outputs' \in {NULL, EmptyOutputs}
  <2>1. told' = told
    BY <1>2 DEF Tell
  <2>2. /\ spoiled' \in 1..spoiled
        /\ gp_model_outputs = NULL \/ gp_model_outputs' # NULL \/ spoiled' <= 4
    BY <1>0, <1>2, SpoilOfResult
  <2>3. ToldType' /\ \A stage \in 1..4 : Stands(stage)' => Stands(stage)
    BY <1>2, <2>1, <2>2, RefusedStands
  <2>4. StructTold' /\ WeightsTold' /\ InputsTold'
    BY <1>0, <1>1, <2>1, <2>3 DEF GlobalsAsTold, StructTold, WeightsTold, InputsTold, contextVars
  <2>5. ASSUME Stands(4)'
        PROVE  /\ gp_model_outputs' # NULL
               /\ gp_model_outputs' \in {gp_model_outputs, EmptyOutputs}
    <3>1. spoiled > 2 /\ ~(spoiled' <= 4)
      BY <1>0, <2>2, <2>5 DEF Stands
    <3>2. gp_model_outputs # NULL
      BY <1>0, <2>3, <2>5 DEF GlobalsAsTold, ResultsTold
    <3> QED BY <1>2, <2>2, <3>1, <3>2
  <2>6. EmptyOutputs.views = 0
    BY DEF EmptyOutputs
  <2>7. ResultsTold'
    BY <1>0, <2>1, <2>3, <2>5, <2>6 DEF GlobalsAsTold, ResultsTold
  <2> QED BY <2>3, <2>4, <2>7 DEF GlobalsAsTold
<1>3. CASE /\ status = "OK"
           /\ g_model_state >= 3 /\ g_model_state' = 4
           /\ spoiled > 2 => /\ ArgumentsMatch
                             /\ gp_model_outputs' = [weights |-> gp_context,
                                                     data    |-> gp_model_inputs.data,
                                                     views   |-> NumResults[gp_context]]
  <2>1. told' = [told EXCEPT !.result = ResultOfTold]
    BY <1>3 DEF Tell
  <2>2. spoiled' = IF 4 <= spoiled THEN 5 ELSE spoiled
    BY <1>0, <1>3, SpoilOfResult
  <2>3. spoiled' \in 1..5
    BY <1>0, <2>2
  <2>4. /\ Stands(1)' => Stands(1)
        /\ Stands(2)' => Stands(2)
        /\ Stands(3)' => Stands(3)
        /\ Stands(4)' => spoiled > 2 /\ Stands(2) /\ Stands(3)
    BY <1>0, <1>3, <2>2 DEF Stands
  <2>5. /\ ToldType'
        /\ told'.result = [weights |-> told.weights, data |-> told.data]
        /\ UNCHANGED <<told.struct, told.weights, told.data>>
    BY <1>0, <2>1, <2>3, ToldResult DEF GlobalsAsTold
  <2>6. StructTold' /\ WeightsTold' /\ InputsTold'
    BY <1>0, <1>1, <2>4, <2>5 DEF GlobalsAsTold, StructTold, WeightsTold, InputsTold, contextVars
  <2>7. ASSUME Stands(4)'
        PROVE  /\ gp_model_outputs' # NULL
               /\ gp_model_outputs'.weights = told.weights
               /\ gp_model_outputs'.data = told.data
    <3>1. gp_context = told.weights /\ gp_context \in Weights
      BY <1>0, <2>4, <2>7 DEF GlobalsAsTold, WeightsTold, PromiseContext, ModelTypeOK,
         WrapperTypeOK
    <3>2. gp_model_inputs # NULL /\ gp_model_inputs.views = NumArgs[gp_context]
      BY <1>3, <2>4, <2>7 DEF ArgumentsMatch
    <3>3. gp_model_inputs.views > 0
      BY <3>1, <3>2, WrapperAssumption
    <3>4. gp_model_inputs.data = told.data
      BY <1>0, <2>4, <2>7, <3>2, <3>3 DEF GlobalsAsTold, InputsTold
    <3>5. gp_model_outputs' = [weights |-> gp_context, data |-> gp_model_inputs.data,
                               views |-> NumResults[gp_context]]
      BY <1>3, <2>4, <2>7
    <3>6. told.data \in Inputs \cup {NULL}
      BY <1>0 DEF GlobalsAsTold, ToldType
    <3> QED BY <3>1, <3>4, <3>5, <3>6, ListsAreThere
  <2>8. told'.result.weights = told.weights /\ told'.result.data = told.data
    BY <2>5
  <2>9. ResultsTold'
    BY <2>7, <2>8 DEF ResultsTold
  <2> QED BY <2>5, <2>6, <2>9 DEF GlobalsAsTold
<1> QED BY <1>2, <1>3, RunOutcome

LEMMA ResetAsTold ==
    ASSUME GlobalsAsTold, reset_model_state, UNCHANGED <<told, spoiled>>
    PROVE  GlobalsAsTold'
<1>1. g_model_state' = 0
  BY DEF reset_model_state, MODEL_STATE_UNINITIALIZED
<1>2. ToldType'
  BY DEF GlobalsAsTold, ToldType
<1> QED BY <1>1, <1>2 DEF GlobalsAsTold, StructTold, WeightsTold, InputsTold, ResultsTold, Stands

----------------------------------------------------------------------------
(* Every step keeps the globals as told *)

\* A refused input that replaced nothing spoils nothing.
LEMMA NothingSpoiled ==
    ASSUME NEW status, status # "OK", UNCHANGED gp_model_inputs, SpoilInput(status)
    PROVE  UNCHANGED spoiled
BY DEF SpoilInput, Spoil

\* What ReadInput does, with and without a sensor.
LEMMA ReadOutcome ==
    ASSUME ReadInput
    PROVE  /\ UNCHANGED msg
           /\ \/ /\ SensorData = {}
                 /\ pc' = "wait_for_message" /\ UNCHANGED <<modelVars, told, spoiled>>
              \/ /\ SensorData # {}
                 /\ pc' = "reset_model_state" /\ UNCHANGED <<modelVars, told, spoiled>>
              \/ /\ SensorData # {}
                 /\ \E data \in SensorData, status \in ModelStatus :
                      /\ load_model_input(data, status)
                      /\ Tell(status, [told EXCEPT !.data = data])
                      /\ SpoilInput(status)
                      /\ pc' = IF status = "OK" THEN "run_model" ELSE "reset_model_state"
<1>0. PICK status \in ReaderStatus, data \in SensorData \cup {NULL} :
         /\ data = NULL <=> SensorData = {}
         /\ read_input(data, status)
         /\ Goto(CASE status = "NO_READ" -> "wait_for_message"
                   [] status = "OK" -> "run_model"
                   [] OTHER -> "reset_model_state")
         /\ Tell(status, [told EXCEPT !.data = data])
         /\ SpoilInput(status)
  BY DEF ReadInput
<1>1. /\ status = "NO_READ" => pc' = "wait_for_message"
      /\ status = "OK" => pc' = "run_model"
      /\ status \notin {"NO_READ", "OK"} => pc' = "reset_model_state"
  BY <1>0 DEF Goto
<1>2. msg' = msg
  BY DEF ReadInput
<1>3. ASSUME UNCHANGED modelVars, status # "OK"
      PROVE  UNCHANGED <<modelVars, told, spoiled>>
  <2>1. UNCHANGED gp_model_inputs
    BY <1>3 DEF modelVars, wrapperVars
  <2>2. UNCHANGED spoiled
    BY <1>0, <1>3, <2>1, NothingSpoiled
  <2> QED BY <1>0, <1>3, <2>2 DEF Tell
<1>4. CASE SensorData = {}
  <2>1. status = "NO_READ" /\ UNCHANGED modelVars
    BY <1>0, <1>4 DEF read_input
  <2> QED BY <1>1, <1>2, <1>3, <1>4, <2>1
<1>5. CASE SensorData # {}
  <2>1. \/ status \in {"SENSOR_ERROR", "INV_ARG"} /\ UNCHANGED modelVars
        \/ load_model_input(data, status)
    BY <1>0, <1>5 DEF read_input
  <2>2. CASE status \in {"SENSOR_ERROR", "INV_ARG"} /\ UNCHANGED modelVars
    BY <1>1, <1>2, <1>3, <1>5, <2>2
  <2>3. CASE load_model_input(data, status)
    <3>1. status \in ModelStatus
      BY <2>3, LoadInputStatus
    <3>2. data \in SensorData
      BY <1>0, <1>5
    <3>3. status # "NO_READ"
      BY <3>1 DEF ModelStatus
    <3>4. pc' = IF status = "OK" THEN "run_model" ELSE "reset_model_state"
      BY <1>1, <3>3
    <3> QED BY <1>0, <1>2, <1>5, <2>3, <3>1, <3>2, <3>4
  <2> QED BY <2>1, <2>2, <2>3
<1> QED BY <1>4, <1>5

LEMMA HandleKeepsTold ==
    ASSUME PromiseContext, HandleMessage
    PROVE  GlobalsAsTold' /\ pc' \in {"read_input", "send_message"}
<1>0. msg \in Request /\ pc = "handle_message"
  BY DEF PromiseContext, BufferOk, HandleMessage, Handling, UnexpectedCallback, data_callback,
     model_callback, process_callback, output_callback, stats_callback, iospec_callback
<1>p. pc' \in {"read_input", "send_message"}
  BY DEF HandleMessage, UnexpectedCallback, data_callback, model_callback, process_callback,
     output_callback, stats_callback, iospec_callback, Respond, Goto
<1>1. CASE UnexpectedCallback \/ output_callback \/ stats_callback
  <2>1. UNCHANGED <<modelVars, told, spoiled>>
    BY <1>1 DEF UnexpectedCallback, output_callback, stats_callback, get_model_output,
       get_statistics
  <2> QED BY <1>p, <2>1, SameAsTold DEF PromiseContext, PromiseInv
<1>2. CASE data_callback
  <2>1. PICK status \in ModelStatus :
          /\ load_model_input(msg.payload, status)
          /\ Tell(status, [told EXCEPT !.data = msg.payload])
          /\ SpoilInput(status)
    BY <1>2 DEF data_callback
  <2>2. msg.payload \in Inputs
    BY <1>0, <1>2, PayloadType DEF data_callback, Handling
  <2> QED BY <1>p, <2>1, <2>2, InputAsTold
<1>3. CASE model_callback
  <2>1. PICK status \in ModelStatus :
          /\ load_model_weights(msg.payload, status)
          /\ Tell(status, [told EXCEPT !.weights = msg.payload])
          /\ SpoilWeights(status)
    BY <1>3 DEF model_callback
  <2>2. msg.payload \in Weights
    BY <1>0, <1>3, PayloadType DEF model_callback, Handling
  <2> QED BY <1>p, <2>1, <2>2, WeightsAsTold
<1>4. CASE process_callback
  <2>1. PICK status \in ModelStatus :
          /\ run_model(status)
          /\ Tell(status, [told EXCEPT !.result = ResultOfTold])
          /\ SpoilResult(status)
    BY <1>4 DEF process_callback
  <2> QED BY <1>p, <2>1, RunAsTold
<1>5. CASE iospec_callback
  <2>1. PICK status \in ModelStatus :
          /\ load_model_struct(msg.payload, msg.payload # NULL, status)
          /\ Tell(status, [told EXCEPT !.struct = Parsed(msg.payload)])
          /\ SpoilStruct(status)
    BY <1>5 DEF iospec_callback
  <2>2. msg.payload \in Structs \cup {NULL}
    BY <1>0, <1>5, PayloadType DEF iospec_callback, Handling
  <2>3. PICK s : s = msg.payload
    OBVIOUS
  <2>4. GlobalsAsTold'
    <3>1. s \in Structs \cup {NULL} /\ load_model_struct(s, s # NULL, status)
      BY <2>1, <2>2, <2>3
    <3>2. Tell(status, [told EXCEPT !.struct = Parsed(s)]) /\ SpoilStruct(status)
      BY <2>1, <2>3
    <3> QED BY <3>1, <3>2, StructAsTold
  <2> QED BY <1>p, <2>4
<1> QED BY <1>1, <1>2, <1>3, <1>4, <1>5 DEF HandleMessage

LEMMA PromiseStep ==
    ASSUME PromiseContext, [Next]_vars
    PROVE  PromiseInv'
<1>1. CASE UNCHANGED vars \/ Returned
  <2>1. UNCHANGED <<modelVars, told, spoiled>> /\ UNCHANGED pc
    BY <1>1 DEF vars, Returned
  <2> QED BY <2>1, SameAsTold DEF PromiseContext, PromiseInv, OnlyWithSensor
<1>2. CASE init_server \/ SkipRead \/ WaitInVain \/ WaitForMessage \/ SendMessage
  <2>1. UNCHANGED <<modelVars, told, spoiled>> /\ pc' \notin {"run_model", "reset_model_state"}
    BY <1>2 DEF init_server, SkipRead, WaitInVain, WaitForMessage, SendMessage, Goto
  <2> QED BY <2>1, SameAsTold DEF PromiseContext, PromiseInv, OnlyWithSensor
<1>3. CASE ReadInput
  <2>1. CASE /\ pc' = "wait_for_message" \/ SensorData # {}
             /\ UNCHANGED <<modelVars, told, spoiled>>
    BY <2>1, SameAsTold DEF PromiseContext, PromiseInv, OnlyWithSensor
  <2>2. CASE /\ SensorData # {}
             /\ \E data \in SensorData, status \in ModelStatus :
                  /\ load_model_input(data, status)
                  /\ Tell(status, [told EXCEPT !.data = data])
                  /\ SpoilInput(status)
    <3>1. GlobalsAsTold'
      BY <2>2, InputAsTold, RuntimeAssumption
    <3> QED BY <2>2, <3>1 DEF PromiseInv, OnlyWithSensor
  <2> QED BY <1>3, <2>1, <2>2, ReadOutcome
<1>4. CASE RunModel
  <2>0. SensorData # {}
    BY <1>4 DEF RunModel, PromiseContext, PromiseInv, OnlyWithSensor
  <2>1. CASE UNCHANGED <<modelVars, told, spoiled>>
    BY <2>0, <2>1, SameAsTold DEF PromiseContext, PromiseInv, OnlyWithSensor
  <2>2. CASE \E status \in ModelStatus :
               /\ run_model(status)
               /\ Tell(status, [told EXCEPT !.result = ResultOfTold])
               /\ SpoilResult(status)
    <3>1. GlobalsAsTold'
      BY <2>2, RunAsTold
    <3> QED BY <2>0, <3>1 DEF PromiseInv, OnlyWithSensor
  <2> QED BY <1>4, <2>1, <2>2 DEF RunModel
<1>5. CASE ResetModelState
  <2>1. GlobalsAsTold' /\ pc' = "wait_for_message"
    BY <1>5, ResetAsTold DEF ResetModelState, PromiseContext, PromiseInv, Goto
  <2> QED BY <2>1 DEF PromiseInv, OnlyWithSensor
<1>6. CASE HandleMessage
  BY <1>6, HandleKeepsTold DEF PromiseInv, OnlyWithSensor
<1> QED BY <1>1, <1>2, <1>3, <1>4, <1>5, <1>6 DEF Next

----------------------------------------------------------------------------
(* Every step is one the promise allows *)

LEMMA PromiseStarts == Init => Promise!Init
BY DEF Init, Promise!Init, ModelInit, MODEL_STATE_UNINITIALIZED, Intact,
   MODEL_STATE_INFERENCE_DONE

\* No reply is sent, and no session dropped, before or after a step between these.
Quiet == Labels \ {"send_message", "reset_model_state"}

\* Nothing the host could notice.
LEMMA PromiseStutters ==
    ASSUME UNCHANGED <<g_model_state, told, spoiled>>, pc \in Quiet, pc' \in Quiet
    PROVE  UNCHANGED Promise!vars
BY DEF Promise!vars, Quiet

\* A refusal takes back no stage.
LEMMA RefusalAllowed ==
    ASSUME pc = "handle_message", NEW status, status # "OK", NEW payload, Respond(status, payload),
           UNCHANGED <<g_model_state, told>>, spoiled' \in 1..spoiled
    PROVE  Promise!Next
<1>1. msg' = Promise!Error /\ pc' = "send_message"
  BY DEF Respond, Goto, failure_response, Promise!Error
<1>2. Promise!Answer(Promise!Error)
  BY <1>1 DEF Promise!Answer
<1> QED BY <1>1, <1>2 DEF Promise!Next, Promise!Refuse, Promise!MaySpoil, Promise!acknowledged

LEMMA AnswerAllowed ==
    ASSUME pc = "handle_message", NEW payload, Respond("OK", payload)
    PROVE  Promise!Answer(Promise!Ok(payload))
<1>1. msg' = Promise!Ok(payload) /\ pc' = "send_message"
  BY DEF Respond, Goto, success_response, Promise!Ok
<1> QED BY <1>1 DEF Promise!Answer

\* The stage the host has reached.
LEMMA ReachAllowed ==
    ASSUME NEW k \in 1..4, g_model_state' = k, pc' # "reset_model_state",
           spoiled' = IF k <= spoiled THEN 5 ELSE spoiled
    PROVE  Promise!Reach(k)
BY DEF Promise!Reach

LEMMA TakeStructAllowed ==
    ASSUME ToldType, NEW s \in Accepted, told' = [told EXCEPT !.struct = s],
           g_model_state' = 1, pc' # "reset_model_state",
           spoiled' = IF 1 <= spoiled THEN 5 ELSE spoiled
    PROVE  \E t \in Accepted : Promise!TakeStruct(t)
<1>1. Promise!Reach(1)
  BY ReachAllowed
<1>2. spoiled' \in 1..5
  BY DEF ToldType
<1> QED BY <1>1, <1>2, ToldStruct DEF Promise!TakeStruct

LEMMA TakeWeightsAllowed ==
    ASSUME ToldType, NEW blob \in Weights, told' = [told EXCEPT !.weights = blob],
           g_model_state >= 1, pc # "reset_model_state",
           g_model_state' = 2, pc' # "reset_model_state",
           spoiled' = IF 2 <= spoiled THEN 5 ELSE spoiled
    PROVE  Promise!TakeWeights(blob)
<1>1. Promise!Reach(2)
  BY ReachAllowed
<1>2. spoiled' \in 1..5
  BY DEF ToldType
<1> QED BY <1>1, <1>2, ToldWeights DEF Promise!TakeWeights

LEMMA TakeInputAllowed ==
    ASSUME ToldType, NEW data \in Inputs, told' = [told EXCEPT !.data = data],
           g_model_state >= 2, pc # "reset_model_state",
           g_model_state' = 3, pc' # "reset_model_state",
           spoiled' = IF 3 <= spoiled THEN 5 ELSE spoiled
    PROVE  Promise!TakeInput(data)
<1>1. Promise!Reach(3)
  BY ReachAllowed
<1>2. spoiled' \in 1..5
  BY DEF ToldType
<1> QED BY <1>1, <1>2, ToldData DEF Promise!TakeInput

LEMMA InferAllowed ==
    ASSUME ToldType, told' = [told EXCEPT !.result = ResultOfTold],
           g_model_state >= 3, pc # "reset_model_state",
           g_model_state' = 4, pc' # "reset_model_state",
           spoiled' = IF 4 <= spoiled THEN 5 ELSE spoiled
    PROVE  Promise!Infer
<1>1. Promise!Reach(4)
  BY ReachAllowed
<1>2. spoiled' \in 1..5
  BY DEF ToldType
<1> QED BY <1>1, <1>2, ToldResult DEF Promise!Infer

\* What is acknowledged is what was asked for.
LEMMA AcknowledgementAllowed ==
    ASSUME pc = "handle_message", Respond("OK", NULL),
           \/ \E s \in Accepted : Promise!TakeStruct(s)
           \/ \E w \in Weights : Promise!TakeWeights(w)
           \/ \E x \in Inputs : Promise!TakeInput(x)
           \/ Promise!Infer
    PROVE  Promise!Next
<1>1. Promise!Answer(Promise!Ok(NULL))
  BY AnswerAllowed
<1> QED BY <1>1 DEF Promise!Next, Promise!Acknowledge, Accepted

\* At INFERENCE_DONE an OUTPUT reply is cut from the result that was told, unless the
\* history says that it is spoiled.
LEMMA OutputAllowed ==
    ASSUME PromiseContext, output_callback
    PROVE  Promise!Next
<1>0. /\ pc = "handle_message" /\ UNCHANGED <<g_model_state, told, spoiled>>
      /\ g_model_state \in 0..4 /\ spoiled \in 1..5
  BY Numbers DEF output_callback, Handling, get_model_output, modelVars
<1>1. PICK status \in ModelStatus, result \in OutputList \cup {NULL} :
        get_model_output(status, result) /\ Respond(status, result)
  BY DEF output_callback
<1>2. CASE status # "OK"
  BY <1>0, <1>1, <1>2, RefusalAllowed
<1>3. CASE status = "OK"
  <2>1. /\ ~TooEarly(MODEL_STATE_INFERENCE_DONE)
        /\ \E got \in get_output(g_model_struct.num_output) :
              status = got.status /\ result = got.list
    BY <1>1, <1>3 DEF get_model_output
  <2>2. g_model_state = 4
    BY <1>0, <2>1 DEF TooEarly, MODEL_STATE_INFERENCE_DONE
  <2>3. Promise!Answer(Promise!Ok(result)) /\ pc' = "send_message"
    BY <1>0, <1>1, <1>3, AnswerAllowed DEF Respond, Goto
  <2>4. PICK got \in get_output(g_model_struct.num_output) :
            status = got.status /\ result = got.list
    BY <2>1
  <2>5. result \in OutputList
    <3>1. gp_model_outputs \in OutputList \cup {NULL}
      BY DEF PromiseContext, ModelTypeOK, WrapperTypeOK
    <3>2. CASE gp_model_outputs = NULL
      BY <2>4, <3>2 DEF get_output
    <3>3. CASE gp_model_outputs \in OutputList /\ gp_model_outputs # NULL
      <4>1. \/ got.status # "OK"
            \/ /\ g_model_struct.num_output <= gp_model_outputs.views
               /\ got = Outcome("OK", [gp_model_outputs EXCEPT !.views = g_model_struct.num_output])
        BY <2>4, <3>3 DEF get_output, IfFails, Outcome
      <4>2. got.status = "OK"
        BY <1>3, <2>4
      <4>3. g_model_struct.num_output \in Nat
        BY DEF PromiseContext, ModelTypeOK, MlModel
      <4>4. gp_model_outputs.views \in 0..MAX_MODEL_OUTPUTS
        BY <3>3 DEF OutputList
      <4>5. g_model_struct.num_output \in 0..MAX_MODEL_OUTPUTS
        BY <4>1, <4>2, <4>3, <4>4, WrapperAssumption
      <4>6. result = [gp_model_outputs EXCEPT !.views = g_model_struct.num_output]
        BY <2>4, <4>1, <4>2 DEF Outcome
      <4> QED BY <3>3, <4>5, <4>6 DEF OutputList
    <3> QED BY <3>1, <3>2, <3>3
  <2>6. CASE spoiled <= 4
    <3>1. Promise!GiveOutput
      BY <1>0, <2>2, <2>3, <2>5, <2>6 DEF Promise!GiveOutput, Promise!acknowledged
    <3> QED BY <3>1 DEF Promise!Next
  <2>7. CASE spoiled = 5
    <3>0. Stands(1) /\ Stands(4)
      BY <2>2, <2>7 DEF Stands
    <3>1. g_model_struct = told.struct /\ told.struct \in Accepted
      BY <3>0 DEF PromiseContext, PromiseInv, GlobalsAsTold, StructTold
    <3>2. told.struct.num_output >= 1 /\ told.struct.num_output \in Nat
      BY <3>1, AcceptedCounts, WrapperAssumption
    <3>3. gp_model_outputs # NULL
      BY <3>0 DEF PromiseContext, PromiseInv, GlobalsAsTold, ResultsTold
    <3>4. gp_model_outputs \in OutputList
      BY <3>3 DEF PromiseContext, ModelTypeOK, WrapperTypeOK
    <3>5. \/ got.status # "OK"
          \/ /\ told.struct.num_output <= gp_model_outputs.views
             /\ got = Outcome("OK", [gp_model_outputs EXCEPT !.views = told.struct.num_output])
      BY <2>4, <3>1, <3>3 DEF get_output, IfFails, Outcome
    <3>6. /\ told.struct.num_output <= gp_model_outputs.views
          /\ result = [gp_model_outputs EXCEPT !.views = told.struct.num_output]
      BY <1>3, <2>4, <3>5 DEF Outcome
    <3>7. gp_model_outputs.views \in Nat
      BY <3>4, WrapperAssumption DEF OutputList
    <3>8. gp_model_outputs.views > 0
      BY <3>2, <3>6, <3>7
    <3>9. /\ gp_model_outputs.weights = told.result.weights
          /\ gp_model_outputs.data = told.result.data
      BY <3>0, <3>8 DEF PromiseContext, PromiseInv, GlobalsAsTold, ResultsTold
    <3>10. result = [weights |-> told.result.weights, data |-> told.result.data,
                     views |-> told.struct.num_output]
      BY <3>4, <3>6, <3>9 DEF OutputList
    <3>11. Promise!GiveOutput
      BY <1>0, <2>2, <2>3, <3>10 DEF Promise!GiveOutput, Promise!acknowledged
    <3> QED BY <3>11 DEF Promise!Next
  <2> QED BY <1>0, <2>6, <2>7
<1> QED BY <1>2, <1>3

LEMMA StatisticsAllowed ==
    ASSUME PromiseContext, stats_callback
    PROVE  Promise!Next
<1>0. /\ pc = "handle_message" /\ UNCHANGED <<g_model_state, told, spoiled>>
      /\ spoiled \in 1..5
  BY Numbers DEF stats_callback, Handling, get_statistics, modelVars
<1>1. PICK status \in ModelStatus : get_statistics(status) /\ Respond(status, Statistics)
  BY DEF stats_callback
<1>2. CASE status # "OK"
  BY <1>0, <1>1, <1>2, RefusalAllowed
<1>3. CASE status = "OK"
  <2>1. g_model_state >= 2
    BY <1>1, <1>3, Numbers DEF get_statistics, TooEarly, MODEL_STATE_WEIGHTS_LOADED
  <2>2. Promise!Answer(Promise!Ok(Statistics)) /\ pc' = "send_message"
    BY <1>0, <1>1, <1>3, AnswerAllowed DEF Respond, Goto
  <2>3. Promise!GiveStatistics
    BY <1>0, <2>1, <2>2 DEF Promise!GiveStatistics, Promise!acknowledged
  <2> QED BY <2>3 DEF Promise!Next
<1> QED BY <1>2, <1>3

LEMMA RequestsAllowed ==
    ASSUME PromiseContext, data_callback \/ model_callback \/ process_callback \/ iospec_callback
    PROVE  Promise!Next
<1>0. pc = "handle_message" /\ msg \in Request
  BY DEF PromiseContext, BufferOk, Handling, data_callback, model_callback, process_callback,
     iospec_callback
<1>t. ToldType /\ g_model_state \in 0..4 /\ spoiled \in 1..5
  BY Numbers DEF PromiseContext, PromiseInv, GlobalsAsTold
<1>1. CASE data_callback
  <2>1. PICK status \in ModelStatus :
          /\ load_model_input(msg.payload, status)
          /\ Respond(status, NULL)
          /\ Tell(status, [told EXCEPT !.data = msg.payload])
          /\ SpoilInput(status)
    BY <1>1 DEF data_callback
  <2>2. msg.payload \in Inputs
    BY <1>0, <1>1, PayloadType DEF data_callback, Handling
  <2>3. \/ status # "OK" /\ UNCHANGED g_model_state
        \/ status = "OK" /\ g_model_state >= 2 /\ g_model_state' = 3
    BY <2>1, InputOutcome
  <2>4. pc' = "send_message"
    BY <2>1 DEF Respond, Goto
  <2>5. CASE status # "OK"
    <3>1. told' = told /\ spoiled' \in 1..spoiled
      BY <1>t, <2>1, <2>5, SpoilOfInput DEF Tell
    <3> QED BY <1>0, <2>1, <2>3, <2>5, <3>1, RefusalAllowed
  <2>6. CASE status = "OK"
    <3>1. told' = [told EXCEPT !.data = msg.payload]
      BY <2>1, <2>6 DEF Tell
    <3>2. spoiled' = IF 3 <= spoiled THEN 5 ELSE spoiled
      BY <1>t, <2>1, <2>6, SpoilOfInput
    <3>3. Promise!TakeInput(msg.payload)
      BY <1>0, <1>t, <2>2, <2>3, <2>4, <2>6, <3>1, <3>2, TakeInputAllowed
    <3> QED BY <1>0, <2>1, <2>2, <2>6, <3>3, AcknowledgementAllowed
  <2> QED BY <2>5, <2>6
<1>2. CASE model_callback
  <2>1. PICK status \in ModelStatus :
          /\ load_model_weights(msg.payload, status)
          /\ Respond(status, NULL)
          /\ Tell(status, [told EXCEPT !.weights = msg.payload])
          /\ SpoilWeights(status)
    BY <1>2 DEF model_callback
  <2>2. msg.payload \in Weights
    BY <1>0, <1>2, PayloadType DEF model_callback, Handling
  <2>3. \/ status # "OK" /\ UNCHANGED g_model_state
        \/ status = "OK" /\ g_model_state >= 1 /\ g_model_state' = 2
    BY <2>1, WeightsOutcome DEF modelVars
  <2>4. pc' = "send_message"
    BY <2>1 DEF Respond, Goto
  <2>5. CASE status # "OK"
    <3>1. told' = told /\ spoiled' \in 1..spoiled
      BY <1>t, <2>1, <2>5, SpoilOfWeights DEF Tell
    <3> QED BY <1>0, <2>1, <2>3, <2>5, <3>1, RefusalAllowed
  <2>6. CASE status = "OK"
    <3>1. told' = [told EXCEPT !.weights = msg.payload]
      BY <2>1, <2>6 DEF Tell
    <3>2. spoiled' = IF 2 <= spoiled THEN 5 ELSE spoiled
      BY <1>t, <2>1, <2>6, SpoilOfWeights
    <3>3. Promise!TakeWeights(msg.payload)
      BY <1>0, <1>t, <2>2, <2>3, <2>4, <2>6, <3>1, <3>2, TakeWeightsAllowed
    <3> QED BY <1>0, <2>1, <2>2, <2>6, <3>3, AcknowledgementAllowed
  <2> QED BY <2>5, <2>6
<1>3. CASE process_callback
  <2>1. PICK status \in ModelStatus :
          /\ run_model(status)
          /\ Respond(status, NULL)
          /\ Tell(status, [told EXCEPT !.result = ResultOfTold])
          /\ SpoilResult(status)
    BY <1>3 DEF process_callback
  <2>3. \/ status # "OK" /\ UNCHANGED g_model_state
        \/ status = "OK" /\ g_model_state >= 3 /\ g_model_state' = 4
    BY <2>1, RunOutcome
  <2>4. pc' = "send_message"
    BY <2>1 DEF Respond, Goto
  <2>5. CASE status # "OK"
    <3>1. told' = told /\ spoiled' \in 1..spoiled
      BY <1>t, <2>1, <2>5, SpoilOfResult DEF Tell
    <3> QED BY <1>0, <2>1, <2>3, <2>5, <3>1, RefusalAllowed
  <2>6. CASE status = "OK"
    <3>1. told' = [told EXCEPT !.result = ResultOfTold]
      BY <2>1, <2>6 DEF Tell
    <3>2. spoiled' = IF 4 <= spoiled THEN 5 ELSE spoiled
      BY <1>t, <2>1, <2>6, SpoilOfResult
    <3>3. Promise!Infer
      BY <1>0, <1>t, <2>3, <2>4, <2>6, <3>1, <3>2, InferAllowed
    <3> QED BY <1>0, <2>1, <2>6, <3>3, AcknowledgementAllowed
  <2> QED BY <2>5, <2>6
<1>4. CASE iospec_callback
  <2>1. PICK status \in ModelStatus :
          /\ load_model_struct(msg.payload, msg.payload # NULL, status)
          /\ Respond(status, NULL)
          /\ Tell(status, [told EXCEPT !.struct = Parsed(msg.payload)])
          /\ SpoilStruct(status)
    BY <1>4 DEF iospec_callback
  <2>2. PICK s : s = msg.payload
    OBVIOUS
  <2>3. s \in Structs \cup {NULL} /\ load_model_struct(s, s # NULL, status)
    BY <1>0, <1>4, <2>1, <2>2, PayloadType DEF iospec_callback, Handling
  <2>4. \/ status # "OK" /\ UNCHANGED g_model_state
        \/ status = "OK" /\ g_model_state' = 1 /\ Parsed(s) \in Accepted
    BY <2>3, StructOutcome
  <2>5. pc' = "send_message"
    BY <2>1 DEF Respond, Goto
  <2>6. CASE status # "OK"
    <3>1. told' = told /\ spoiled' \in 1..spoiled
      BY <1>t, <2>1, <2>6, SpoilOfStruct DEF Tell
    <3> QED BY <1>0, <2>1, <2>4, <2>6, <3>1, RefusalAllowed
  <2>7. CASE status = "OK"
    <3>1. told' = [told EXCEPT !.struct = Parsed(s)]
      BY <2>1, <2>2, <2>7 DEF Tell
    <3>2. spoiled' = IF 1 <= spoiled THEN 5 ELSE spoiled
      BY <1>t, <2>1, <2>7, SpoilOfStruct
    <3>3. \E t \in Accepted : Promise!TakeStruct(t)
      BY <1>t, <2>4, <2>5, <2>7, <3>1, <3>2, TakeStructAllowed
    <3> QED BY <1>0, <2>1, <2>7, <3>3, AcknowledgementAllowed
  <2> QED BY <2>6, <2>7
<1> QED BY <1>1, <1>2, <1>3, <1>4

\* What the board does by itself, it does only with a sensor.
LEMMA BoardAllowed ==
    ASSUME SensorData # {}, pc # "send_message", pc' # "send_message",
           \/ \E x \in SensorData : Promise!TakeInput(x)
           \/ Promise!Infer
           \/ pc' = "reset_model_state" /\ spoiled' \in 1..spoiled /\ UNCHANGED told
    PROVE  Promise!Next
BY DEF Promise!Next, Promise!Board, Promise!MaySpoil, MODEL_STATE_UNINITIALIZED

LEMMA StepAllowed ==
    ASSUME PromiseContext, [Next]_vars
    PROVE  [Promise!Next]_(Promise!vars)
<1>t. ToldType /\ g_model_state \in 0..4 /\ spoiled \in 1..5
  BY Numbers DEF PromiseContext, PromiseInv, GlobalsAsTold
<1>1. CASE UNCHANGED vars \/ Returned
  BY <1>1 DEF vars, Returned, modelVars, Promise!vars
<1>2. CASE init_server \/ SkipRead \/ WaitInVain \/ WaitForMessage \/ UnexpectedCallback
  <2>1. UNCHANGED <<g_model_state, told, spoiled>> /\ pc \in Quiet /\ pc' \in Quiet
    BY <1>2 DEF init_server, SkipRead, WaitInVain, WaitForMessage, UnexpectedCallback, Handling,
       Goto, modelVars, Quiet, Labels
  <2> QED BY <2>1, PromiseStutters
<1>3. CASE SendMessage
  <2>1. /\ pc = "send_message" /\ pc' = "read_input"
        /\ UNCHANGED <<g_model_state, told, spoiled>>
    BY <1>3 DEF SendMessage, Goto, modelVars
  <2>2. CASE msg = NULL
    BY <2>1, <2>2 DEF Promise!vars
  <2>3. CASE msg # NULL
    <3>1. Promise!Deliver
      BY <2>1, <2>3 DEF Promise!Deliver, Promise!acknowledged
    <3> QED BY <3>1 DEF Promise!Next
  <2> QED BY <2>2, <2>3
<1>4. CASE ReadInput
  <2>0. pc = "read_input"
    BY <1>4 DEF ReadInput
  <2>1. CASE pc' = "wait_for_message" /\ UNCHANGED <<modelVars, told, spoiled>>
    BY <2>0, <2>1, PromiseStutters DEF modelVars, Quiet, Labels
  <2>2. CASE /\ SensorData # {}
             /\ pc' = "reset_model_state" /\ UNCHANGED <<modelVars, told, spoiled>>
    <3>1. spoiled' \in 1..spoiled
      BY <1>t, <2>2
    <3> QED BY <2>0, <2>2, <3>1, BoardAllowed
  <2>3. CASE /\ SensorData # {}
             /\ \E data \in SensorData, status \in ModelStatus :
                  /\ load_model_input(data, status)
                  /\ Tell(status, [told EXCEPT !.data = data])
                  /\ SpoilInput(status)
                  /\ pc' = IF status = "OK" THEN "run_model" ELSE "reset_model_state"
    <3>1. PICK data \in SensorData, status \in ModelStatus :
                  /\ load_model_input(data, status)
                  /\ Tell(status, [told EXCEPT !.data = data])
                  /\ SpoilInput(status)
                  /\ pc' = IF status = "OK" THEN "run_model" ELSE "reset_model_state"
      BY <2>3
    <3>2. CASE status # "OK"
      <4>1. UNCHANGED told /\ spoiled' \in 1..spoiled /\ pc' = "reset_model_state"
        BY <1>t, <3>1, <3>2, SpoilOfInput DEF Tell
      <4> QED BY <2>0, <2>3, <4>1, BoardAllowed
    <3>3. CASE status = "OK"
      <4>1. data \in Inputs
        BY RuntimeAssumption
      <4>2. g_model_state >= 2 /\ g_model_state' = 3
        BY <3>1, <3>3, InputOutcome
      <4>3. spoiled' = IF 3 <= spoiled THEN 5 ELSE spoiled
        BY <1>t, <3>1, <3>3, SpoilOfInput
      <4>4. pc' = "run_model" /\ told' = [told EXCEPT !.data = data]
        BY <3>1, <3>3 DEF Tell
      <4>5. Promise!TakeInput(data)
        BY <1>t, <2>0, <4>1, <4>2, <4>3, <4>4, TakeInputAllowed
      <4> QED BY <2>0, <2>3, <4>4, <4>5, BoardAllowed
    <3> QED BY <3>2, <3>3
  <2> QED BY <1>4, <2>1, <2>2, <2>3, ReadOutcome
<1>5. CASE RunModel
  <2>0. pc = "run_model" /\ SensorData # {}
    BY <1>5 DEF RunModel, PromiseContext, PromiseInv, OnlyWithSensor
  <2>1. CASE Goto("wait_for_message") /\ UNCHANGED <<modelVars, told, spoiled>>
    BY <2>0, <2>1, PromiseStutters DEF modelVars, Goto, Quiet, Labels
  <2>2. CASE \E status \in ModelStatus :
               /\ run_model(status)
               /\ Goto(IF status = "OK" THEN "wait_for_message" ELSE "reset_model_state")
               /\ Tell(status, [told EXCEPT !.result = ResultOfTold])
               /\ SpoilResult(status)
    <3>1. PICK status \in ModelStatus :
               /\ run_model(status)
               /\ Goto(IF status = "OK" THEN "wait_for_message" ELSE "reset_model_state")
               /\ Tell(status, [told EXCEPT !.result = ResultOfTold])
               /\ SpoilResult(status)
      BY <2>2
    <3>2. CASE status # "OK"
      <4>1. UNCHANGED told /\ spoiled' \in 1..spoiled /\ pc' = "reset_model_state"
        BY <1>t, <3>1, <3>2, SpoilOfResult DEF Tell, Goto
      <4> QED BY <2>0, <4>1, BoardAllowed
    <3>3. CASE status = "OK"
      <4>1. g_model_state >= 3 /\ g_model_state' = 4
        BY <3>1, <3>3, RunOutcome
      <4>2. spoiled' = IF 4 <= spoiled THEN 5 ELSE spoiled
        BY <1>t, <3>1, <3>3, SpoilOfResult
      <4>3. pc' = "wait_for_message" /\ told' = [told EXCEPT !.result = ResultOfTold]
        BY <3>1, <3>3 DEF Tell, Goto
      <4>4. Promise!Infer
        BY <1>t, <2>0, <4>1, <4>2, <4>3, InferAllowed
      <4> QED BY <2>0, <4>3, <4>4, BoardAllowed
    <3> QED BY <3>2, <3>3
  <2> QED BY <1>5, <2>1, <2>2 DEF RunModel
<1>6. CASE ResetModelState
  <2>1. /\ pc = "reset_model_state" /\ pc' = "wait_for_message"
        /\ g_model_state' = MODEL_STATE_UNINITIALIZED /\ UNCHANGED <<told, spoiled>>
    BY <1>6 DEF ResetModelState, reset_model_state, Goto
  <2> QED BY <2>1 DEF Promise!vars
<1>7. CASE HandleMessage
  BY <1>2, <1>7, OutputAllowed, StatisticsAllowed, RequestsAllowed DEF HandleMessage
<1> QED BY <1>1, <1>2, <1>3, <1>4, <1>5, <1>6, <1>7 DEF Next

\* The initial globals are as told: nothing is loaded.
LEMMA PromiseInvStarts == Init => PromiseInv
<1> SUFFICES ASSUME Init PROVE PromiseInv
  OBVIOUS
<1>1. ToldType
  BY DEF Init, ToldType, Intact, MODEL_STATE_INFERENCE_DONE
<1>2. g_model_state = 0 /\ pc = "init_server"
  BY DEF Init, ModelInit, MODEL_STATE_UNINITIALIZED
<1> QED BY <1>1, <1>2 DEF PromiseInv, GlobalsAsTold, StructTold, WeightsTold, InputsTold,
   ResultsTold, Stands, OnlyWithSensor

(***************************************************************************)
(* Whatever a host sends and in whatever order, and whichever IREE call    *)
(* fails, the runtime keeps the promises of Session: it acknowledges only  *)
(* what took effect, a refusal takes back no stage, and it hands out only  *)
(* the result of the acknowledged weights on the acknowledged input,       *)
(* unless a refusal has spoiled a stage the host has not repeated since.   *)
(* Nothing is assumed of the faults or the structs.                        *)
(***************************************************************************)
THEOREM RuntimeKeepsPromise == Spec => KeepsPromise
<1>1. Init => Promise!Init /\ PromiseInv /\ BufferOk
  BY PromiseStarts, PromiseInvStarts DEF Init, BufferOk, Labels
<1>2. BufferOk /\ [Next]_vars => BufferOk'
  BY BufferStep
<1>3. ModelTypeOK /\ BufferOk /\ PromiseInv /\ [Next]_vars
          => PromiseInv' /\ [Promise!Next]_(Promise!vars)
  BY PromiseStep, StepAllowed DEF PromiseContext
<1> QED
  BY <1>1, <1>2, <1>3, RuntimeImplementsModel, ModelTypeCorrect, PTL
  DEF Spec, KeepsPromise, Promise!Spec

============================================================================
