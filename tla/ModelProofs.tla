---------------------------- MODULE ModelProofs ----------------------------
(***************************************************************************)
(* Theorems about the model component, for every set of models, inputs and *)
(* structs, every size of the arrays and every choice of IREE failures.    *)
(***************************************************************************)
EXTENDS Model, TLAPS

\* The inductive invariant: each part is one of the properties of Model, and
\* each needs the others only through the types.
ModelInv ==
    /\ ModelTypeOK
    /\ ContextWhole
    /\ DeviceBehindState
    /\ ResultsOfContext
    /\ NoResultBeforeInput

\* The initial state of all globals satisfies the invariant.
LEMMA ModelInitInv == ModelInit => ModelInv
<1> SUFFICES ASSUME ModelInit PROVE ModelInv
  OBVIOUS
<1>1. WrapperTypeOK
  BY DEF ModelInit, WrapperInit, WrapperTypeOK
<1> g_model_state = MODEL_STATE_UNINITIALIZED
  BY DEF ModelInit
<1>2. g_model_struct \in MlModel
  <2>1. "NONE" \in HalElementTypes
    BY DEF HalElementTypes
  <2>2. [i \in 1..MAX_MODEL_INPUT_NUM |-> 0] \in [1..MAX_MODEL_INPUT_NUM -> Nat]
    OBVIOUS
  <2> QED
    BY <2>1, <2>2 DEF ModelInit, MlModel
<1>3. g_model_state \in MODEL_STATE_UNINITIALIZED..MODEL_STATE_INFERENCE_DONE
  BY DEF MODEL_STATE_UNINITIALIZED, MODEL_STATE_INFERENCE_DONE
<1>4. ContextWhole
  BY DEF ModelInit, WrapperInit, ContextWhole
<1>5. DeviceBehindState /\ NoResultBeforeInput
  BY DEF DeviceBehindState, NoResultBeforeInput,
         MODEL_STATE_UNINITIALIZED, MODEL_STATE_WEIGHTS_LOADED
<1>6. ResultsOfContext
  BY DEF ModelInit, WrapperInit, ResultsOfContext
<1> QED
  BY <1>1, <1>2, <1>3, <1>4, <1>5, <1>6 DEF ModelInv, ModelTypeOK

----------------------------------------------------------------------------
(* What the calls of the wrapper return *)

\* Whatever fails, prepare_input_buffer leaves no list or one that fits.
LEMMA InputListType ==
    ASSUME NEW num \in Nat, NEW data \in Inputs,
           NEW made \in prepare_input_buffer(NULL, num, data)
    PROVE  made.list \in InputList \cup {NULL}
<1>1. CASE num > MAX_MODEL_INPUT_NUM
  BY <1>1 DEF prepare_input_buffer
<1>2. CASE ~(num > MAX_MODEL_INPUT_NUM)
  <2>1. \A n \in 0..num : [data |-> data, views |-> n] \in InputList
    BY <1>2, WrapperAssumption DEF InputList
  <2>2. num \in 0..num /\ 0 \in 0..num /\ 0..(num - 1) \subseteq 0..num
    OBVIOUS
  <2> QED
    BY <1>2, <2>1, <2>2 DEF prepare_input_buffer, IfFails, Outcome
<1> QED
  BY <1>1, <1>2

\* A result list holds nothing, or results of the context it was computed by.
ResultsOk(list) ==
    /\ list \in OutputList \cup {NULL}
    /\ gp_context # NULL /\ list # NULL /\ list.views > 0 => list.weights = gp_context

LEMMA OutputListOk ==
    ASSUME ModelTypeOK,
           NEW made \in prepare_output_buffer(NULL),
           NEW done \in IF made.status = "OK" THEN run_inference(made.list) ELSE {made}
    PROVE  ResultsOk(done.list)
<1>1. EmptyOutputs \in OutputList /\ EmptyOutputs.views = 0
  BY WrapperAssumption DEF EmptyOutputs, OutputList
<1>2. ResultsOk(EmptyOutputs) /\ ResultsOk(NULL)
  BY <1>1 DEF ResultsOk
<1>3. made = Outcome("OK", EmptyOutputs) \/ made = Outcome("IREE_ERROR", NULL)
  BY DEF prepare_output_buffer, IfFails
<1>4. CASE made = Outcome("IREE_ERROR", NULL)
  BY <1>2, <1>4 DEF Outcome
<1>5. CASE made = Outcome("OK", EmptyOutputs)
  <2>1. done \in run_inference(EmptyOutputs)
    BY <1>5 DEF Outcome
  <2>2. CASE gp_context = NULL
    BY <2>1, <2>2 DEF run_inference, ResultsOk
  <2>3. CASE gp_context # NULL
    <3>1. \/ done = Outcome("IREE_ERROR", EmptyOutputs)
          \/ /\ ArgumentsMatch
             /\ done = Outcome("OK", [weights |-> gp_context,
                                     data    |-> gp_model_inputs.data,
                                     views   |-> NumResults[gp_context]])
      BY <2>1, <2>3 DEF run_inference, IfFails
    <3>2. ASSUME ArgumentsMatch
          PROVE  [weights |-> gp_context, data |-> gp_model_inputs.data,
                  views |-> NumResults[gp_context]] \in OutputList
      <4>1. gp_model_inputs \in InputList
        BY <3>2 DEF ArgumentsMatch, ModelTypeOK, WrapperTypeOK
      <4>2. gp_context \in Weights
        BY <2>3 DEF ModelTypeOK, WrapperTypeOK
      <4>3. NumResults[gp_context] \in 0..MAX_MODEL_OUTPUTS
        BY <4>2, WrapperAssumption
      <4> QED
        BY <4>1, <4>2, <4>3 DEF InputList, OutputList
    <3> QED
      BY <1>2, <3>1, <3>2 DEF Outcome, ResultsOk
  <2> QED
    BY <2>2, <2>3
<1> QED
  BY <1>3, <1>4, <1>5

----------------------------------------------------------------------------
(* Every operation preserves the invariant *)

LEMMA StutterInv == ModelInv /\ UNCHANGED modelVars => ModelInv'
BY DEF ModelInv, ModelTypeOK, WrapperTypeOK, ContextWhole, DeviceBehindState,
       ResultsOfContext, NoResultBeforeInput, modelVars, wrapperVars

\* Storing a struct touches no handle; accepting it lowers the state to
\* STRUCT_LOADED, or raises it there from UNINITIALIZED.
LEMMA StructInv ==
    ASSUME ModelInv, NEW s, NEW complete, NEW status,
           complete => s \in Structs,
           load_model_struct(s, complete, status)
    PROVE  ModelInv'
<1>1. g_model_state' \in {g_model_state, MODEL_STATE_STRUCT_LOADED}
  BY DEF load_model_struct
<1>2. g_model_struct' \in MlModel
  <2>1. CASE g_model_struct' = g_model_struct
    BY <2>1 DEF ModelInv, ModelTypeOK
  <2>2. CASE g_model_struct' = s /\ complete
    BY <2>2, ModelAssumption
  <2>3. CASE g_model_struct' = Parsed(s) /\ complete /\ HasKnownType(s)
    <3>1. s \in MlModel
      BY <2>3, ModelAssumption
    <3>2. IREE_HAL_ELEMENT_TYPES[s.hal_element_type] \in HalElementTypes
      BY <2>3 DEF HasKnownType, HalElementTypes
    <3> QED
      BY <2>3, <3>1, <3>2 DEF Parsed, MlModel
  <2> QED
    BY <2>1, <2>2, <2>3 DEF load_model_struct
<1>3. UNCHANGED wrapperVars
  BY DEF load_model_struct
<1>4. ModelTypeOK'
  BY <1>1, <1>2, <1>3 DEF ModelInv, ModelTypeOK, WrapperTypeOK, wrapperVars,
     MODEL_STATE_UNINITIALIZED, MODEL_STATE_STRUCT_LOADED, MODEL_STATE_INFERENCE_DONE
<1> QED
  BY <1>1, <1>3, <1>4 DEF ModelInv, ContextWhole, DeviceBehindState, ResultsOfContext,
     NoResultBeforeInput, wrapperVars, MODEL_STATE_STRUCT_LOADED, MODEL_STATE_WEIGHTS_LOADED

\* Both outcomes of create_context leave the context whole and keep the device.
LEMMA CreateContextWhole ==
    ASSUME ModelInv, NEW blob \in Weights, NEW status, create_context(blob, status)
    PROVE  /\ ContextWhole'
           /\ gp_instance' \in {"instance", NULL}
           /\ gp_device' \in {"device", NULL}
           /\ gp_context' \in Weights \cup {NULL}
           /\ gp_model_weights' \in Weights \cup {NULL}
           /\ gp_device # NULL \/ status = "OK" => gp_device' # NULL
<1>1. CASE status = "OK" /\ context_created(blob)
  BY <1>1, WrapperAssumption DEF context_created, ContextWhole
<1>2. CASE status = "IREE_ERROR" /\ \E i \in DOMAIN ContextCalls : context_failed(i)
  <2>1. PICK i \in DOMAIN ContextCalls : context_failed(i)
    BY <1>2
  <2>2. gp_device' \in {"device", gp_device}
    BY <2>1 DEF context_failed
  <2>3. gp_context' = NULL /\ gp_instance' = NULL /\ gp_model_weights' = NULL
    BY <2>1 DEF context_failed, release_context
  <2> QED
    BY <1>2, <2>2, <2>3, WrapperAssumption
    DEF ContextWhole, ModelInv, ModelTypeOK, WrapperTypeOK
<1> QED
  BY <1>1, <1>2 DEF create_context

LEMMA WeightsInv ==
    ASSUME ModelInv, NEW blob \in Weights, NEW status, load_model_weights(blob, status)
    PROVE  ModelInv'
<1>1. CASE UNCHANGED modelVars
  BY <1>1, StutterInv
<1>2. CASE /\ ~TooEarly(MODEL_STATE_STRUCT_LOADED)
           /\ gp_model_outputs' = NULL
           /\ gp_model_inputs' = NULL
           /\ create_context(blob, status)
           /\ g_model_state' = IF status = "OK" THEN MODEL_STATE_WEIGHTS_LOADED
                                                ELSE g_model_state
           /\ UNCHANGED g_model_struct
  <2>1. /\ ContextWhole'
        /\ gp_instance' \in {"instance", NULL}
        /\ gp_device' \in {"device", NULL}
        /\ gp_context' \in Weights \cup {NULL}
        /\ gp_model_weights' \in Weights \cup {NULL}
        /\ gp_device # NULL \/ status = "OK" => gp_device' # NULL
    BY <1>2, CreateContextWhole
  <2>2. ModelTypeOK'
    BY <1>2, <2>1 DEF ModelInv, ModelTypeOK, WrapperTypeOK, MODEL_STATE_UNINITIALIZED,
       MODEL_STATE_WEIGHTS_LOADED, MODEL_STATE_INFERENCE_DONE
  <2>3. DeviceBehindState'
    BY <1>2, <2>1 DEF ModelInv, ModelTypeOK, TooEarly, DeviceBehindState,
       MODEL_STATE_STRUCT_LOADED, MODEL_STATE_WEIGHTS_LOADED
  <2>4. ResultsOfContext' /\ NoResultBeforeInput'
    BY <1>2 DEF ResultsOfContext, NoResultBeforeInput
  <2> QED
    BY <2>1, <2>2, <2>3, <2>4 DEF ModelInv
<1> QED
  BY <1>1, <1>2 DEF load_model_weights, release_input_buffer, release_output_buffer

LEMMA InputInv ==
    ASSUME ModelInv, NEW data \in Inputs, NEW status, load_model_input(data, status)
    PROVE  ModelInv'
<1>1. CASE UNCHANGED modelVars
  BY <1>1, StutterInv
<1>2. CASE /\ ~TooEarly(MODEL_STATE_WEIGHTS_LOADED)
           /\ \E made \in prepare_input_buffer(NULL, g_model_struct.num_input, data) :
                 /\ status = made.status
                 /\ gp_model_inputs' = made.list
           /\ g_model_state' = IF status = "OK" THEN MODEL_STATE_INPUT_LOADED
                                                ELSE g_model_state
           /\ UNCHANGED <<g_model_struct, contextVars, gp_model_outputs>>
  <2>1. g_model_struct.num_input \in Nat
    BY DEF ModelInv, ModelTypeOK, MlModel
  <2>2. gp_model_inputs' \in InputList \cup {NULL}
    BY <1>2, <2>1, InputListType
  <2>3. ModelTypeOK'
    BY <1>2, <2>2 DEF ModelInv, ModelTypeOK, WrapperTypeOK, contextVars,
       MODEL_STATE_UNINITIALIZED, MODEL_STATE_INPUT_LOADED, MODEL_STATE_INFERENCE_DONE
  <2>4. ContextWhole' /\ ResultsOfContext'
    BY <1>2 DEF ModelInv, ContextWhole, ResultsOfContext, contextVars
  <2>5. DeviceBehindState' /\ NoResultBeforeInput'
    BY <1>2 DEF ModelInv, ModelTypeOK, TooEarly, DeviceBehindState, NoResultBeforeInput,
       contextVars, MODEL_STATE_UNINITIALIZED, MODEL_STATE_WEIGHTS_LOADED,
       MODEL_STATE_INPUT_LOADED, MODEL_STATE_INFERENCE_DONE
  <2> QED
    BY <2>3, <2>4, <2>5 DEF ModelInv
<1> QED
  BY <1>1, <1>2 DEF load_model_input

LEMMA RunInv ==
    ASSUME ModelInv, NEW status, run_model(status)
    PROVE  ModelInv'
<1>1. CASE UNCHANGED modelVars
  BY <1>1, StutterInv
<1>2. CASE /\ ~TooEarly(MODEL_STATE_INPUT_LOADED)
           /\ \E made \in prepare_output_buffer(NULL) :
              \E done \in IF made.status = "OK" THEN run_inference(made.list) ELSE {made} :
                 /\ status = done.status
                 /\ gp_model_outputs' = done.list
           /\ g_model_state' = IF status = "OK" THEN MODEL_STATE_INFERENCE_DONE
                                                ELSE g_model_state
           /\ UNCHANGED <<g_model_struct, contextVars, gp_model_inputs>>
  <2>1. ResultsOk(gp_model_outputs')
    BY <1>2, OutputListOk DEF ModelInv
  <2>2. ModelTypeOK'
    BY <1>2, <2>1 DEF ModelInv, ModelTypeOK, WrapperTypeOK, contextVars, ResultsOk,
       MODEL_STATE_UNINITIALIZED, MODEL_STATE_INFERENCE_DONE
  <2>3. ContextWhole' /\ ResultsOfContext'
    BY <1>2, <2>1 DEF ModelInv, ContextWhole, ResultsOfContext, ResultsOk, contextVars
  <2>4. DeviceBehindState' /\ NoResultBeforeInput'
    BY <1>2 DEF ModelInv, ModelTypeOK, TooEarly, DeviceBehindState, NoResultBeforeInput,
       contextVars,
       MODEL_STATE_UNINITIALIZED, MODEL_STATE_WEIGHTS_LOADED, MODEL_STATE_INPUT_LOADED,
       MODEL_STATE_INFERENCE_DONE
  <2> QED
    BY <2>2, <2>3, <2>4 DEF ModelInv
<1> QED
  BY <1>1, <1>2 DEF run_model

LEMMA ResetInv == ModelInv /\ reset_model_state => ModelInv'
<1> SUFFICES ASSUME ModelInv, reset_model_state PROVE ModelInv'
  OBVIOUS
<1>1. g_model_state' = MODEL_STATE_UNINITIALIZED /\ UNCHANGED <<g_model_struct, wrapperVars>>
  BY DEF reset_model_state
<1>2. ModelTypeOK'
  BY <1>1 DEF ModelInv, ModelTypeOK, WrapperTypeOK, wrapperVars,
     MODEL_STATE_UNINITIALIZED, MODEL_STATE_INFERENCE_DONE
<1> QED
  BY <1>1, <1>2 DEF ModelInv, ContextWhole, DeviceBehindState, ResultsOfContext,
     NoResultBeforeInput, wrapperVars, MODEL_STATE_UNINITIALIZED, MODEL_STATE_WEIGHTS_LOADED

LEMMA ModelNextInv == ModelInv /\ [ModelNext]_modelVars => ModelInv'
<1> SUFFICES ASSUME ModelInv, [ModelNext]_modelVars PROVE ModelInv'
  OBVIOUS
<1>1. CASE UNCHANGED modelVars
  BY <1>1, StutterInv
<1>2. CASE ModelNext
  <2>1. PICK status \in ModelStatus :
          \/ \E s \in Structs, complete \in BOOLEAN : load_model_struct(s, complete, status)
          \/ \E blob \in Weights : load_model_weights(blob, status)
          \/ \E data \in Inputs : load_model_input(data, status)
          \/ run_model(status)
          \/ reset_model_state
    BY <1>2 DEF ModelNext
  <2>2. CASE \E s \in Structs, complete \in BOOLEAN : load_model_struct(s, complete, status)
    BY <2>2, StructInv
  <2>3. CASE \E blob \in Weights : load_model_weights(blob, status)
    BY <2>3, WeightsInv
  <2>4. CASE \E data \in Inputs : load_model_input(data, status)
    BY <2>4, InputInv
  <2>5. CASE run_model(status)
    BY <2>5, RunInv
  <2>6. CASE reset_model_state
    BY <2>6, ResetInv
  <2> QED
    BY <2>1, <2>2, <2>3, <2>4, <2>5, <2>6
<1> QED
  BY <1>1, <1>2

----------------------------------------------------------------------------
(* Theorems *)

\* The invariant holds in every reachable state of the component.
THEOREM ModelInvariant == ModelSpec => []ModelInv
BY ModelInitInv, ModelNextInv, PTL DEF ModelSpec

\* Every global of model.c and iree_wrapper.c keeps its type.
THEOREM ModelTypeCorrect == ModelSpec => []ModelTypeOK
<1>1. ModelInv => ModelTypeOK
  BY DEF ModelInv
<1> QED
  BY <1>1, ModelInvariant, PTL

\* Whichever IREE call fails, context, instance and weights are there together
\* or not at all, and the context executes the weights that are held.
THEOREM ContextIsWhole == ModelSpec => []ContextWhole
<1>1. ModelInv => ContextWhole
  BY DEF ModelInv
<1> QED
  BY <1>1, ModelInvariant, PTL

\* The model state never vouches for a device that does not exist, so
\* get_model_stats and the input buffers always have one to use.
THEOREM DeviceIsBehindState == ModelSpec => []DeviceBehindState
<1>1. ModelInv => DeviceBehindState
  BY DEF ModelInv
<1> QED
  BY <1>1, ModelInvariant, PTL

\* Results that a live context could hand out are its own.
THEOREM ResultsAreOfContext == ModelSpec => []ResultsOfContext
<1>1. ModelInv => ResultsOfContext
  BY DEF ModelInv
<1> QED
  BY <1>1, ModelInvariant, PTL

\* A model whose weights were just loaded has no result to hand out.
THEOREM NoResultComesBeforeInput == ModelSpec => []NoResultBeforeInput
<1>1. ModelInv => NoResultBeforeInput
  BY DEF ModelInv
<1> QED
  BY <1>1, ModelInvariant, PTL

\* The raise in state an operation makes, if any, is one stage.
LEMMA StageStep ==
    ModelTypeOK /\ [ModelNext]_modelVars
        => [g_model_state' > g_model_state => g_model_state' = g_model_state + 1]_modelVars
<1> SUFFICES ASSUME ModelTypeOK, ModelNext, g_model_state' > g_model_state
             PROVE  g_model_state' = g_model_state + 1
  OBVIOUS
<1>0. g_model_state \in 0..4
  BY DEF ModelTypeOK, MODEL_STATE_UNINITIALIZED, MODEL_STATE_INFERENCE_DONE
<1>1. PICK status \in ModelStatus :
        \/ \E s \in Structs, complete \in BOOLEAN : load_model_struct(s, complete, status)
        \/ \E blob \in Weights : load_model_weights(blob, status)
        \/ \E data \in Inputs : load_model_input(data, status)
        \/ run_model(status)
        \/ reset_model_state
  BY DEF ModelNext
<1>2. ASSUME NEW s \in Structs, NEW complete \in BOOLEAN, load_model_struct(s, complete, status)
      PROVE  g_model_state' = g_model_state + 1
  BY <1>0, <1>2 DEF load_model_struct, MODEL_STATE_STRUCT_LOADED
<1>3. ASSUME NEW blob \in Weights, load_model_weights(blob, status)
      PROVE  g_model_state' = g_model_state + 1
  BY <1>0, <1>3 DEF load_model_weights, TooEarly, modelVars, MODEL_STATE_STRUCT_LOADED,
     MODEL_STATE_WEIGHTS_LOADED
<1>4. ASSUME NEW data \in Inputs, load_model_input(data, status)
      PROVE  g_model_state' = g_model_state + 1
  BY <1>0, <1>4 DEF load_model_input, TooEarly, modelVars, MODEL_STATE_WEIGHTS_LOADED,
     MODEL_STATE_INPUT_LOADED
<1>5. CASE run_model(status)
  BY <1>0, <1>5 DEF run_model, TooEarly, modelVars, MODEL_STATE_INPUT_LOADED, MODEL_STATE_INFERENCE_DONE
<1>6. CASE reset_model_state
  BY <1>0, <1>6 DEF reset_model_state, MODEL_STATE_UNINITIALIZED
<1> QED
  BY <1>1, <1>2, <1>3, <1>4, <1>5, <1>6

\* No call can take a model past a stage it has not been through.
THEOREM NoStageIsSkipped == ModelSpec => NoStageSkipped
<1>1. ModelSpec => [][ModelNext]_modelVars
  BY DEF ModelSpec
<1> QED
  BY <1>1, ModelTypeCorrect, StageStep, PTL DEF NoStageSkipped

============================================================================
