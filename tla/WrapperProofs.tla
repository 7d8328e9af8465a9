---------------------------- MODULE WrapperProofs ----------------------------
(***************************************************************************)
(* Theorems about WrapperCalls, for every set of models and inputs, every  *)
(* size of the lists and every choice and number of failing IREE calls.    *)
(***************************************************************************)
EXTENDS WrapperCalls, TLAPS

IsSet(p) == global[p] # NULL

\* A record of the globals, by their names.
Typed(g) ==
    /\ g = [p \in Globals |-> g[p]]
    /\ g["gp_instance"] \in {"instance", NULL}
    /\ g["gp_device"] \in {"device", NULL}
    /\ g["gp_context"] \in Weights \cup {NULL}
    /\ g["gp_model_weights"] \in Weights \cup {NULL}
    /\ g["gp_model_inputs"] \in InputLists \cup {NULL}
    /\ g["gp_model_outputs"] \in ResultLists \cup {NULL}

LEMMA TypedHandles == \A g : Typed(g) <=> g \in Handles
<1> TAKE g
<1>1. ASSUME Typed(g) PROVE g \in Handles
  <2>1. g = [gp_instance |-> g["gp_instance"], gp_device |-> g["gp_device"],
             gp_context |-> g["gp_context"], gp_model_weights |-> g["gp_model_weights"],
             gp_model_inputs |-> g["gp_model_inputs"], gp_model_outputs |-> g["gp_model_outputs"]]
    BY <1>1 DEF Typed, Globals
  <2> QED BY <1>1, <2>1 DEF Typed, Handles
<1>2. ASSUME g \in Handles PROVE Typed(g)
  BY <1>2 DEF Typed, Handles, Globals
<1> QED BY <1>1, <1>2

\* What an assignment to one of the globals does.
LEMMA Assignment ==
    ASSUME Typed(global), NEW p \in Globals, NEW value, Assigned(p, value)
    PROVE  /\ global' = [q \in Globals |-> global'[q]]
           /\ global'[p] = value
           /\ \A q \in Globals : q # p => global'[q] = global[q]
  BY DEF Typed, Assigned, Globals

\* What retains what.
LEMMA RetainedIs ==
    ASSUME NEW S, NEW x
    PROVE  x \in RetainedBy(S) <=>
               \/ "gp_device" \in S /\ x \in {"loader", "device_allocator"}
               \/ "hal_module" \in S /\ x = "gp_device"
               \/ "gp_context" \in S /\ x \in {"module", "hal_module"}
<1>1. /\ DOMAIN Retains = {"gp_device", "hal_module", "gp_context"}
      /\ Retains["gp_device"] = {"loader", "device_allocator"}
      /\ Retains["hal_module"] = {"gp_device"}
      /\ Retains["gp_context"] = {"module", "hal_module"}
  BY DEF Retains
<1>2. x \in RetainedBy(S) <=> \E o \in S \cap DOMAIN Retains : x \in Retains[o]
  BY DEF RetainedBy
<1> QED BY <1>1, <1>2

----------------------------------------------------------------------------
(* The inductive invariant *)

\* Stages of create_context: what is released, and what is created.
Creating == {"register types", "loader", "device_allocator", "gp_device",
             "release loader", "release allocator", "module", "hal_module", "gp_context"}
ContextGone == {"release instance", "free weights", "copy weights", "gp_instance"}
CleaningUp == {"cleanup", "release module", "cleaned up", "release context"}
OfContext == Creating \cup ContextGone \cup CleaningUp
OfInput == {"input list", "view", "push view"}
OfOutput == {"get result", "map result", "copy result"}
Stages == OfContext \cup OfInput \cup OfOutput
          \cup {"idle", "output list", "resolve", "invoke"}

\* What the program owns, pointer by pointer.
OwnInv ==
    /\ owned \subseteq Globals \cup Locals
    /\ \A p \in Globals : p \in owned <=> IsSet(p)
    /\ \A p \in Locals : p \in owned <=> p \in local

\* The local pointers at each stage.
LocalInv ==
    /\ local \subseteq Locals
    /\ "loader" \in local => pc \in {"device_allocator", "gp_device", "release loader"}
    /\ "device_allocator" \in local =>
           pc \in {"gp_device", "release loader", "release allocator"}
    /\ "module" \in local => pc \in {"hal_module", "gp_context", "cleanup", "release module"}
    /\ "hal_module" \in local => pc \in {"gp_context", "cleanup"}
    /\ pc \in {"device_allocator", "gp_device"} => "loader" \in local
    /\ pc = "gp_device" => "device_allocator" \in local
    /\ pc \in {"hal_module", "gp_context"} => "module" \in local
    /\ pc = "gp_context" => "hal_module" \in local

\* The globals at each stage: what a context is made of stands as long as it does.
GlobalInv ==
    /\ IsSet("gp_context") =>
           IsSet("gp_instance") /\ IsSet("gp_model_weights") /\ IsSet("gp_device")
    /\ pc \in Creating \cup ContextGone => ~IsSet("gp_context")
    /\ pc \in {"free weights", "copy weights", "gp_instance"} => ~IsSet("gp_instance")
    /\ pc \in Creating => IsSet("gp_instance") /\ IsSet("gp_model_weights")
    /\ pc = "gp_instance" => IsSet("gp_model_weights")
    /\ pc \in {"loader", "device_allocator", "gp_device"} => ~IsSet("gp_device")
    /\ pc \in {"release loader", "release allocator"} /\ status = "OK" => IsSet("gp_device")
    /\ pc \in {"module", "hal_module", "gp_context"} \cup OfInput => IsSet("gp_device")
    /\ "module" \in local => IsSet("gp_instance") /\ IsSet("gp_model_weights")
    /\ "hal_module" \in local => IsSet("gp_instance") /\ IsSet("gp_device")
    /\ pc \in {"resolve", "invoke"} => IsSet("gp_context")
    /\ pc \in OfOutput \cup {"resolve", "invoke"} => IsSet("gp_model_outputs")
    /\ pc \in {"view", "push view"} => IsSet("gp_model_inputs")

\* The arguments of the call in progress.
CallInv ==
    /\ pc \in OfContext => call.blob \in Weights
    /\ pc \in OfInput => call.data \in Inputs /\ call.num_input \in 1..MAX_MODEL_INPUT_NUM
    /\ pc \in OfOutput => call.num_output \in 1..MAX_MODEL_OUTPUTS

\* A view is made, then moved into the list.
ViewsInv ==
    /\ views \in [made : 0..MAX_MODEL_INPUT_NUM, moved : 0..MAX_MODEL_INPUT_NUM]
    /\ pc \notin {"view", "push view"} => views.made = 0
    /\ ~IsSet("gp_model_inputs") => views.moved = 0
    /\ pc = "input list" => ~IsSet("gp_model_inputs")
    /\ pc = "view" => views.moved = 0 /\ views.made < call.num_input
    /\ pc = "push view" => views.made > 0 /\ views.made + views.moved = call.num_input

\* A result is mapped while it is copied.
CopyInv ==
    /\ copied \in 0..MAX_MODEL_OUTPUTS
    /\ pc = "get result" => copied <= call.num_output
    /\ pc \in {"map result", "copy result"} => copied < call.num_output
    /\ pc = "copy result" => mapping = 1
    /\ pc # "copy result" => mapping = 0

\* What failures there were, and what they lost.
LossInv ==
    /\ status \in {"OK", "IREE_ERROR", "INV_PTR"}
    /\ failures \in 0..MaxFailures
    /\ lost \in Nat
    /\ OnlyFailuresLose

WrapperInv ==
    /\ pc \in Stages
    /\ Typed(global) /\ Typed(seen)
    /\ OwnInv /\ LocalInv /\ GlobalInv /\ CallInv /\ ViewsInv /\ CopyInv /\ LossInv

----------------------------------------------------------------------------
(* What the properties need of it *)

LEMMA InvOwned == WrapperInv => OwnedIsHeld
<1> SUFFICES ASSUME WrapperInv PROVE OwnedIsHeld
  OBVIOUS
<1>1. owned = Held
  <2>1. /\ owned \subseteq Globals \cup Locals /\ local \subseteq Locals
        /\ \A p \in Globals : p \in owned <=> IsSet(p)
        /\ \A p \in Locals : p \in owned <=> p \in local
    BY DEF WrapperInv, OwnInv, LocalInv
  <2>2. \A p : p \in Held <=> (p \in Globals /\ IsSet(p)) \/ p \in local
    BY DEF Held, IsSet
  <2>3. \A p : p \in owned <=> p \in Held
    BY <2>1, <2>2
  <2> QED BY <2>3
<1>2. pc \in Globals \cup Locals => pc \notin owned
  <2>1. /\ pc = "gp_instance" \/ pc = "gp_device" \/ pc = "gp_context" => ~IsSet(pc)
        /\ pc \in Globals => pc = "gp_instance" \/ pc = "gp_device" \/ pc = "gp_context"
        /\ pc \in Locals => pc \notin local
    <3>1. pc = "gp_instance" \/ pc = "gp_device" \/ pc = "gp_context" => ~IsSet(pc)
      BY DEF WrapperInv, GlobalInv, Creating
    <3>2. pc \in Globals => pc = "gp_instance" \/ pc = "gp_device" \/ pc = "gp_context"
      BY DEF WrapperInv, Globals, Stages, OfContext, Creating, ContextGone, CleaningUp,
             OfInput, OfOutput
    <3>3. pc \in Locals => pc \notin local
      BY DEF WrapperInv, LocalInv, Locals
    <3> QED BY <3>1, <3>2, <3>3
  <2> QED BY <2>1 DEF WrapperInv, OwnInv
<1>3. pc \notin owned
  BY <1>2 DEF WrapperInv, OwnInv
<1>4. pc = "idle" => local = {} /\ mapping = 0
  BY DEF WrapperInv, LocalInv, CopyInv, Locals
<1> QED BY <1>1, <1>3, <1>4 DEF OwnedIsHeld

LEMMA InvDangles == WrapperInv => NothingDangles
<1> SUFFICES ASSUME WrapperInv, NEW o \in (Alive \cup {pc}) \cap DOMAIN Needs
             PROVE  Needs[o] \subseteq Alive
  BY DEF NothingDangles
<1>1. \A x : x \in Alive <=> \/ x \in owned
                             \/ x \in RetainedBy(owned)
                             \/ x \in RetainedBy(RetainedBy(owned))
  BY DEF Alive
<1>2. \A x \in owned : x \in Alive
  BY <1>1
<1>3. \A x \in Globals : x \in owned <=> IsSet(x)
  BY DEF WrapperInv, OwnInv
<1>4. \A x \in Locals : x \in owned <=> x \in local
  BY DEF WrapperInv, OwnInv
<1>5. CASE o = "gp_device"
  <2>1. IsSet("gp_device") => {"loader", "device_allocator"} \subseteq Alive
    BY <1>1, <1>3, RetainedIs DEF Globals
  <2>2. pc = "gp_device" => {"loader", "device_allocator"} \subseteq Alive
    BY <1>2, <1>4 DEF WrapperInv, LocalInv, Locals
  <2>3. o \in Alive => IsSet("gp_device")
    BY <1>1, <1>3, <1>4, <1>5, RetainedIs DEF WrapperInv, GlobalInv, Globals, Locals
  <2> QED BY <1>5, <2>1, <2>2, <2>3 DEF Needs
<1>6. CASE o = "module"
  <2>1. o \in Alive => "module" \in local \/ IsSet("gp_context")
    BY <1>1, <1>3, <1>4, <1>6, RetainedIs DEF Globals, Locals
  <2>2. IsSet("gp_instance") /\ IsSet("gp_model_weights")
    BY <1>6, <2>1 DEF WrapperInv, GlobalInv, Creating
  <2> QED BY <1>2, <1>3, <1>6, <2>2 DEF Needs, Globals
<1>7. CASE o = "hal_module"
  <2>1. o \in Alive => "hal_module" \in local \/ IsSet("gp_context")
    BY <1>1, <1>3, <1>4, <1>7, RetainedIs DEF Globals, Locals
  <2>2. IsSet("gp_instance") /\ IsSet("gp_device")
    BY <1>7, <2>1 DEF WrapperInv, GlobalInv, Creating
  <2> QED BY <1>2, <1>3, <1>7, <2>2 DEF Needs, Globals
<1>8. CASE o = "gp_context"
  <2>1. o \in Alive => IsSet("gp_context")
    BY <1>1, <1>3, <1>4, <1>8, RetainedIs DEF Globals, Locals
  <2>2. IsSet("gp_context") => {"module", "hal_module"} \subseteq Alive
    BY <1>1, <1>3, RetainedIs DEF Globals
  <2>3. pc = "gp_context" => {"module", "hal_module"} \subseteq Alive
    BY <1>2, <1>4 DEF WrapperInv, LocalInv, Locals
  <2>4. "gp_instance" \in Alive
    BY <1>2, <1>3, <1>8, <2>1 DEF WrapperInv, GlobalInv, Globals, Creating
  <2> QED BY <1>8, <2>1, <2>2, <2>3, <2>4 DEF Needs
<1>9. CASE o = "view"
  <2>1. o \notin Alive
    BY <1>1, <1>9, RetainedIs DEF WrapperInv, OwnInv, Globals, Locals
  <2>2. IsSet("gp_device")
    BY <1>9, <2>1 DEF WrapperInv, GlobalInv, OfInput
  <2> QED BY <1>2, <1>3, <1>9, <2>2 DEF Needs, Globals
<1>10. DOMAIN Needs = {"gp_device", "module", "hal_module", "gp_context", "view"}
  BY DEF Needs
<1> QED BY <1>5, <1>6, <1>7, <1>8, <1>9, <1>10

LEMMA InvType == WrapperInv => WrapperCallsTypeOK
<1> SUFFICES ASSUME WrapperInv PROVE WrapperCallsTypeOK
  OBVIOUS
<1>1. global \in Handles /\ seen \in Handles
  BY TypedHandles DEF WrapperInv
<1>2. mapping \in 0..1 /\ copied \in 0..MAX_MODEL_OUTPUTS
  <2>1. (mapping = 0 \/ mapping = 1) /\ copied \in 0..MAX_MODEL_OUTPUTS
    BY DEF WrapperInv, CopyInv
  <2> QED BY <2>1
<1>3. local \subseteq Locals /\ owned \subseteq Globals \cup Locals
  BY DEF WrapperInv, OwnInv, LocalInv
<1>4. views \in [made : 0..MAX_MODEL_INPUT_NUM, moved : 0..MAX_MODEL_INPUT_NUM]
  BY DEF WrapperInv, ViewsInv
<1>5. /\ status \in {"OK", "IREE_ERROR", "INV_PTR"}
      /\ failures \in 0..MaxFailures /\ lost \in Nat
  BY DEF WrapperInv, LossInv
<1> QED BY <1>1, <1>2, <1>3, <1>4, <1>5, Zenon DEF WrapperCallsTypeOK

----------------------------------------------------------------------------
(* The steps *)

LEMMA InvStarts == Init => WrapperInv
<1> SUFFICES ASSUME Init PROVE WrapperInv
  OBVIOUS
<1>1. /\ pc = "idle" /\ local = {} /\ owned = {} /\ views.made = 0 /\ views.moved = 0
      /\ mapping = 0 /\ copied = 0 /\ status = "OK" /\ failures = 0 /\ lost = 0
      /\ views = [made |-> 0, moved |-> 0]
      /\ global = [p \in Globals |-> NULL] /\ seen = global
  BY DEF Init
<1>2. MaxFailures \in Nat /\ MAX_MODEL_INPUT_NUM \in Nat /\ MAX_MODEL_OUTPUTS \in Nat
  BY WrapperCallsAssumption
<1>3. Typed(global) /\ Typed(seen) /\ \A p \in Globals : ~IsSet(p)
  BY <1>1 DEF Typed, Globals, IsSet
<1>4. OwnInv /\ LocalInv
  BY <1>1, <1>3 DEF OwnInv, LocalInv
<1>5. GlobalInv
  BY <1>1, <1>3 DEF GlobalInv, Globals, Creating, ContextGone, OfInput, OfOutput
<1>6. CallInv
  BY <1>1 DEF CallInv, OfContext, Creating, ContextGone, CleaningUp, OfInput, OfOutput
<1>7. ViewsInv
  BY <1>1, <1>2, <1>3 DEF ViewsInv
<1>8. CopyInv
  BY <1>1, <1>2 DEF CopyInv
<1>9. LossInv
  BY <1>1, <1>2 DEF LossInv, OnlyFailuresLose
<1>10. pc \in Stages
  BY <1>1 DEF Stages
<1> QED BY <1>3, <1>4, <1>5, <1>6, <1>7, <1>8, <1>9, <1>10 DEF WrapperInv

\* The parts that a step of create_context does not touch.
LEMMA ContextKeeps ==
    ASSUME WrapperInv, pc \in OfContext \cup {"idle"}, pc' \in OfContext \cup {"idle"},
           UNCHANGED <<views, mapping, copied>>,
           pc' \in OfContext => call'.blob \in Weights,
           global'["gp_model_inputs"] = global["gp_model_inputs"]
    PROVE  CallInv' /\ ViewsInv' /\ CopyInv'
<1>1. /\ pc' \notin OfInput /\ pc' \notin OfOutput
      /\ pc' \notin {"view", "push view", "input list", "get result", "map result", "copy result"}
      /\ pc \notin {"view", "push view", "copy result"}
  BY DEF OfContext, Creating, ContextGone, CleaningUp, OfInput, OfOutput
<1>2. CallInv'
  BY <1>1 DEF CallInv
<1>3. ViewsInv'
  BY <1>1 DEF WrapperInv, ViewsInv, IsSet
<1>4. CopyInv'
  BY <1>1 DEF WrapperInv, CopyInv
<1> QED BY <1>2, <1>3, <1>4

\* A step with no failure, or one failure that loses some views.
LEMMA LossKept ==
    ASSUME WrapperInv, status' \in {"OK", "IREE_ERROR", "INV_PTR"},
           \/ UNCHANGED <<failures, lost>>
           \/ /\ failures < MaxFailures /\ failures' = failures + 1
              /\ lost' = lost \/ \E n \in 0..MAX_MODEL_INPUT_NUM : lost' = lost + n
    PROVE  LossInv'
<1>1. /\ failures \in 0..MaxFailures /\ lost \in Nat /\ lost <= failures * MAX_MODEL_INPUT_NUM
      /\ MAX_MODEL_INPUT_NUM \in Nat /\ MaxFailures \in Nat
  BY WrapperCallsAssumption DEF WrapperInv, LossInv, OnlyFailuresLose
<1>2. CASE UNCHANGED <<failures, lost>>
  BY <1>1, <1>2 DEF LossInv, OnlyFailuresLose
<1>3. CASE /\ failures < MaxFailures /\ failures' = failures + 1
           /\ lost' = lost \/ \E n \in 0..MAX_MODEL_INPUT_NUM : lost' = lost + n
  <2>1. PICK n \in 0..MAX_MODEL_INPUT_NUM : lost' = lost + n
    BY <1>1, <1>3
  <2>2. (failures + 1) * MAX_MODEL_INPUT_NUM = failures * MAX_MODEL_INPUT_NUM + MAX_MODEL_INPUT_NUM
    BY <1>1
  <2>3. failures * MAX_MODEL_INPUT_NUM \in Nat
    BY <1>1
  <2>4. lost' <= failures' * MAX_MODEL_INPUT_NUM
    BY <1>1, <1>3, <2>1, <2>2, <2>3
  <2> QED BY <1>1, <1>3, <2>1, <2>4 DEF LossInv, OnlyFailuresLose
<1> QED BY <1>2, <1>3

\* Ownership follows the pointers, whatever is created or released.
LEMMA OwnAssigned ==
    ASSUME WrapperInv, NEW p \in Globals, NEW value, Assigned(p, value), UNCHANGED local,
           \/ value # NULL /\ owned' = owned \cup {p}
           \/ value = NULL /\ owned' = IF global[p] # NULL THEN owned \ {p} ELSE owned
           \/ value # NULL /\ global[p] # NULL /\ owned' = owned
    PROVE  OwnInv'
<1>1. /\ global'[p] = value
      /\ \A q \in Globals : q # p => global'[q] = global[q]
  BY Assignment DEF WrapperInv
<1>2. /\ owned \subseteq Globals \cup Locals
      /\ \A q \in Globals : q \in owned <=> global[q] # NULL
      /\ \A q \in Locals : q \in owned <=> q \in local
  BY DEF WrapperInv, OwnInv, IsSet
<1>3. p \notin Locals
  BY DEF Globals, Locals
<1>4. owned' \subseteq Globals \cup Locals
  BY <1>2
<1>5. \A q \in Globals : q \in owned' <=> global'[q] # NULL
  BY <1>1, <1>2
<1>6. \A q \in Locals : q \in owned' <=> q \in local'
  BY <1>2, <1>3
<1> QED BY <1>4, <1>5, <1>6 DEF OwnInv, IsSet

LEMMA OwnLocal ==
    ASSUME WrapperInv, NEW o \in Locals, UNCHANGED global,
           \/ owned' = owned \cup {o} /\ local' = local \cup {o}
           \/ /\ owned' = IF o \in local THEN owned \ {o} ELSE owned
              /\ local' = local \ {o}
    PROVE  OwnInv'
<1>1. /\ owned \subseteq Globals \cup Locals
      /\ \A q \in Globals : q \in owned <=> global[q] # NULL
      /\ \A q \in Locals : q \in owned <=> q \in local
  BY DEF WrapperInv, OwnInv, IsSet
<1>2. o \notin Globals
  BY DEF Globals, Locals
<1>3. owned' \subseteq Globals \cup Locals
  BY <1>1
<1>4. \A q \in Globals : q \in owned' <=> global'[q] # NULL
  BY <1>1, <1>2
<1>5. \A q \in Locals : q \in owned' <=> q \in local'
  BY <1>1
<1> QED BY <1>3, <1>4, <1>5 DEF OwnInv, IsSet

LEMMA OwnSame ==
    ASSUME WrapperInv, UNCHANGED <<global, local, owned>>
    PROVE  OwnInv' /\ Typed(global)'
  BY DEF WrapperInv, OwnInv, IsSet, Typed

\* The values the program assigns.
Fits(p, value) ==
    \/ value = NULL
    \/ p = "gp_instance" /\ value = "instance"
    \/ p = "gp_device" /\ value = "device"
    \/ p \in {"gp_context", "gp_model_weights"} /\ value \in Weights
    \/ p = "gp_model_inputs" /\ value \in InputLists
    \/ p = "gp_model_outputs" /\ value \in ResultLists

LEMMA TypedAssigned ==
    ASSUME Typed(global), NEW p \in Globals, NEW value, Fits(p, value), Assigned(p, value)
    PROVE  Typed(global')
<1>1. /\ global' = [q \in Globals |-> global'[q]]
      /\ global'[p] = value
      /\ \A q \in Globals : q # p => global'[q] = global[q]
  BY Assignment
<1> QED BY <1>1 DEF Typed, Fits, Globals

\* A step inside create_context, from what it does to the pointers.
LEMMA ContextStep ==
    ASSUME WrapperInv, pc \in OfContext \cup {"idle"}, pc' \in OfContext \cup {"idle"},
           UNCHANGED <<views, mapping, copied>>,
           pc' \in OfContext => call'.blob \in Weights,
           Typed(global)', seen' = seen \/ seen' = global',
           global'["gp_model_inputs"] = global["gp_model_inputs"],
           OwnInv', LocalInv', GlobalInv',
           status' \in {"OK", "IREE_ERROR", "INV_PTR"},
           \/ UNCHANGED <<failures, lost>>
           \/ /\ failures < MaxFailures /\ failures' = failures + 1
              /\ lost' = lost \/ \E n \in 0..MAX_MODEL_INPUT_NUM : lost' = lost + n
    PROVE  WrapperInv'
<1>1. CallInv' /\ ViewsInv' /\ CopyInv'
  BY ContextKeeps
<1>2. LossInv'
  BY LossKept
<1>3. Typed(seen)'
  BY DEF WrapperInv, Typed
<1>4. pc' \in Stages
  BY DEF Stages
<1> QED BY <1>1, <1>2, <1>3, <1>4 DEF WrapperInv

LEMMA EnterContext ==
    ASSUME WrapperInv, NEW blob \in Weights,
           Enter("release context", [fun |-> "create_context", blob |-> blob])
    PROVE  WrapperInv'
<1>1. /\ pc = "idle" /\ pc' = "release context" /\ status' = "OK" /\ call'.blob = blob
      /\ UNCHANGED <<global, local, owned, views, mapping, copied, seen, failures, lost>>
  BY DEF Enter, Goto
<1>2. OwnInv' /\ Typed(global)'
  BY <1>1, OwnSame
<1>3. LocalInv'
  BY <1>1 DEF WrapperInv, LocalInv
<1>4. GlobalInv'
  BY <1>1 DEF WrapperInv, GlobalInv, IsSet, Creating, ContextGone, OfInput, OfOutput
<1>5. pc \in OfContext \cup {"idle"} /\ pc' \in OfContext \cup {"idle"}
  BY <1>1 DEF OfContext, CleaningUp
<1> QED BY <1>1, <1>2, <1>3, <1>4, <1>5, ContextStep

LEMMA ReleasesContext ==
    ASSUME WrapperInv, ReleaseGlobal("release context", "gp_context", "release instance")
    PROVE  WrapperInv'
<1>1. /\ pc = "release context" /\ pc' = "release instance"
      /\ owned' = IF global["gp_context"] # NULL THEN owned \ {"gp_context"} ELSE owned
      /\ Assigned("gp_context", NULL)
      /\ UNCHANGED <<call, local, views, mapping, copied, status, failures, seen, lost>>
  BY DEF ReleaseGlobal, Goto, InProgress
<1>2. "gp_context" \in Globals /\ Fits("gp_context", NULL)
  BY DEF Globals, Fits
<1>3. Typed(global)' /\ OwnInv'
  BY <1>1, <1>2, OwnAssigned, TypedAssigned DEF WrapperInv, Typed
<1>4. /\ global'["gp_context"] = NULL
      /\ \A q \in Globals : q # "gp_context" => global'[q] = global[q]
  BY <1>1, <1>2, Assignment DEF WrapperInv
<1>5. LocalInv'
  BY <1>1 DEF WrapperInv, LocalInv
<1>6. GlobalInv'
  BY <1>1, <1>4, <1>5
     DEF WrapperInv, GlobalInv, LocalInv, IsSet, Globals, Creating, ContextGone, OfInput, OfOutput
<1>7. /\ pc \in OfContext /\ pc' \in OfContext /\ call.blob \in Weights
      /\ status \in {"OK", "IREE_ERROR", "INV_PTR"}
  BY <1>1 DEF WrapperInv, OfContext, ContextGone, CleaningUp, CallInv, LossInv
<1> QED BY <1>1, <1>3, <1>4, <1>5, <1>6, <1>7, ContextStep DEF Globals

LEMMA ReleasesInstance ==
    ASSUME WrapperInv, ReleaseGlobal("release instance", "gp_instance", "free weights")
    PROVE  WrapperInv'
<1>1. /\ pc = "release instance" /\ pc' = "free weights"
      /\ owned' = IF global["gp_instance"] # NULL THEN owned \ {"gp_instance"} ELSE owned
      /\ Assigned("gp_instance", NULL)
      /\ UNCHANGED <<call, local, views, mapping, copied, status, failures, seen, lost>>
  BY DEF ReleaseGlobal, Goto, InProgress
<1>2. "gp_instance" \in Globals /\ Fits("gp_instance", NULL)
  BY DEF Globals, Fits
<1>3. Typed(global)' /\ OwnInv'
  BY <1>1, <1>2, OwnAssigned, TypedAssigned DEF WrapperInv, Typed
<1>4. /\ global'["gp_instance"] = NULL
      /\ \A q \in Globals : q # "gp_instance" => global'[q] = global[q]
  BY <1>1, <1>2, Assignment DEF WrapperInv
<1>5. LocalInv'
  BY <1>1 DEF WrapperInv, LocalInv
<1>6. GlobalInv'
  BY <1>1, <1>4, <1>5
     DEF WrapperInv, GlobalInv, LocalInv, IsSet, Globals, Creating, ContextGone, OfInput, OfOutput
<1>7. /\ pc \in OfContext /\ pc' \in OfContext /\ call.blob \in Weights
      /\ status \in {"OK", "IREE_ERROR", "INV_PTR"}
  BY <1>1 DEF WrapperInv, OfContext, ContextGone, CleaningUp, CallInv, LossInv
<1> QED BY <1>1, <1>3, <1>4, <1>5, <1>6, <1>7, ContextStep DEF Globals

LEMMA FreesWeights ==
    ASSUME WrapperInv, FreeWeights
    PROVE  WrapperInv'
<1>1. /\ pc = "free weights"
      /\ owned' = IF global["gp_model_weights"] # NULL THEN owned \ {"gp_model_weights"}
                                                       ELSE owned
      /\ Assigned("gp_model_weights", NULL)
      /\ UNCHANGED <<call, local, views, mapping, copied, failures>>
      /\ status' = status /\ lost' = lost
      /\ \/ pc' = "copy weights" /\ seen' = seen
         \/ pc' = "idle" /\ seen' = global'
  <2>1. lost + 0 = lost
    <3>1. lost \in Nat
      BY DEF WrapperInv, LossInv
    <3> QED BY <3>1
  <2> QED BY <2>1 DEF FreeWeights, Goto, InProgress, Return
<1>2. "gp_model_weights" \in Globals /\ Fits("gp_model_weights", NULL)
  BY DEF Globals, Fits
<1>3. Typed(global)' /\ OwnInv'
  BY <1>1, <1>2, OwnAssigned, TypedAssigned DEF WrapperInv, Typed
<1>4. /\ global'["gp_model_weights"] = NULL
      /\ \A q \in Globals : q # "gp_model_weights" => global'[q] = global[q]
  BY <1>1, <1>2, Assignment DEF WrapperInv
<1>5. LocalInv'
  BY <1>1 DEF WrapperInv, LocalInv
<1>6. GlobalInv'
  BY <1>1, <1>4, <1>5
     DEF WrapperInv, GlobalInv, LocalInv, IsSet, Globals, Creating, ContextGone, OfInput, OfOutput
<1>7. /\ pc \in OfContext /\ pc' \in OfContext \cup {"idle"} /\ call.blob \in Weights
      /\ status \in {"OK", "IREE_ERROR", "INV_PTR"}
  BY <1>1 DEF WrapperInv, OfContext, ContextGone, CleaningUp, CallInv, LossInv
<1> QED BY <1>1, <1>3, <1>4, <1>5, <1>6, <1>7, ContextStep DEF Globals

LEMMA CopiesWeights ==
    ASSUME WrapperInv, CopyWeights
    PROVE  WrapperInv'
<1>1. /\ pc = "copy weights" /\ pc' = "gp_instance"
      /\ owned' = owned \cup {"gp_model_weights"}
      /\ Assigned("gp_model_weights", call.blob)
      /\ UNCHANGED <<call, local, views, mapping, copied, status, failures, seen, lost>>
  BY DEF CopyWeights, Created, Goto, InProgress
<1>2. pc \in OfContext /\ pc' \in OfContext
  BY <1>1 DEF OfContext, ContextGone
<1>3. call.blob \in Weights /\ call.blob # NULL /\ status \in {"OK", "IREE_ERROR", "INV_PTR"}
  BY <1>2, WrapperCallsAssumption DEF WrapperInv, CallInv, LossInv
<1>4. "gp_model_weights" \in Globals /\ Fits("gp_model_weights", call.blob)
  BY <1>3 DEF Globals, Fits
<1>5. Typed(global)' /\ OwnInv'
  BY <1>1, <1>3, <1>4, OwnAssigned, TypedAssigned DEF WrapperInv, Typed
<1>6. /\ global'["gp_model_weights"] = call.blob
      /\ \A q \in Globals : q # "gp_model_weights" => global'[q] = global[q]
  BY <1>1, <1>4, Assignment DEF WrapperInv
<1>7. LocalInv'
  BY <1>1 DEF WrapperInv, LocalInv
<1>8. GlobalInv'
  BY <1>1, <1>3, <1>6, <1>7
     DEF WrapperInv, GlobalInv, LocalInv, IsSet, Globals, Creating, ContextGone, OfInput, OfOutput
<1> QED BY <1>1, <1>2, <1>3, <1>5, <1>6, <1>7, <1>8, ContextStep DEF Globals

\* A call that creates an object into a global pointer, or fails.
LEMMA GlobalCreated ==
    ASSUME WrapperInv, NEW name, NEW object \in Globals, NEW value, NEW next, NEW onError,
           Fits(object, value), value # NULL,
           CreateGlobal(name, object, value, next, onError)
    PROVE  /\ Typed(global)' /\ OwnInv'
           /\ UNCHANGED <<call, local, views, mapping, copied, seen, lost>>
           /\ \A q \in Globals : q # object => global'[q] = global[q]
           /\ status' \in {"OK", "IREE_ERROR", "INV_PTR"}
           /\ \/ /\ global'[object] = value /\ pc' = next
                 /\ UNCHANGED <<status, failures>>
              \/ /\ global'[object] = global[object] /\ pc' = onError /\ status' = "IREE_ERROR"
                 /\ failures < MaxFailures /\ failures' = failures + 1
<1>1. /\ UNCHANGED <<call, local, views, mapping, copied, seen, lost>>
      /\ \/ /\ owned' = owned \cup {object} /\ Assigned(object, value)
            /\ pc' = next /\ UNCHANGED <<status, failures>>
         \/ /\ failures < MaxFailures /\ failures' = failures + 1
            /\ status' = "IREE_ERROR" /\ pc' = onError /\ UNCHANGED <<owned, global>>
  BY DEF CreateGlobal, Created, Goto, Fails, InProgress
<1>2. CASE /\ owned' = owned \cup {object} /\ Assigned(object, value)
           /\ pc' = next /\ UNCHANGED <<status, failures>>
  <2>1. Typed(global)' /\ OwnInv'
    BY <1>1, <1>2, OwnAssigned, TypedAssigned DEF WrapperInv, Typed
  <2>2. global'[object] = value /\ \A q \in Globals : q # object => global'[q] = global[q]
    BY <1>2, Assignment DEF WrapperInv
  <2> QED BY <1>1, <1>2, <2>1, <2>2 DEF WrapperInv, LossInv
<1>3. CASE /\ failures < MaxFailures /\ failures' = failures + 1
           /\ status' = "IREE_ERROR" /\ pc' = onError /\ UNCHANGED <<owned, global>>
  <2>1. OwnInv' /\ Typed(global)'
    BY <1>1, <1>3, OwnSame
  <2> QED BY <1>1, <1>3, <2>1
<1> QED BY <1>1, <1>2, <1>3

\* The same for a local pointer.
LEMMA LocalCreated ==
    ASSUME WrapperInv, NEW name, NEW object \in Locals, NEW next, NEW onError,
           CreateLocal(name, object, next, onError)
    PROVE  /\ Typed(global)' /\ OwnInv'
           /\ UNCHANGED <<call, global, views, mapping, copied, seen, lost>>
           /\ status' \in {"OK", "IREE_ERROR", "INV_PTR"}
           /\ \/ /\ local' = local \cup {object} /\ pc' = next
                 /\ UNCHANGED <<status, failures>>
              \/ /\ local' = local /\ pc' = onError /\ status' = "IREE_ERROR"
                 /\ failures < MaxFailures /\ failures' = failures + 1
<1>1. /\ UNCHANGED <<call, global, views, mapping, copied, seen, lost>>
      /\ \/ /\ owned' = owned \cup {object} /\ local' = local \cup {object}
            /\ pc' = next /\ UNCHANGED <<status, failures>>
         \/ /\ failures < MaxFailures /\ failures' = failures + 1
            /\ status' = "IREE_ERROR" /\ pc' = onError /\ UNCHANGED <<owned, local>>
  BY DEF CreateLocal, Created, Goto, Fails, InProgress
<1>2. Typed(global)' /\ status \in {"OK", "IREE_ERROR", "INV_PTR"}
  BY <1>1 DEF WrapperInv, Typed, LossInv
<1>3. OwnInv'
  BY <1>1, OwnLocal, OwnSame
<1> QED BY <1>1, <1>2, <1>3

\* A release of a local pointer.
LEMMA LocalReleased ==
    ASSUME WrapperInv, NEW at, NEW object \in Locals, NEW next,
           ReleaseLocal(at, object, next)
    PROVE  /\ Typed(global)' /\ OwnInv' /\ local' = local \ {object} /\ pc' = next
           /\ UNCHANGED <<call, global, views, mapping, copied, status, failures, seen, lost>>
           /\ status' \in {"OK", "IREE_ERROR", "INV_PTR"}
<1>1. /\ UNCHANGED <<call, global, views, mapping, copied, status, failures, seen, lost>>
      /\ owned' = IF object \in local THEN owned \ {object} ELSE owned
      /\ local' = local \ {object} /\ pc' = next
  BY DEF ReleaseLocal, Goto, InProgress
<1>2. Typed(global)' /\ status \in {"OK", "IREE_ERROR", "INV_PTR"}
  BY <1>1 DEF WrapperInv, Typed, LossInv
<1>3. OwnInv'
  BY <1>1, OwnLocal
<1> QED BY <1>1, <1>2, <1>3

\* Each creation and release of create_context and create_device.
LEMMA CreatesInstance ==
    ASSUME WrapperInv, CreateGlobal("iree_vm_instance_create", "gp_instance", "instance", "register types", "cleanup")
    PROVE  WrapperInv'
<1>1. pc = "gp_instance" /\ "gp_instance" \in Globals
  BY DEF CreateGlobal, Globals
<1>2. Fits("gp_instance", "instance") /\ "instance" # NULL
  BY <1>1, WrapperCallsAssumption DEF Fits
<1>3. /\ Typed(global)' /\ OwnInv'
      /\ UNCHANGED <<call, local, views, mapping, copied, seen, lost>>
      /\ \A q \in Globals : q # "gp_instance" => global'[q] = global[q]
      /\ status' \in {"OK", "IREE_ERROR", "INV_PTR"}
      /\ \/ /\ global'["gp_instance"] = "instance" /\ pc' = "register types"
            /\ UNCHANGED <<status, failures>>
         \/ /\ global'["gp_instance"] = global["gp_instance"] /\ pc' = "cleanup"
            /\ status' = "IREE_ERROR"
            /\ failures < MaxFailures /\ failures' = failures + 1
  BY <1>1, <1>2, GlobalCreated
<1>4. /\ pc \in OfContext /\ pc' \in OfContext
      /\ pc \in Creating \cup {"gp_instance"} /\ pc' \notin OfInput \cup OfOutput
  BY <1>1, <1>3 DEF OfContext, ContextGone, Creating, CleaningUp, OfInput, OfOutput
<1>5. LocalInv'
  BY <1>1, <1>3 DEF WrapperInv, LocalInv
<1>6. GlobalInv'
  BY <1>1, <1>2, <1>3, <1>4, <1>5
     DEF WrapperInv, GlobalInv, LocalInv, IsSet, Globals, Creating, ContextGone
<1>7. call.blob \in Weights
  BY <1>4 DEF WrapperInv, CallInv
<1> QED BY <1>1, <1>3, <1>4, <1>5, <1>6, <1>7, ContextStep DEF Globals

LEMMA CreatesLoader ==
    ASSUME WrapperInv, CreateLocal("create_device", "loader", "device_allocator", "release loader")
    PROVE  WrapperInv'
<1>1. pc = "loader" /\ "loader" \in Locals
  BY DEF CreateLocal, Locals
<1>2. /\ Typed(global)' /\ OwnInv'
      /\ UNCHANGED <<call, global, views, mapping, copied, seen, lost>>
      /\ status' \in {"OK", "IREE_ERROR", "INV_PTR"}
      /\ \/ /\ local' = local \cup {"loader"} /\ pc' = "device_allocator"
            /\ UNCHANGED <<status, failures>>
         \/ /\ local' = local /\ pc' = "release loader" /\ status' = "IREE_ERROR"
            /\ failures < MaxFailures /\ failures' = failures + 1
  BY <1>1, LocalCreated
<1>3. /\ pc \in OfContext /\ pc' \in OfContext
      /\ pc \in Creating /\ pc' \notin OfInput \cup OfOutput
  BY <1>1, <1>2 DEF OfContext, ContextGone, Creating, CleaningUp, OfInput, OfOutput
<1>4. LocalInv'
  BY <1>1, <1>2 DEF WrapperInv, LocalInv
<1>5. GlobalInv'
  BY <1>1, <1>2, <1>3, <1>4
     DEF WrapperInv, GlobalInv, LocalInv, IsSet, Globals, Creating, ContextGone, OfInput
<1>6. call.blob \in Weights
  BY <1>3 DEF WrapperInv, CallInv
<1> QED BY <1>1, <1>2, <1>3, <1>4, <1>5, <1>6, ContextStep

LEMMA CreatesAllocator ==
    ASSUME WrapperInv, CreateLocal("create_device", "device_allocator", "gp_device", "release loader")
    PROVE  WrapperInv'
<1>1. pc = "device_allocator" /\ "device_allocator" \in Locals
  BY DEF CreateLocal, Locals
<1>2. /\ Typed(global)' /\ OwnInv'
      /\ UNCHANGED <<call, global, views, mapping, copied, seen, lost>>
      /\ status' \in {"OK", "IREE_ERROR", "INV_PTR"}
      /\ \/ /\ local' = local \cup {"device_allocator"} /\ pc' = "gp_device"
            /\ UNCHANGED <<status, failures>>
         \/ /\ local' = local /\ pc' = "release loader" /\ status' = "IREE_ERROR"
            /\ failures < MaxFailures /\ failures' = failures + 1
  BY <1>1, LocalCreated
<1>3. /\ pc \in OfContext /\ pc' \in OfContext
      /\ pc \in Creating /\ pc' \notin OfInput \cup OfOutput
  BY <1>1, <1>2 DEF OfContext, ContextGone, Creating, CleaningUp, OfInput, OfOutput
<1>4. LocalInv'
  BY <1>1, <1>2 DEF WrapperInv, LocalInv
<1>5. GlobalInv'
  BY <1>1, <1>2, <1>3, <1>4
     DEF WrapperInv, GlobalInv, LocalInv, IsSet, Globals, Creating, ContextGone, OfInput
<1>6. call.blob \in Weights
  BY <1>3 DEF WrapperInv, CallInv
<1> QED BY <1>1, <1>2, <1>3, <1>4, <1>5, <1>6, ContextStep

LEMMA CreatesDevice ==
    ASSUME WrapperInv, CreateGlobal("create_device", "gp_device", "device", "release loader", "release loader")
    PROVE  WrapperInv'
<1>1. pc = "gp_device" /\ "gp_device" \in Globals
  BY DEF CreateGlobal, Globals
<1>2. Fits("gp_device", "device") /\ "device" # NULL
  BY <1>1, WrapperCallsAssumption DEF Fits
<1>3. /\ Typed(global)' /\ OwnInv'
      /\ UNCHANGED <<call, local, views, mapping, copied, seen, lost>>
      /\ \A q \in Globals : q # "gp_device" => global'[q] = global[q]
      /\ status' \in {"OK", "IREE_ERROR", "INV_PTR"}
      /\ \/ /\ global'["gp_device"] = "device" /\ pc' = "release loader"
            /\ UNCHANGED <<status, failures>>
         \/ /\ global'["gp_device"] = global["gp_device"] /\ pc' = "release loader"
            /\ status' = "IREE_ERROR"
            /\ failures < MaxFailures /\ failures' = failures + 1
  BY <1>1, <1>2, GlobalCreated
<1>4. /\ pc \in OfContext /\ pc' \in OfContext
      /\ pc \in Creating \cup {"gp_instance"} /\ pc' \notin OfInput \cup OfOutput
  BY <1>1, <1>3 DEF OfContext, ContextGone, Creating, CleaningUp, OfInput, OfOutput
<1>5. LocalInv'
  BY <1>1, <1>3 DEF WrapperInv, LocalInv
<1>6. GlobalInv'
  BY <1>1, <1>2, <1>3, <1>4, <1>5
     DEF WrapperInv, GlobalInv, LocalInv, IsSet, Globals, Creating, ContextGone
<1>7. call.blob \in Weights
  BY <1>4 DEF WrapperInv, CallInv
<1> QED BY <1>1, <1>3, <1>4, <1>5, <1>6, <1>7, ContextStep DEF Globals

LEMMA ReleasesLoader ==
    ASSUME WrapperInv, ReleaseLocal("release loader", "loader", "release allocator")
    PROVE  WrapperInv'
<1>1. pc = "release loader" /\ "loader" \in Locals
  BY DEF ReleaseLocal, Locals
<1>2. /\ Typed(global)' /\ OwnInv' /\ local' = local \ {"loader"}
      /\ pc' = "release allocator"
      /\ UNCHANGED <<call, global, views, mapping, copied, status, failures, seen, lost>>
      /\ status' \in {"OK", "IREE_ERROR", "INV_PTR"}
  BY <1>1, LocalReleased
<1>3. /\ pc \in OfContext /\ pc' \in OfContext
      /\ pc' \notin OfInput \cup OfOutput
  BY <1>1, <1>2 DEF OfContext, ContextGone, Creating, CleaningUp, OfInput, OfOutput
<1>4. LocalInv'
  BY <1>1, <1>2 DEF WrapperInv, LocalInv
<1>5. GlobalInv'
  BY <1>1, <1>2, <1>3, <1>4
     DEF WrapperInv, GlobalInv, LocalInv, IsSet, Globals, Creating, ContextGone, OfInput
<1>6. call.blob \in Weights
  BY <1>3 DEF WrapperInv, CallInv
<1> QED BY <1>1, <1>2, <1>3, <1>4, <1>5, <1>6, ContextStep

LEMMA ReleasesAllocator ==
    ASSUME WrapperInv, ReleaseLocal("release allocator", "device_allocator", IF status = "OK" THEN "module" ELSE "cleanup")
    PROVE  WrapperInv'
<1>1. pc = "release allocator" /\ "device_allocator" \in Locals
  BY DEF ReleaseLocal, Locals
<1>2. /\ Typed(global)' /\ OwnInv' /\ local' = local \ {"device_allocator"}
      /\ pc' = IF status = "OK" THEN "module" ELSE "cleanup"
      /\ UNCHANGED <<call, global, views, mapping, copied, status, failures, seen, lost>>
      /\ status' \in {"OK", "IREE_ERROR", "INV_PTR"}
  BY <1>1, LocalReleased
<1>3. /\ pc \in OfContext /\ pc' \in OfContext
      /\ pc' \notin OfInput \cup OfOutput
  BY <1>1, <1>2 DEF OfContext, ContextGone, Creating, CleaningUp, OfInput, OfOutput
<1>4. LocalInv'
  BY <1>1, <1>2 DEF WrapperInv, LocalInv
<1>5. GlobalInv'
  BY <1>1, <1>2, <1>3, <1>4
     DEF WrapperInv, GlobalInv, LocalInv, IsSet, Globals, Creating, ContextGone, OfInput
<1>6. call.blob \in Weights
  BY <1>3 DEF WrapperInv, CallInv
<1> QED BY <1>1, <1>2, <1>3, <1>4, <1>5, <1>6, ContextStep

LEMMA CreatesModule ==
    ASSUME WrapperInv, CreateLocal("iree_vm_bytecode_module_create", "module", "hal_module", "cleanup")
    PROVE  WrapperInv'
<1>1. pc = "module" /\ "module" \in Locals
  BY DEF CreateLocal, Locals
<1>2. /\ Typed(global)' /\ OwnInv'
      /\ UNCHANGED <<call, global, views, mapping, copied, seen, lost>>
      /\ status' \in {"OK", "IREE_ERROR", "INV_PTR"}
      /\ \/ /\ local' = local \cup {"module"} /\ pc' = "hal_module"
            /\ UNCHANGED <<status, failures>>
         \/ /\ local' = local /\ pc' = "cleanup" /\ status' = "IREE_ERROR"
            /\ failures < MaxFailures /\ failures' = failures + 1
  BY <1>1, LocalCreated
<1>3. /\ pc \in OfContext /\ pc' \in OfContext
      /\ pc \in Creating /\ pc' \notin OfInput \cup OfOutput
  BY <1>1, <1>2 DEF OfContext, ContextGone, Creating, CleaningUp, OfInput, OfOutput
<1>4. LocalInv'
  BY <1>1, <1>2 DEF WrapperInv, LocalInv
<1>5. GlobalInv'
  BY <1>1, <1>2, <1>3, <1>4
     DEF WrapperInv, GlobalInv, LocalInv, IsSet, Globals, Creating, ContextGone, OfInput
<1>6. call.blob \in Weights
  BY <1>3 DEF WrapperInv, CallInv
<1> QED BY <1>1, <1>2, <1>3, <1>4, <1>5, <1>6, ContextStep

LEMMA CreatesHalModule ==
    ASSUME WrapperInv, CreateLocal("iree_hal_module_create", "hal_module", "gp_context", "cleanup")
    PROVE  WrapperInv'
<1>1. pc = "hal_module" /\ "hal_module" \in Locals
  BY DEF CreateLocal, Locals
<1>2. /\ Typed(global)' /\ OwnInv'
      /\ UNCHANGED <<call, global, views, mapping, copied, seen, lost>>
      /\ status' \in {"OK", "IREE_ERROR", "INV_PTR"}
      /\ \/ /\ local' = local \cup {"hal_module"} /\ pc' = "gp_context"
            /\ UNCHANGED <<status, failures>>
         \/ /\ local' = local /\ pc' = "cleanup" /\ status' = "IREE_ERROR"
            /\ failures < MaxFailures /\ failures' = failures + 1
  BY <1>1, LocalCreated
<1>3. /\ pc \in OfContext /\ pc' \in OfContext
      /\ pc \in Creating /\ pc' \notin OfInput \cup OfOutput
  BY <1>1, <1>2 DEF OfContext, ContextGone, Creating, CleaningUp, OfInput, OfOutput
<1>4. LocalInv'
  BY <1>1, <1>2 DEF WrapperInv, LocalInv
<1>5. GlobalInv'
  BY <1>1, <1>2, <1>3, <1>4
     DEF WrapperInv, GlobalInv, LocalInv, IsSet, Globals, Creating, ContextGone, OfInput
<1>6. call.blob \in Weights
  BY <1>3 DEF WrapperInv, CallInv
<1> QED BY <1>1, <1>2, <1>3, <1>4, <1>5, <1>6, ContextStep

LEMMA CreatesContext ==
    ASSUME WrapperInv, CreateGlobal("iree_vm_context_create_with_modules", "gp_context", global["gp_model_weights"], "cleanup", "cleanup")
    PROVE  WrapperInv'
<1>1. pc = "gp_context" /\ "gp_context" \in Globals
  BY DEF CreateGlobal, Globals
<1>2. Fits("gp_context", global["gp_model_weights"]) /\ global["gp_model_weights"] # NULL
  BY <1>1, WrapperCallsAssumption DEF Fits, WrapperInv, GlobalInv, Typed, IsSet, Creating
<1>3. /\ Typed(global)' /\ OwnInv'
      /\ UNCHANGED <<call, local, views, mapping, copied, seen, lost>>
      /\ \A q \in Globals : q # "gp_context" => global'[q] = global[q]
      /\ status' \in {"OK", "IREE_ERROR", "INV_PTR"}
      /\ \/ /\ global'["gp_context"] = global["gp_model_weights"] /\ pc' = "cleanup"
            /\ UNCHANGED <<status, failures>>
         \/ /\ global'["gp_context"] = global["gp_context"] /\ pc' = "cleanup"
            /\ status' = "IREE_ERROR"
            /\ failures < MaxFailures /\ failures' = failures + 1
  BY <1>1, <1>2, GlobalCreated
<1>4. /\ pc \in OfContext /\ pc' \in OfContext
      /\ pc \in Creating \cup {"gp_instance"} /\ pc' \notin OfInput \cup OfOutput
  BY <1>1, <1>3 DEF OfContext, ContextGone, Creating, CleaningUp, OfInput, OfOutput
<1>5. LocalInv'
  BY <1>1, <1>3 DEF WrapperInv, LocalInv
<1>6. GlobalInv'
  BY <1>1, <1>2, <1>3, <1>4, <1>5
     DEF WrapperInv, GlobalInv, LocalInv, IsSet, Globals, Creating, ContextGone
<1>7. call.blob \in Weights
  BY <1>4 DEF WrapperInv, CallInv
<1> QED BY <1>1, <1>3, <1>4, <1>5, <1>6, <1>7, ContextStep DEF Globals

LEMMA ReleasesHalModule ==
    ASSUME WrapperInv, ReleaseLocal("cleanup", "hal_module", "release module")
    PROVE  WrapperInv'
<1>1. pc = "cleanup" /\ "hal_module" \in Locals
  BY DEF ReleaseLocal, Locals
<1>2. /\ Typed(global)' /\ OwnInv' /\ local' = local \ {"hal_module"}
      /\ pc' = "release module"
      /\ UNCHANGED <<call, global, views, mapping, copied, status, failures, seen, lost>>
      /\ status' \in {"OK", "IREE_ERROR", "INV_PTR"}
  BY <1>1, LocalReleased
<1>3. /\ pc \in OfContext /\ pc' \in OfContext
      /\ pc' \notin OfInput \cup OfOutput
  BY <1>1, <1>2 DEF OfContext, ContextGone, Creating, CleaningUp, OfInput, OfOutput
<1>4. LocalInv'
  BY <1>1, <1>2 DEF WrapperInv, LocalInv
<1>5. GlobalInv'
  BY <1>1, <1>2, <1>3, <1>4
     DEF WrapperInv, GlobalInv, LocalInv, IsSet, Globals, Creating, ContextGone, OfInput
<1>6. call.blob \in Weights
  BY <1>3 DEF WrapperInv, CallInv
<1> QED BY <1>1, <1>2, <1>3, <1>4, <1>5, <1>6, ContextStep

LEMMA ReleasesModule ==
    ASSUME WrapperInv, ReleaseLocal("release module", "module", "cleaned up")
    PROVE  WrapperInv'
<1>1. pc = "release module" /\ "module" \in Locals
  BY DEF ReleaseLocal, Locals
<1>2. /\ Typed(global)' /\ OwnInv' /\ local' = local \ {"module"}
      /\ pc' = "cleaned up"
      /\ UNCHANGED <<call, global, views, mapping, copied, status, failures, seen, lost>>
      /\ status' \in {"OK", "IREE_ERROR", "INV_PTR"}
  BY <1>1, LocalReleased
<1>3. /\ pc \in OfContext /\ pc' \in OfContext
      /\ pc' \notin OfInput \cup OfOutput
  BY <1>1, <1>2 DEF OfContext, ContextGone, Creating, CleaningUp, OfInput, OfOutput
<1>4. LocalInv'
  BY <1>1, <1>2 DEF WrapperInv, LocalInv
<1>5. GlobalInv'
  BY <1>1, <1>2, <1>3, <1>4
     DEF WrapperInv, GlobalInv, LocalInv, IsSet, Globals, Creating, ContextGone, OfInput
<1>6. call.blob \in Weights
  BY <1>3 DEF WrapperInv, CallInv
<1> QED BY <1>1, <1>2, <1>3, <1>4, <1>5, <1>6, ContextStep

LEMMA RegistersTypes ==
    ASSUME WrapperInv, RegisterTypes
    PROVE  WrapperInv'
<1>1. /\ pc = "register types"
      /\ UNCHANGED <<call, global, local, owned, views, mapping, copied, seen, lost>>
      /\ \/ /\ pc' = IF global["gp_device"] = NULL THEN "loader" ELSE "module"
            /\ UNCHANGED <<status, failures>>
         \/ /\ pc' = "cleanup" /\ status' = "IREE_ERROR"
            /\ failures < MaxFailures /\ failures' = failures + 1
  BY DEF RegisterTypes, Goto, Fails, InProgress
<1>2. OwnInv' /\ Typed(global)'
  BY <1>1, OwnSame
<1>3. /\ pc \in OfContext /\ pc' \in OfContext /\ pc' \notin OfInput \cup OfOutput
      /\ status' \in {"OK", "IREE_ERROR", "INV_PTR"}
  BY <1>1 DEF WrapperInv, LossInv, OfContext, ContextGone, Creating, CleaningUp, OfInput, OfOutput
<1>4. LocalInv'
  BY <1>1 DEF WrapperInv, LocalInv
<1>5. GlobalInv'
  BY <1>1, <1>3, <1>4
     DEF WrapperInv, GlobalInv, LocalInv, IsSet, Globals, Creating, ContextGone, OfInput
<1>6. call.blob \in Weights
  BY <1>3 DEF WrapperInv, CallInv
<1> QED BY <1>1, <1>2, <1>3, <1>4, <1>5, <1>6, ContextStep

LEMMA ReturnsContext ==
    ASSUME WrapperInv, ReturnContext
    PROVE  WrapperInv'
<1>1. /\ pc = "cleaned up"
      /\ UNCHANGED <<call, global, local, owned, views, mapping, copied, failures>>
      /\ \/ pc' = "idle" /\ status' = "OK" /\ seen' = global' /\ lost' = lost
         \/ pc' = "release context" /\ status' = status /\ seen' = seen /\ lost' = lost
  <2>1. lost + 0 = lost
    <3>1. lost \in Nat
      BY DEF WrapperInv, LossInv
    <3> QED BY <3>1
  <2> QED BY <2>1 DEF ReturnContext, Return, Goto, InProgress
<1>2. OwnInv' /\ Typed(global)'
  BY <1>1, OwnSame
<1>3. /\ pc \in OfContext /\ pc' \in OfContext \cup {"idle"} /\ pc' \notin OfInput \cup OfOutput
      /\ status' \in {"OK", "IREE_ERROR", "INV_PTR"}
  BY <1>1 DEF WrapperInv, LossInv, OfContext, ContextGone, Creating, CleaningUp, OfInput, OfOutput
<1>4. LocalInv'
  BY <1>1 DEF WrapperInv, LocalInv
<1>5. GlobalInv'
  BY <1>1, <1>3, <1>4
     DEF WrapperInv, GlobalInv, LocalInv, IsSet, Globals, Creating, ContextGone, OfInput
<1>6. call.blob \in Weights
  BY <1>3 DEF WrapperInv, CallInv
<1> QED BY <1>1, <1>2, <1>3, <1>4, <1>5, <1>6, ContextStep

LEMMA ContextStepKeeps == WrapperInv /\ create_context => WrapperInv'
  BY EnterContext, ReleasesContext, ReleasesInstance, FreesWeights, CopiesWeights,
     CreatesInstance, RegistersTypes, CreatesLoader, CreatesAllocator, CreatesDevice,
     ReleasesLoader, ReleasesAllocator, CreatesModule, CreatesHalModule, CreatesContext,
     ReleasesHalModule, ReleasesModule, ReturnsContext
     DEF create_context, release_context, create_device

----------------------------------------------------------------------------
(* Lists, inference and results *)

Outside == Stages \ OfContext

\* Outside of create_context no local pointer is set and the context stands.
LEMMA OutsideStep ==
    ASSUME WrapperInv, pc \in Outside, pc' \in Outside, UNCHANGED local,
           \A p \in {"gp_instance", "gp_device", "gp_context", "gp_model_weights"} :
               global'[p] = global[p],
           pc' \in OfInput => global["gp_device"] # NULL,
           pc' \in {"resolve", "invoke"} => global["gp_context"] # NULL,
           pc' \in OfOutput \cup {"resolve", "invoke"} => global'["gp_model_outputs"] # NULL,
           pc' \in {"view", "push view"} => global'["gp_model_inputs"] # NULL
    PROVE  LocalInv' /\ GlobalInv'
<1>1. local = {}
  BY DEF WrapperInv, LocalInv, Outside, Locals, OfContext, Creating, CleaningUp
<1>2. /\ pc' \notin Creating \cup ContextGone
      /\ pc' \notin {"device_allocator", "gp_device", "hal_module", "gp_context", "loader",
                     "release loader", "release allocator", "module"}
      /\ pc' \notin {"free weights", "copy weights", "gp_instance"}
  BY DEF Outside, OfContext, Creating, ContextGone
<1>3. LocalInv'
  BY <1>1, <1>2 DEF LocalInv
<1>4. GlobalInv'
  BY <1>1, <1>2 DEF WrapperInv, GlobalInv, IsSet
<1> QED BY <1>3, <1>4

LEMMA ReleasesInputs ==
    ASSUME WrapperInv, release_input_buffer
    PROVE  WrapperInv'
<1>1. /\ pc = "idle" /\ pc' = "idle" /\ Assigned("gp_model_inputs", NULL)
      /\ owned' = IF global["gp_model_inputs"] # NULL THEN owned \ {"gp_model_inputs"} ELSE owned
      /\ views' = [views EXCEPT !.moved = 0] /\ status' = "OK" /\ seen' = global' /\ lost' = lost
      /\ UNCHANGED <<local, mapping, copied, failures>>
  <2>1. lost + 0 = lost
    <3>1. lost \in Nat
      BY DEF WrapperInv, LossInv
    <3> QED BY <3>1
  <2> QED BY <2>1 DEF release_input_buffer, Return
<1>2. "gp_model_inputs" \in Globals /\ Fits("gp_model_inputs", NULL)
  BY DEF Globals, Fits
<1>3. Typed(global)' /\ OwnInv'
  BY <1>1, <1>2, OwnAssigned, TypedAssigned DEF WrapperInv, Typed
<1>4. /\ global'["gp_model_inputs"] = NULL
      /\ \A q \in Globals : q # "gp_model_inputs" => global'[q] = global[q]
  BY <1>1, <1>2, Assignment DEF WrapperInv
<1>5. /\ pc \in Outside /\ pc' \in Outside /\ pc' \notin OfContext /\ pc' \notin OfInput
      /\ pc' \notin OfOutput /\ pc' \in Stages
  BY <1>1 DEF Outside, Stages, OfContext, Creating, ContextGone, CleaningUp, OfInput, OfOutput
<1>6. LocalInv' /\ GlobalInv'
  BY <1>1, <1>4, <1>5, OutsideStep DEF Globals
<1>7. CallInv' /\ CopyInv'
  BY <1>1, <1>5 DEF WrapperInv, CallInv, CopyInv
<1>8. ViewsInv'
  BY <1>1, WrapperCallsAssumption DEF WrapperInv, ViewsInv
<1>9. LossInv'
  BY <1>1, LossKept
<1>10. Typed(seen)'
  BY <1>1, <1>3 DEF Typed
<1> QED BY <1>3, <1>5, <1>6, <1>7, <1>8, <1>9, <1>10 DEF WrapperInv

\* Steps that change nothing but the list of results.
LEMMA OutputStep ==
    ASSUME WrapperInv, pc \in Outside, pc' \in Outside, UNCHANGED <<local, views, call>>,
           pc \notin OfInput \cup OfOutput, pc' \notin OfInput \cup OfOutput,
           UNCHANGED <<mapping, copied>>,
           \A p \in Globals \ {"gp_model_outputs"} : global'[p] = global[p],
           pc' \in {"resolve", "invoke"} =>
               global["gp_context"] # NULL /\ global'["gp_model_outputs"] # NULL,
           Typed(global)', OwnInv', LossInv', seen' = seen \/ seen' = global'
    PROVE  WrapperInv'
<1>1. LocalInv' /\ GlobalInv'
  BY OutsideStep DEF Globals, OfInput
<1>2. CallInv' /\ CopyInv'
  BY DEF WrapperInv, CallInv, CopyInv, Outside, OfInput, OfOutput
<1>3. ViewsInv'
  <2>1. global'["gp_model_inputs"] = global["gp_model_inputs"]
    BY DEF Globals
  <2>2. /\ pc \notin {"view", "push view"}
        /\ pc' \notin {"view", "push view", "input list"}
    BY DEF OfInput
  <2> QED BY <2>1, <2>2 DEF WrapperInv, ViewsInv, IsSet
<1>4. Typed(seen)' /\ pc' \in Stages
  BY DEF WrapperInv, Typed, Outside
<1> QED BY <1>1, <1>2, <1>3, <1>4 DEF WrapperInv

LEMMA LostNothing == WrapperInv => lost + 0 = lost
<1> SUFFICES ASSUME WrapperInv PROVE lost + 0 = lost
  OBVIOUS
<1>1. lost \in Nat
  BY DEF WrapperInv, LossInv
<1> QED BY <1>1

LEMMA ReleasesOutputs ==
    ASSUME WrapperInv, release_output_buffer
    PROVE  WrapperInv'
<1>1. /\ pc = "idle" /\ pc' = "idle" /\ Assigned("gp_model_outputs", NULL)
      /\ owned' = IF global["gp_model_outputs"] # NULL THEN owned \ {"gp_model_outputs"} ELSE owned
      /\ status' = "OK" /\ seen' = global' /\ lost' = lost
      /\ UNCHANGED <<local, views, mapping, copied, failures>>
  BY LostNothing DEF release_output_buffer, Return
<1>2. "gp_model_outputs" \in Globals /\ Fits("gp_model_outputs", NULL)
  BY DEF Globals, Fits
<1>3. Typed(global)' /\ OwnInv'
  BY <1>1, <1>2, OwnAssigned, TypedAssigned DEF WrapperInv, Typed
<1>4. \A q \in Globals \ {"gp_model_outputs"} : global'[q] = global[q]
  BY <1>1, <1>2, Assignment DEF WrapperInv
<1>5. /\ pc \in Outside /\ pc' \in Outside /\ pc' \in Stages /\ pc' \notin OfContext
      /\ pc' \notin OfInput \cup OfOutput
  BY <1>1 DEF Outside, Stages, OfContext, Creating, ContextGone, CleaningUp, OfInput, OfOutput
<1>6. LossInv'
  BY <1>1, LossKept
<1>7. LocalInv' /\ GlobalInv'
  BY <1>1, <1>4, <1>5, OutsideStep DEF Globals
<1>8. CallInv' /\ CopyInv'
  BY <1>1, <1>5 DEF WrapperInv, CallInv, CopyInv
<1>9. ViewsInv'
  <2>1. global'["gp_model_inputs"] = global["gp_model_inputs"]
    BY <1>4 DEF Globals
  <2> QED BY <1>1, <2>1 DEF WrapperInv, ViewsInv, IsSet
<1>10. Typed(seen)'
  BY <1>1, <1>3 DEF Typed
<1> QED BY <1>3, <1>5, <1>6, <1>7, <1>8, <1>9, <1>10 DEF WrapperInv

\* What a call that enters a stage, or fails with an IREE error, leaves alone.
LEMMA EnterStage ==
    ASSUME WrapperInv, NEW fun, NEW next, Enter(next, fun)
    PROVE  /\ pc = "idle" /\ pc' = next /\ call' = fun /\ LossInv'
           /\ UNCHANGED <<global, local, owned, views, mapping, copied, seen>>
           /\ Typed(global)' /\ OwnInv'
<1>1. /\ pc = "idle" /\ pc' = next /\ call' = fun /\ status' = "OK"
      /\ UNCHANGED <<global, local, owned, views, mapping, copied, seen, failures, lost>>
  BY DEF Enter, Goto
<1>2. LossInv'
  BY <1>1, LossKept
<1> QED BY <1>1, <1>2, OwnSame

LEMMA FailedCall ==
    ASSUME WrapperInv, NEW name, NEW n \in 0..MAX_MODEL_INPUT_NUM, Fail(name, n), UNCHANGED local
    PROVE  /\ pc' = "idle" /\ seen' = global' /\ LossInv'
           /\ UNCHANGED <<global, owned>> /\ Typed(global)' /\ OwnInv'
<1>1. /\ failures < MaxFailures /\ failures' = failures + 1 /\ lost' = lost + n
      /\ pc' = "idle" /\ seen' = global' /\ status' = "IREE_ERROR"
      /\ UNCHANGED <<global, owned>>
  BY DEF Fail, Fails, Return
<1>2. LossInv'
  BY <1>1, LossKept
<1> QED BY <1>1, <1>2, OwnSame

LEMMA EntersOutputList ==
    ASSUME WrapperInv, Enter("output list", [fun |-> "prepare_output_buffer"])
    PROVE  WrapperInv'
<1>1. /\ pc = "idle" /\ pc' = "output list" /\ LossInv'
      /\ UNCHANGED <<global, local, owned, views, mapping, copied, seen>>
      /\ Typed(global)' /\ OwnInv'
  BY EnterStage
<1>2. /\ pc' \in Outside /\ pc \in Outside /\ pc' \notin OfContext /\ pc' \in Stages
      /\ pc' \notin OfInput /\ pc' \notin OfOutput
  BY <1>1 DEF Outside, Stages, OfContext, Creating, ContextGone, CleaningUp, OfInput, OfOutput
<1>3. LocalInv' /\ GlobalInv'
  BY <1>1, <1>2, OutsideStep
<1>4. CallInv' /\ CopyInv' /\ ViewsInv'
  BY <1>1, <1>2 DEF WrapperInv, CallInv, CopyInv, ViewsInv, IsSet
<1> QED BY <1>1, <1>2, <1>3, <1>4 DEF WrapperInv, Typed

LEMMA EntersInference ==
    ASSUME WrapperInv, global["gp_context"] # NULL, global["gp_model_outputs"] # NULL,
           Enter("resolve", [fun |-> "run_inference"])
    PROVE  WrapperInv'
<1>1. /\ pc = "idle" /\ pc' = "resolve" /\ LossInv'
      /\ UNCHANGED <<global, local, owned, views, mapping, copied, seen>>
      /\ Typed(global)' /\ OwnInv'
  BY EnterStage
<1>2. /\ pc' \in Outside /\ pc \in Outside /\ pc' \notin OfContext /\ pc' \in Stages
      /\ pc' \notin OfInput /\ pc' \notin OfOutput
  BY <1>1 DEF Outside, Stages, OfContext, Creating, ContextGone, CleaningUp, OfInput, OfOutput
<1>3. LocalInv' /\ GlobalInv'
  BY <1>1, <1>2, OutsideStep
<1>4. CallInv' /\ CopyInv' /\ ViewsInv'
  BY <1>1, <1>2 DEF WrapperInv, CallInv, CopyInv, ViewsInv, IsSet
<1> QED BY <1>1, <1>2, <1>3, <1>4 DEF WrapperInv, Typed

\* A list of results replaces the one there, or none.
LEMMA OutputsAssigned ==
    ASSUME WrapperInv, pc \in {"output list", "resolve", "invoke"}, pc' = "idle",
           NEW list \in ResultLists, Assigned("gp_model_outputs", list),
           \/ owned' = owned \cup {"gp_model_outputs"}
           \/ owned' = owned /\ global["gp_model_outputs"] # NULL,
           UNCHANGED <<call, local, views, mapping, copied, failures, lost>>,
           status' = "OK", seen' = global'
    PROVE  WrapperInv'
<1>1. "gp_model_outputs" \in Globals /\ Fits("gp_model_outputs", list) /\ list # NULL
  BY WrapperCallsAssumption DEF Globals, Fits
<1>2. Typed(global)' /\ OwnInv'
  BY <1>1, OwnAssigned, TypedAssigned DEF WrapperInv, Typed
<1>3. \A q \in Globals \ {"gp_model_outputs"} : global'[q] = global[q]
  BY <1>1, Assignment DEF WrapperInv
<1>4. /\ pc \in Outside /\ pc' \in Outside /\ pc \notin OfInput \cup OfOutput
      /\ pc' \notin OfInput \cup OfOutput
  BY DEF Outside, Stages, OfContext, Creating, ContextGone, CleaningUp, OfInput, OfOutput
<1>5. LossInv'
  BY LossKept
<1> QED BY <1>2, <1>3, <1>4, <1>5, OutputStep

\* A step of these stages that assigns no global.
LEMMA OutputsSame ==
    ASSUME WrapperInv, pc \in {"output list", "resolve", "invoke"}, pc' \in {"idle", "invoke"},
           pc' = "invoke" => pc = "resolve",
           UNCHANGED <<call, global, owned, local, views, mapping, copied>>,
           LossInv', seen' = seen \/ seen' = global'
    PROVE  WrapperInv'
<1>1. /\ pc \in Outside /\ pc' \in Outside /\ pc \notin OfInput \cup OfOutput
      /\ pc' \notin OfInput \cup OfOutput
  BY DEF Outside, Stages, OfContext, Creating, ContextGone, CleaningUp, OfInput, OfOutput
<1>2. pc' = "invoke" => global["gp_context"] # NULL /\ global["gp_model_outputs"] # NULL
  BY DEF WrapperInv, GlobalInv, IsSet
<1> QED BY <1>1, <1>2, OwnSame, OutputStep

LEMMA MakesOutputList ==
    ASSUME WrapperInv, MakeOutputList
    PROVE  WrapperInv'
<1> DEFINE list == [weights |-> NULL, data |-> NULL, views |-> 0]
<1>1. /\ pc = "output list" /\ UNCHANGED <<call, local, views, mapping, copied>>
      /\ \/ /\ owned' = owned \cup {"gp_model_outputs"} /\ Assigned("gp_model_outputs", list)
            /\ pc' = "idle" /\ status' = "OK" /\ seen' = global' /\ lost' = lost
            /\ UNCHANGED failures
         \/ Fail("output_list_create", 0)
  BY LostNothing DEF MakeOutputList, Created, Return
<1>2. list \in ResultLists /\ 0 \in 0..MAX_MODEL_INPUT_NUM
  BY WrapperCallsAssumption DEF ResultLists
<1>3. CASE Fail("output_list_create", 0)
  BY <1>1, <1>2, <1>3, FailedCall, OutputsSame
<1> HIDE DEF list
<1> QED BY <1>1, <1>2, <1>3, OutputsAssigned

LEMMA ResolvesFunction ==
    ASSUME WrapperInv, ResolveFunction
    PROVE  WrapperInv'
<1>1. /\ pc = "resolve" /\ UNCHANGED <<call, local, views, mapping, copied>>
      /\ \/ /\ pc' = "invoke" /\ UNCHANGED <<seen, lost, global, owned, status, failures>>
         \/ Fail("invoke", 0)
  BY DEF ResolveFunction, Goto, InProgress
<1>2. 0 \in 0..MAX_MODEL_INPUT_NUM
  BY WrapperCallsAssumption
<1>3. CASE Fail("invoke", 0)
  BY <1>1, <1>2, <1>3, FailedCall, OutputsSame
<1>4. CASE pc' = "invoke" /\ UNCHANGED <<seen, lost, global, owned, status, failures>>
  <2>1. status' \in {"OK", "IREE_ERROR", "INV_PTR"}
    BY <1>4 DEF WrapperInv, LossInv
  <2>2. LossInv'
    BY <1>4, <2>1, LossKept
  <2> QED BY <1>1, <1>4, <2>2, OutputsSame
<1> QED BY <1>1, <1>3, <1>4

LEMMA Invokes ==
    ASSUME WrapperInv, Invoke
    PROVE  WrapperInv'
<1> DEFINE list == [weights |-> global["gp_context"], data |-> global["gp_model_inputs"].data,
                    views |-> NumResults[global["gp_context"]]]
<1>1. /\ pc = "invoke" /\ UNCHANGED <<call, local, views, mapping, copied>>
      /\ \/ /\ ArgumentsFit /\ Assigned("gp_model_outputs", list)
            /\ pc' = "idle" /\ status' = "OK" /\ seen' = global' /\ lost' = lost
            /\ UNCHANGED <<owned, failures>>
         \/ /\ pc' = "idle" /\ status' = "IREE_ERROR" /\ seen' = global' /\ lost' = lost
            /\ UNCHANGED <<global, owned, failures>>
         \/ Fail("invoke", 0)
  BY LostNothing DEF Invoke, Return
<1>2. 0 \in 0..MAX_MODEL_INPUT_NUM
  BY WrapperCallsAssumption
<1>3. CASE Fail("invoke", 0)
  BY <1>1, <1>2, <1>3, FailedCall, OutputsSame
<1>4. CASE /\ pc' = "idle" /\ status' = "IREE_ERROR" /\ seen' = global' /\ lost' = lost
           /\ UNCHANGED <<global, owned, failures>>
  <2>1. LossInv'
    BY <1>4, LossKept
  <2> QED BY <1>1, <1>4, <2>1, OutputsSame
<1>5. CASE /\ ArgumentsFit /\ Assigned("gp_model_outputs", list)
           /\ pc' = "idle" /\ status' = "OK" /\ seen' = global' /\ lost' = lost
           /\ UNCHANGED <<owned, failures>>
  <2>1. global["gp_context"] \in Weights /\ global["gp_model_inputs"] \in InputLists
    BY <1>1, <1>5 DEF WrapperInv, GlobalInv, Typed, IsSet, ArgumentsFit
  <2>2. list \in ResultLists
    BY <2>1, WrapperCallsAssumption DEF ResultLists, InputLists
  <2> HIDE DEF list
  <2> QED BY <1>1, <1>5, <2>2, OutputsAssigned DEF WrapperInv, GlobalInv, IsSet
<1> QED BY <1>1, <1>3, <1>4, <1>5

\* Steps of prepare_input_buffer: the list of views and their counts.
LEMMA InputStep ==
    ASSUME WrapperInv, pc \in OfInput, pc' \in {"view", "push view", "idle"},
           UNCHANGED <<call, local, mapping, copied>>,
           \A p \in Globals \ {"gp_model_inputs"} : global'[p] = global[p],
           Typed(global)', OwnInv', LossInv', seen' = seen \/ seen' = global',
           ViewsInv', pc' \in {"view", "push view"} => global'["gp_model_inputs"] # NULL
    PROVE  WrapperInv'
<1>1. /\ pc \in Outside /\ pc' \in Outside /\ pc' \notin OfOutput /\ pc' \notin OfContext
      /\ pc \notin OfOutput
      /\ pc' \in Stages /\ pc' \notin {"resolve", "invoke"}
  BY DEF Outside, Stages, OfContext, Creating, ContextGone, CleaningUp, OfInput, OfOutput
<1>2. global["gp_device"] # NULL
  BY DEF WrapperInv, GlobalInv, IsSet
<1>3. LocalInv' /\ GlobalInv'
  BY <1>1, <1>2, OutsideStep DEF Globals
<1>4. CallInv'
  BY <1>1 DEF WrapperInv, CallInv
<1>5. CopyInv'
  BY <1>1 DEF WrapperInv, CopyInv, OfOutput
<1>6. Typed(seen)'
  BY DEF WrapperInv, Typed
<1> QED BY <1>1, <1>3, <1>4, <1>5, <1>6 DEF WrapperInv

LEMMA EntersInput ==
    ASSUME WrapperInv, global["gp_model_inputs"] = NULL, global["gp_device"] # NULL,
           NEW d \in Inputs, NEW n \in 1..MAX_MODEL_INPUT_NUM,
           Enter("input list", [fun |-> "prepare_input_buffer", data |-> d, num_input |-> n])
    PROVE  WrapperInv'
<1>1. /\ pc = "idle" /\ pc' = "input list" /\ LossInv'
      /\ call' = [fun |-> "prepare_input_buffer", data |-> d, num_input |-> n]
      /\ UNCHANGED <<global, local, owned, views, mapping, copied, seen>>
      /\ Typed(global)' /\ OwnInv'
  BY EnterStage
<1>2. /\ pc' \in Outside /\ pc \in Outside /\ pc' \notin OfContext /\ pc' \in Stages
      /\ pc' \notin OfOutput \cup {"resolve", "invoke"} /\ pc \notin OfOutput
  BY <1>1 DEF Outside, Stages, OfContext, Creating, ContextGone, CleaningUp, OfInput, OfOutput
<1>3. LocalInv' /\ GlobalInv'
  BY <1>1, <1>2, OutsideStep
<1>4. CallInv'
  BY <1>1, <1>2 DEF WrapperInv, CallInv
<1>5. CopyInv' /\ ViewsInv'
  BY <1>1, <1>2 DEF WrapperInv, CopyInv, ViewsInv, IsSet, OfOutput
<1> QED BY <1>1, <1>2, <1>3, <1>4, <1>5 DEF WrapperInv, Typed

\* A failed call loses the views that are not in the list.
LEMMA InputFails ==
    ASSUME WrapperInv, pc \in OfInput, NEW name, NEW n \in 0..MAX_MODEL_INPUT_NUM,
           Fail(name, n), UNCHANGED <<call, local, mapping, copied>>,
           views' = [views EXCEPT !.made = 0]
    PROVE  WrapperInv'
<1>1. /\ pc' = "idle" /\ seen' = global' /\ LossInv'
      /\ UNCHANGED <<global, owned>> /\ Typed(global)' /\ OwnInv'
  BY FailedCall
<1>2. ViewsInv'
  <2>1. /\ views \in [made : 0..MAX_MODEL_INPUT_NUM, moved : 0..MAX_MODEL_INPUT_NUM]
        /\ MAX_MODEL_INPUT_NUM \in Nat
    BY WrapperCallsAssumption DEF WrapperInv, ViewsInv
  <2>2. /\ views' \in [made : 0..MAX_MODEL_INPUT_NUM, moved : 0..MAX_MODEL_INPUT_NUM]
        /\ views'.made = 0 /\ views'.moved = views.moved
    BY <2>1
  <2> QED BY <1>1, <2>2 DEF WrapperInv, ViewsInv, IsSet
<1> QED BY <1>1, <1>2, InputStep

\* The state of the list while a call fills it.
LEMMA InputFacts ==
    ASSUME WrapperInv, pc \in OfInput
    PROVE  /\ views \in [made : 0..MAX_MODEL_INPUT_NUM, moved : 0..MAX_MODEL_INPUT_NUM]
           /\ MAX_MODEL_INPUT_NUM \in Nat
           /\ call.data \in Inputs /\ call.num_input \in 1..MAX_MODEL_INPUT_NUM
           /\ pc = "input list" => views.made = 0 /\ views.moved = 0
           /\ pc = "view" => views.moved = 0 /\ views.made < call.num_input
           /\ pc = "push view" => views.made > 0 /\ views.made + views.moved = call.num_input
  BY WrapperCallsAssumption DEF WrapperInv, ViewsInv, CallInv, OfInput

LEMMA ViewsHold ==
    ASSUME views' \in [made : 0..MAX_MODEL_INPUT_NUM, moved : 0..MAX_MODEL_INPUT_NUM],
           global'["gp_model_inputs"] # NULL,
           \/ pc' = "idle" /\ views'.made = 0
           \/ pc' = "view" /\ views'.moved = 0 /\ views'.made < call'.num_input
           \/ /\ pc' = "push view" /\ views'.made > 0
              /\ views'.made + views'.moved = call'.num_input
    PROVE  ViewsInv'
  BY DEF ViewsInv, IsSet

LEMMA MakesInputList ==
    ASSUME WrapperInv, MakeInputList
    PROVE  WrapperInv'
<1> DEFINE list == [data |-> call.data, views |-> 0]
<1>1. /\ pc = "input list" /\ UNCHANGED <<call, local, views, mapping, copied>>
      /\ \/ /\ owned' = owned \cup {"gp_model_inputs"} /\ Assigned("gp_model_inputs", list)
            /\ pc' = "view" /\ UNCHANGED <<seen, lost, status, failures>>
         \/ Fail("input_list_create", 0)
  BY DEF MakeInputList, Created, Goto, InProgress
<1>2. pc \in OfInput
  BY <1>1 DEF OfInput
<1>3. /\ views \in [made : 0..MAX_MODEL_INPUT_NUM, moved : 0..MAX_MODEL_INPUT_NUM]
      /\ call.data \in Inputs /\ call.num_input \in 1..MAX_MODEL_INPUT_NUM
      /\ views.made = 0 /\ views.moved = 0 /\ MAX_MODEL_INPUT_NUM \in Nat
  BY <1>1, <1>2, InputFacts
<1>4. CASE Fail("input_list_create", 0)
  <2>1. views' = [views EXCEPT !.made = 0]
    BY <1>1, <1>3
  <2> QED BY <1>1, <1>2, <1>3, <1>4, <2>1, InputFails
<1>5. CASE /\ owned' = owned \cup {"gp_model_inputs"} /\ Assigned("gp_model_inputs", list)
           /\ pc' = "view" /\ UNCHANGED <<seen, lost, status, failures>>
  <2>1. list \in InputLists /\ list # NULL
    BY <1>3, WrapperCallsAssumption DEF InputLists
  <2> HIDE DEF list
  <2>2. "gp_model_inputs" \in Globals /\ Fits("gp_model_inputs", list)
    BY <2>1 DEF Globals, Fits
  <2>3. Typed(global)' /\ OwnInv'
    BY <1>1, <1>5, <2>1, <2>2, OwnAssigned, TypedAssigned DEF WrapperInv, Typed
  <2>4. /\ global'["gp_model_inputs"] = list
        /\ \A q \in Globals \ {"gp_model_inputs"} : global'[q] = global[q]
    BY <1>5, <2>2, Assignment DEF WrapperInv
  <2>5. ViewsInv'
    <3>1. views'.moved = 0 /\ views'.made < call'.num_input
      <4>1. call' = call /\ views' = views
        BY <1>1
      <4>2. views.made < call.num_input
        BY <1>3
      <4> QED BY <1>3, <4>1, <4>2, Zenon
    <3>2. global'["gp_model_inputs"] # NULL
      BY <2>1, <2>4, Zenon
    <3> QED BY <1>1, <1>3, <1>5, <3>1, <3>2, ViewsHold
  <2>6. status' \in {"OK", "IREE_ERROR", "INV_PTR"}
    BY <1>5 DEF WrapperInv, LossInv
  <2>7. LossInv'
    BY <1>5, <2>6, LossKept
  <2> QED BY <1>1, <1>2, <1>5, <2>1, <2>3, <2>4, <2>5, <2>7, InputStep
<1> QED BY <1>1, <1>4, <1>5

LEMMA MakesView ==
    ASSUME WrapperInv, MakeView
    PROVE  WrapperInv'
<1>1. /\ pc = "view" /\ UNCHANGED <<call, local, mapping, copied>>
      /\ \/ /\ views' = [views EXCEPT !.made = views.made + 1]
            /\ pc' = IF views'.made = call.num_input THEN "push view" ELSE "view"
            /\ UNCHANGED <<seen, lost, global, owned, status, failures>>
         \/ Fail("input_views", views.made) /\ views' = [views EXCEPT !.made = 0]
  BY DEF MakeView, Goto, InProgress
<1>2. pc \in OfInput
  BY <1>1 DEF OfInput
<1>3. /\ views \in [made : 0..MAX_MODEL_INPUT_NUM, moved : 0..MAX_MODEL_INPUT_NUM]
      /\ call.num_input \in 1..MAX_MODEL_INPUT_NUM /\ MAX_MODEL_INPUT_NUM \in Nat
      /\ views.moved = 0 /\ views.made < call.num_input
  BY <1>1, <1>2, InputFacts
<1>4. CASE Fail("input_views", views.made) /\ views' = [views EXCEPT !.made = 0]
  BY <1>1, <1>2, <1>3, <1>4, InputFails
<1>5. CASE /\ views' = [views EXCEPT !.made = views.made + 1]
           /\ pc' = IF views'.made = call.num_input THEN "push view" ELSE "view"
           /\ UNCHANGED <<seen, lost, global, owned, status, failures>>
  <2>1. views.made \in Nat /\ views.made + 1 \in 0..MAX_MODEL_INPUT_NUM
    BY <1>3
  <2>2. /\ views' \in [made : 0..MAX_MODEL_INPUT_NUM, moved : 0..MAX_MODEL_INPUT_NUM]
        /\ views'.made = views.made + 1 /\ views'.moved = 0
    BY <1>3, <1>5, <2>1
  <2>3. global["gp_model_inputs"] # NULL
    BY <1>1 DEF WrapperInv, GlobalInv, IsSet
  <2>4. ViewsInv'
    <3>1. CASE views'.made = call.num_input
      <4>1. pc' = "push view" /\ views'.made > 0 /\ views'.made + views'.moved = call'.num_input
        <5>1. pc' = "push view" /\ call' = call
          BY <1>1, <1>5, <3>1
        <5>2. views'.made > 0 /\ views'.made + views'.moved = call.num_input
          <6>1. views'.made = views.made + 1 /\ views'.moved = 0 /\ views.made \in Nat
            BY <2>1, <2>2
          <6>2. views'.made \in Nat /\ views'.made > 0
            BY <6>1
          <6>3. views'.made + views'.moved = views'.made
            BY <6>1, <6>2
          <6> QED BY <3>1, <6>2, <6>3, Zenon
        <5> QED BY <5>1, <5>2, Zenon
      <4> QED BY <1>5, <2>2, <2>3, <4>1, ViewsHold
    <3>2. CASE views'.made # call.num_input
      <4>1. pc' = "view" /\ views'.moved = 0 /\ views'.made < call'.num_input
        <5>1. pc' = "view" /\ call' = call
          BY <1>1, <1>5, <3>2
        <5>2. views'.made < call.num_input
          <6>1. views'.made = views.made + 1 /\ views.made \in Nat /\ views.made < call.num_input
                /\ call.num_input \in Nat /\ views'.made # call.num_input
            BY <1>3, <2>1, <2>2, <3>2
          <6> QED BY <6>1
        <5> QED BY <2>2, <5>1, <5>2, Zenon
      <4> QED BY <1>5, <2>2, <2>3, <4>1, ViewsHold
    <3> QED BY <3>1, <3>2
  <2>5. status' \in {"OK", "IREE_ERROR", "INV_PTR"}
    BY <1>5 DEF WrapperInv, LossInv
  <2>6. LossInv'
    BY <1>5, <2>5, LossKept
  <2>7. Typed(global)' /\ OwnInv'
    BY <1>1, <1>5, OwnSame
  <2> QED BY <1>1, <1>2, <1>5, <2>3, <2>4, <2>6, <2>7, InputStep
<1> QED BY <1>1, <1>4, <1>5

LEMMA Positive == ASSUME NEW n \in Nat, n # 0 PROVE n > 0
  OBVIOUS

LEMMA PushesView ==
    ASSUME WrapperInv, PushView
    PROVE  WrapperInv'
<1> DEFINE list == [data |-> call.data, views |-> views'.moved]
<1>1. /\ pc = "push view" /\ UNCHANGED <<call, local, mapping, copied>>
      /\ \/ /\ views' = [made |-> views.made - 1, moved |-> views.moved + 1]
            /\ Assigned("gp_model_inputs", list)
            /\ \/ /\ views'.made = 0 /\ pc' = "idle" /\ status' = "OK"
                  /\ seen' = global' /\ lost' = lost
               \/ /\ views'.made # 0 /\ pc' = "push view" /\ status' = status
                  /\ seen' = seen /\ lost' = lost
            /\ UNCHANGED <<owned, failures>>
         \/ Fail("input_push", views.made) /\ views' = [views EXCEPT !.made = 0]
  BY LostNothing DEF PushView, Goto, InProgress, Return
<1>2. pc \in OfInput
  BY <1>1 DEF OfInput
<1>3. /\ views \in [made : 0..MAX_MODEL_INPUT_NUM, moved : 0..MAX_MODEL_INPUT_NUM]
      /\ call.data \in Inputs /\ call.num_input \in 1..MAX_MODEL_INPUT_NUM
      /\ MAX_MODEL_INPUT_NUM \in Nat
      /\ views.made > 0 /\ views.made + views.moved = call.num_input
  BY <1>1, <1>2, InputFacts
<1>4. CASE Fail("input_push", views.made) /\ views' = [views EXCEPT !.made = 0]
  BY <1>1, <1>2, <1>3, <1>4, InputFails
<1>5. CASE /\ views' = [made |-> views.made - 1, moved |-> views.moved + 1]
           /\ Assigned("gp_model_inputs", list)
           /\ \/ /\ views'.made = 0 /\ pc' = "idle" /\ status' = "OK"
                 /\ seen' = global' /\ lost' = lost
              \/ /\ views'.made # 0 /\ pc' = "push view" /\ status' = status
                 /\ seen' = seen /\ lost' = lost
           /\ UNCHANGED <<owned, failures>>
  <2>1. /\ views.made \in Nat /\ views.moved \in Nat
        /\ views.made - 1 \in 0..MAX_MODEL_INPUT_NUM
        /\ views.moved + 1 \in 0..MAX_MODEL_INPUT_NUM
        /\ (views.made - 1) + (views.moved + 1) = call.num_input
    BY <1>3
  <2>2. /\ views' \in [made : 0..MAX_MODEL_INPUT_NUM, moved : 0..MAX_MODEL_INPUT_NUM]
        /\ views'.made + views'.moved = call.num_input
    BY <1>5, <2>1
  <2>3. list \in InputLists /\ list # NULL
    BY <1>3, <2>2, WrapperCallsAssumption DEF InputLists
  <2>4. global["gp_model_inputs"] # NULL
    BY <1>1 DEF WrapperInv, GlobalInv, IsSet
  <2> HIDE DEF list
  <2>5. "gp_model_inputs" \in Globals /\ Fits("gp_model_inputs", list)
    BY <2>3 DEF Globals, Fits
  <2>6. Typed(global)' /\ OwnInv'
    BY <1>1, <1>5, <2>3, <2>4, <2>5, OwnAssigned, TypedAssigned DEF WrapperInv, Typed
  <2>7. /\ global'["gp_model_inputs"] = list
        /\ \A q \in Globals \ {"gp_model_inputs"} : global'[q] = global[q]
    BY <1>5, <2>5, Assignment DEF WrapperInv
  <2>8. ViewsInv'
    <3>1. global'["gp_model_inputs"] # NULL
      BY <2>3, <2>7, Zenon
    <3>2. views'.made \in Nat
      BY <2>2
    <3>3. \/ pc' = "idle" /\ views'.made = 0
          \/ /\ pc' = "push view" /\ views'.made > 0
             /\ views'.made + views'.moved = call'.num_input
      <4>1. views'.made + views'.moved = call'.num_input
        BY <1>1, <2>2, Zenon
      <4>2. CASE views'.made = 0 /\ pc' = "idle"
        BY <4>2
      <4>3. CASE views'.made # 0 /\ pc' = "push view"
        <5>1. views'.made > 0
          BY <3>2, <4>3, Positive, Zenon
        <5> QED BY <4>1, <4>3, <5>1, Zenon
      <4>4. \/ views'.made = 0 /\ pc' = "idle"
            \/ views'.made # 0 /\ pc' = "push view"
        BY <1>5, Zenon
      <4> QED BY <4>2, <4>3, <4>4, Zenon
    <3> QED BY <2>2, <3>1, <3>3, ViewsHold
  <2>9. status' \in {"OK", "IREE_ERROR", "INV_PTR"}
    BY <1>5 DEF WrapperInv, LossInv
  <2>10. LossInv'
    BY <1>5, <2>9, LossKept
  <2> QED BY <1>1, <1>2, <1>5, <2>3, <2>6, <2>7, <2>8, <2>10, InputStep
<1> QED BY <1>1, <1>4, <1>5

\* Steps of get_output, which assigns no global.
LEMMA ResultStep ==
    ASSUME WrapperInv, pc \in OfOutput \cup {"idle"}, pc' \in OfOutput \cup {"idle"},
           UNCHANGED <<global, local, owned, views>>, LossInv', seen' = seen \/ seen' = global',
           pc' \in OfOutput => /\ global["gp_model_outputs"] # NULL
                               /\ call'.num_output \in 1..MAX_MODEL_OUTPUTS,
           CopyInv'
    PROVE  WrapperInv'
<1>1. /\ pc \in Outside /\ pc' \in Outside /\ pc' \notin OfInput /\ pc' \notin OfContext
      /\ pc \notin OfInput
      /\ pc' \in Stages /\ pc' \notin {"resolve", "invoke"}
  BY DEF Outside, Stages, OfContext, Creating, ContextGone, CleaningUp, OfInput, OfOutput
<1>2. LocalInv' /\ GlobalInv'
  BY <1>1, OutsideStep DEF OfInput
<1>3. Typed(global)' /\ OwnInv'
  BY OwnSame
<1>4. CallInv'
  BY <1>1 DEF CallInv
<1>5. ViewsInv'
  BY <1>1 DEF WrapperInv, ViewsInv, IsSet, OfInput
<1>6. Typed(seen)'
  BY DEF WrapperInv, Typed
<1> QED BY <1>1, <1>2, <1>3, <1>4, <1>5, <1>6 DEF WrapperInv

LEMMA ResultFacts ==
    ASSUME WrapperInv
    PROVE  /\ MAX_MODEL_OUTPUTS \in Nat /\ copied \in 0..MAX_MODEL_OUTPUTS
           /\ status \in {"OK", "IREE_ERROR", "INV_PTR"}
           /\ pc \in OfOutput => /\ call.num_output \in 1..MAX_MODEL_OUTPUTS
                                 /\ global["gp_model_outputs"] # NULL
           /\ pc = "get result" => copied <= call.num_output
           /\ pc \in {"map result", "copy result"} => copied < call.num_output
           /\ pc = "copy result" => mapping = 1
           /\ pc # "copy result" => mapping = 0
  BY WrapperCallsAssumption DEF WrapperInv, CallInv, GlobalInv, CopyInv, LossInv, IsSet

LEMMA ZeroFits ==
    ASSUME NEW m \in Nat, NEW k \in 1..m
    PROVE  0 \in 0..m /\ 0 <= k
  OBVIOUS

LEMMA EntersResults ==
    ASSUME WrapperInv, global["gp_model_outputs"] # NULL, pc = "idle", copied' = 0,
           call'.num_output \in 1..MAX_MODEL_OUTPUTS, status' = "OK", pc' = "get result",
           UNCHANGED <<global, local, owned, views, mapping, seen, failures, lost>>
    PROVE  WrapperInv'
<1>1. LossInv'
  <2>1. status' \in {"OK", "IREE_ERROR", "INV_PTR"} /\ UNCHANGED <<failures, lost>>
    BY Zenon
  <2> QED BY <2>1, LossKept, Zenon
<1>2. CopyInv'
  <2>1. mapping' = 0 /\ MAX_MODEL_OUTPUTS \in Nat
    <3>1. mapping = 0 /\ MAX_MODEL_OUTPUTS \in Nat
      BY ResultFacts
    <3> QED BY <3>1, Zenon
  <2>2. 0 \in 0..MAX_MODEL_OUTPUTS /\ 0 <= call'.num_output
    BY <2>1, ZeroFits, Zenon
  <2>3. copied' \in 0..MAX_MODEL_OUTPUTS /\ copied' <= call'.num_output
    BY <2>2, Zenon
  <2>4. pc' \notin {"map result", "copy result"}
    BY Zenon
  <2> QED BY <2>1, <2>3, <2>4, Zenon DEF CopyInv
<1> QED BY <1>1, <1>2, ResultStep, Zenon DEF OfOutput

LEMMA GetsResult ==
    ASSUME WrapperInv, GetResult
    PROVE  WrapperInv'
<1>1. /\ pc = "get result"
      /\ UNCHANGED <<call, global, local, owned, views, copied, failures, mapping>>
      /\ \/ pc' = "idle" /\ status' \in {"OK", "INV_PTR"} /\ seen' = global' /\ lost' = lost
         \/ /\ pc' = "map result" /\ copied # call.num_output
            /\ UNCHANGED <<seen, lost, status>>
  BY LostNothing DEF GetResult, Return, Goto, InProgress
<1>2. /\ copied \in 0..MAX_MODEL_OUTPUTS /\ copied <= call.num_output /\ mapping = 0
      /\ call.num_output \in 1..MAX_MODEL_OUTPUTS /\ global["gp_model_outputs"] # NULL
      /\ MAX_MODEL_OUTPUTS \in Nat /\ status \in {"OK", "IREE_ERROR", "INV_PTR"}
  BY <1>1, ResultFacts DEF OfOutput
<1>3. LossInv'
  BY <1>1, <1>2, LossKept
<1>4. CopyInv'
  <2>1. copied # call.num_output => copied < call.num_output
    BY <1>2
  <2> QED BY <1>1, <1>2, <2>1 DEF CopyInv
<1> QED BY <1>1, <1>2, <1>3, <1>4, ResultStep DEF OfOutput

LEMMA MapsResult ==
    ASSUME WrapperInv, MapResult
    PROVE  WrapperInv'
<1>1. /\ pc = "map result" /\ UNCHANGED <<call, local, views, copied>>
      /\ \/ /\ mapping' = mapping + 1 /\ pc' = "copy result"
            /\ UNCHANGED <<seen, lost, global, owned, status, failures>>
         \/ Fail("map_range", 0) /\ UNCHANGED mapping
  BY DEF MapResult, Goto, InProgress
<1>2. /\ copied \in 0..MAX_MODEL_OUTPUTS /\ copied < call.num_output /\ mapping = 0
      /\ call.num_output \in 1..MAX_MODEL_OUTPUTS /\ global["gp_model_outputs"] # NULL
      /\ status \in {"OK", "IREE_ERROR", "INV_PTR"}
  BY <1>1, ResultFacts DEF OfOutput
<1>3. CASE Fail("map_range", 0) /\ UNCHANGED mapping
  <2>1. 0 \in 0..MAX_MODEL_INPUT_NUM
    BY WrapperCallsAssumption
  <2>2. pc' = "idle" /\ seen' = global' /\ LossInv' /\ UNCHANGED <<global, owned>>
    BY <1>1, <1>3, <2>1, FailedCall
  <2>3. CopyInv'
    BY <1>1, <1>2, <1>3, <2>2 DEF CopyInv
  <2> QED BY <1>1, <2>2, <2>3, ResultStep DEF OfOutput
<1>4. CASE /\ mapping' = mapping + 1 /\ pc' = "copy result"
           /\ UNCHANGED <<seen, lost, global, owned, status, failures>>
  <2>1. mapping' = 1
    <3>1. mapping = 0 /\ mapping' = mapping + 1
      BY <1>2, <1>4
    <3> QED BY <3>1
  <2>2. CopyInv'
    BY <1>1, <1>2, <1>4, <2>1 DEF CopyInv
  <2>3. LossInv'
    BY <1>2, <1>4, LossKept
  <2> QED BY <1>1, <1>2, <1>4, <2>2, <2>3, ResultStep DEF OfOutput
<1> QED BY <1>1, <1>3, <1>4

LEMMA CopiesResult ==
    ASSUME WrapperInv, CopyResult
    PROVE  WrapperInv'
<1>1. /\ pc = "copy result" /\ copied' = copied + 1 /\ mapping' = mapping - 1
      /\ pc' = "get result"
      /\ UNCHANGED <<seen, lost, call, global, local, owned, views, status, failures>>
  BY DEF CopyResult, Goto, InProgress
<1>2. /\ copied \in 0..MAX_MODEL_OUTPUTS /\ copied < call.num_output /\ mapping = 1
      /\ call.num_output \in 1..MAX_MODEL_OUTPUTS /\ global["gp_model_outputs"] # NULL
      /\ status \in {"OK", "IREE_ERROR", "INV_PTR"} /\ MAX_MODEL_OUTPUTS \in Nat
  BY <1>1, ResultFacts DEF OfOutput
<1>3. mapping' = 0 /\ copied' \in 0..MAX_MODEL_OUTPUTS /\ copied' <= call'.num_output
  <2>1. mapping = 1 /\ mapping' = mapping - 1
    BY <1>1, <1>2
  <2>2. mapping' = 0
    BY <2>1
  <2>3. /\ copied \in 0..MAX_MODEL_OUTPUTS /\ copied' = copied + 1
        /\ copied < call.num_output /\ call.num_output \in 1..MAX_MODEL_OUTPUTS
        /\ MAX_MODEL_OUTPUTS \in Nat
    BY <1>1, <1>2, Zenon
  <2>4. copied' \in 0..MAX_MODEL_OUTPUTS /\ copied' <= call.num_output
    BY <2>3
  <2> QED BY <1>1, <2>2, <2>4, Zenon
<1>4. CopyInv'
  BY <1>1, <1>3 DEF CopyInv
<1>5. LossInv'
  BY <1>1, <1>2, LossKept
<1> QED BY <1>1, <1>2, <1>4, <1>5, ResultStep DEF OfOutput

----------------------------------------------------------------------------

LEMMA StepKeeps == WrapperInv /\ [Next]_vars => WrapperInv'
<1> SUFFICES ASSUME WrapperInv, [Next]_vars PROVE WrapperInv'
  OBVIOUS
<1>1. CASE create_context
  BY <1>1, ContextStepKeeps
<1>2. CASE release_input_buffer
  BY <1>2, ReleasesInputs
<1>3. CASE release_output_buffer
  BY <1>3, ReleasesOutputs
<1>4. CASE prepare_input_buffer
  BY <1>4, EntersInput, MakesInputList, MakesView, PushesView DEF prepare_input_buffer
<1>5. CASE prepare_output_buffer
  BY <1>5, EntersOutputList, MakesOutputList DEF prepare_output_buffer
<1>6. CASE run_inference
  BY <1>6, EntersInference, ResolvesFunction, Invokes DEF run_inference
<1>7. CASE get_output
  <2>1. ASSUME NEW n \in 1..MAX_MODEL_OUTPUTS,
               call' = [fun |-> "get_output", num_output |-> n]
        PROVE  call'.num_output \in 1..MAX_MODEL_OUTPUTS
    BY <2>1
  <2> QED BY <1>7, <2>1, EntersResults, GetsResult, MapsResult, CopiesResult
             DEF get_output, Goto
<1>8. CASE UNCHANGED vars
  <2>1. UNCHANGED <<pc, call, global, local, owned, views, mapping, copied, status,
                    seen, failures, lost>>
    BY <1>8 DEF vars
  <2>2. OwnInv' /\ Typed(global)'
    BY <2>1, OwnSame
  <2>3. LocalInv' /\ GlobalInv' /\ CallInv' /\ ViewsInv'
    <3>1. LocalInv'
      BY <2>1 DEF WrapperInv, LocalInv
    <3>2. GlobalInv'
      BY <2>1 DEF WrapperInv, GlobalInv, IsSet
    <3>3. CallInv'
      BY <2>1 DEF WrapperInv, CallInv
    <3>4. ViewsInv'
      BY <2>1 DEF WrapperInv, ViewsInv, IsSet
    <3> QED BY <3>1, <3>2, <3>3, <3>4
  <2>4. CopyInv'
    BY <2>1 DEF WrapperInv, CopyInv
  <2>5. LossInv'
    BY <2>1 DEF WrapperInv, LossInv, OnlyFailuresLose
  <2>6. pc' \in Stages /\ Typed(seen)'
    BY <2>1 DEF WrapperInv, Typed
  <2> QED BY <2>2, <2>3, <2>4, <2>5, <2>6 DEF WrapperInv
<1> QED BY <1>1, <1>2, <1>3, <1>4, <1>5, <1>6, <1>7, <1>8 DEF Next

(***************************************************************************)
(* The inductive invariant of the wrapper (iree_wrapper.c), one IREE call  *)
(* at a time, whichever calls fail and however often.                      *)
(***************************************************************************)
THEOREM WrapperInvariant == Spec => []WrapperInv
BY InvStarts, StepKeeps, PTL DEF Spec

(***************************************************************************)
(* The handles, the counts of views and of copied results keep their type: *)
(* no list gets more views than it has room for.                           *)
(***************************************************************************)
THEOREM WrapperTypeCorrect == Spec => []WrapperCallsTypeOK
BY InvType, WrapperInvariant, PTL

(***************************************************************************)
(* Whatever IREE calls fail in create_context and create_device, the       *)
(* program owns exactly what its pointers show.                            *)
(***************************************************************************)
THEOREM Owned == Spec => []OwnedIsHeld
BY InvOwned, WrapperInvariant, PTL

(***************************************************************************)
(* No object outlives what it needs, on the error paths of create_context  *)
(* and its device and in release_context too.                              *)
(***************************************************************************)
THEOREM Standing == Spec => []NothingDangles
BY InvDangles, WrapperInvariant, PTL

(***************************************************************************)
(* Only failed calls of prepare_input_buffer lose memory, at most the      *)
(* views of one input each, for any number of failures.                    *)
(***************************************************************************)
THEOREM LossBounded == Spec => []OnlyFailuresLose
<1>1. WrapperInv => OnlyFailuresLose
  BY DEF WrapperInv, LossInv
<1> QED BY <1>1, WrapperInvariant, PTL

----------------------------------------------------------------------------
(* The wrapper's functions as one step each *)

\* A call that has not changed the globals yet, or never does.
Unchanging == {"idle", "input list", "output list", "resolve", "invoke"} \cup OfOutput

\* Stages of create_context that only success reaches, and those before the
\* device of the call stands.
Succeeding == {"copy weights", "gp_instance", "register types", "loader", "device_allocator",
               "gp_device", "module", "hal_module", "gp_context"}
BeforeDevice == {"release context", "register types", "loader", "device_allocator", "gp_device"}
                \cup ContextGone

\* The i-th IREE call of create_context failed, and the device is as it left it.
Blamed(i) ==
    /\ Wrapper!ContextCalls[i] \in Faults
    /\ i = 3 => seen["gp_device"] = NULL
    /\ global["gp_device"] = IF i > 3 THEN "device" ELSE seen["gp_device"]

\* What create_context has made of the globals its caller saw.
ContextSeen ==
    /\ status \in {"OK", "IREE_ERROR"}
    /\ \A p \in {"gp_model_inputs", "gp_model_outputs"} : global[p] = seen[p]
    /\ pc \in Succeeding => status = "OK"
    /\ status = "OK" /\ pc \in BeforeDevice => global["gp_device"] = seen["gp_device"]
    /\ status = "OK" /\ pc \in Creating \cup {"gp_instance"} =>
           global["gp_model_weights"] = call.blob
    /\ status = "OK" /\ pc \in {"cleanup", "release module", "cleaned up"} =>
           global["gp_context"] = call.blob /\ global["gp_model_weights"] = call.blob
    /\ status = "IREE_ERROR" => \E i \in 1..6 : Blamed(i)

\* What prepare_input_buffer has: the list it made, and as many views as were moved.
InputsSeen ==
    /\ \A p \in Globals \ {"gp_model_inputs"} : global[p] = seen[p]
    /\ global["gp_model_inputs"] = [data |-> call.data, views |-> views.moved]

FunctionOf ==
    /\ pc \in OfContext => call.fun = "create_context"
    /\ pc \in OfInput => call.fun = "prepare_input_buffer"
    /\ pc = "output list" => call.fun = "prepare_output_buffer"
    /\ pc \in {"resolve", "invoke"} => call.fun = "run_inference"
    /\ pc \in OfOutput => call.fun = "get_output"

SeenInv ==
    /\ FunctionOf
    /\ pc \in Unchanging => global = seen
    /\ pc \in OfContext => ContextSeen
    /\ pc \in {"view", "push view"} => InputsSeen
    /\ pc = "output list" => seen["gp_model_outputs"] = NULL
    /\ pc \in OfOutput => copied <= global["gp_model_outputs"].views
    /\ pc \in {"map result", "copy result"} => copied < global["gp_model_outputs"].views

\* What a step owes its caller.
Owed == IF pc' = "idle" THEN Specified(call', status') ELSE UNCHANGED seen

LEMMA SeenStarts == Init => SeenInv
  BY DEF Init, SeenInv, FunctionOf, Unchanging, OfContext, Creating, ContextGone, CleaningUp,
         OfInput, OfOutput

LEMMA SeenAtReturn == pc' = "idle" /\ seen' = global' => SeenInv'
  BY DEF SeenInv, FunctionOf, OfContext, Creating, ContextGone, CleaningUp, OfInput, OfOutput

----------------------------------------------------------------------------
(* create_context returns as specified *)

LEMMA SixCalls ==
    /\ DOMAIN Wrapper!ContextCalls = 1..6
    /\ Wrapper!ContextCalls[1] = "iree_vm_instance_create"
    /\ Wrapper!ContextCalls[2] = "iree_hal_module_register_all_types"
    /\ Wrapper!ContextCalls[3] = "create_device"
    /\ Wrapper!ContextCalls[4] = "iree_vm_bytecode_module_create"
    /\ Wrapper!ContextCalls[5] = "iree_hal_module_create"
    /\ Wrapper!ContextCalls[6] = "iree_vm_context_create_with_modules"
  BY DEF Wrapper!ContextCalls

LEMMA SeenInContext ==
    ASSUME pc' \in OfContext, call'.fun = "create_context", ContextSeen', seen' = seen
    PROVE  SeenInv' /\ Owed
<1>1. /\ pc' \notin Unchanging /\ pc' \notin OfInput /\ pc' \notin OfOutput /\ pc' # "idle"
      /\ pc' \notin {"view", "push view", "output list", "resolve", "invoke",
                     "map result", "copy result"}
  BY DEF Unchanging, OfContext, Creating, ContextGone, CleaningUp, OfInput, OfOutput
<1> QED BY <1>1 DEF SeenInv, FunctionOf, Owed

\* A step of create_context that does not fail.
LEMMA ContextGoesOn ==
    ASSUME ContextSeen, pc' \in OfContext, call.fun = "create_context",
           UNCHANGED <<call, status, seen>>,
           \A p \in {"gp_model_inputs", "gp_model_outputs"} : global'[p] = global[p],
           pc' \in Succeeding => status = "OK",
           status = "OK" /\ pc' \in BeforeDevice => global'["gp_device"] = seen["gp_device"],
           status = "OK" /\ pc' \in Creating \cup {"gp_instance"} =>
               global'["gp_model_weights"] = call.blob,
           status = "OK" /\ pc' \in {"cleanup", "release module", "cleaned up"} =>
               global'["gp_context"] = call.blob /\ global'["gp_model_weights"] = call.blob,
           status = "IREE_ERROR" => global'["gp_device"] = global["gp_device"]
    PROVE  SeenInv' /\ Owed
<1>1. status = "IREE_ERROR" => \E i \in 1..6 : Blamed(i)'
  BY DEF ContextSeen, Blamed
<1>2. ContextSeen'
  BY <1>1 DEF ContextSeen
<1> QED BY <1>2, SeenInContext

\* A step of it that fails.
LEMMA ContextBlames ==
    ASSUME ContextSeen, pc' \in OfContext \ Succeeding, call.fun = "create_context",
           UNCHANGED <<call, global, seen>>, status' = "IREE_ERROR",
           NEW i \in 1..6, Blamed(i)
    PROVE  SeenInv' /\ Owed
<1>1. Blamed(i)'
  BY DEF Blamed
<1>2. ContextSeen'
  BY <1>1 DEF ContextSeen
<1> QED BY <1>2, SeenInContext

\* What is known at a statement of create_context.
LEMMA ContextFacts ==
    ASSUME WrapperInv, SeenInv, pc \in OfContext
    PROVE  ContextSeen /\ call.fun = "create_context" /\ call.blob \in Weights
  BY DEF SeenInv, FunctionOf, WrapperInv, CallInv

LEMMA SeenEntersContext ==
    ASSUME SeenInv, NEW blob \in Weights,
           Enter("release context", [fun |-> "create_context", blob |-> blob])
    PROVE  SeenInv' /\ Owed
<1>1. /\ pc = "idle" /\ pc' = "release context" /\ status' = "OK"
      /\ call'.fun = "create_context" /\ UNCHANGED <<global, seen>>
  BY DEF Enter, Goto
<1>2. global = seen
  BY <1>1 DEF SeenInv, Unchanging
<1>3. ContextSeen'
  BY <1>1, <1>2 DEF ContextSeen, Succeeding, Creating
<1> QED BY <1>1, <1>3, SeenInContext DEF OfContext, CleaningUp

LEMMA SeenReleasesContext ==
    ASSUME WrapperInv, SeenInv,
           ReleaseGlobal("release context", "gp_context", "release instance")
    PROVE  SeenInv' /\ Owed
<1>1. /\ pc = "release context" /\ pc' = "release instance" /\ Assigned("gp_context", NULL)
      /\ UNCHANGED <<call, status, seen>>
  BY DEF ReleaseGlobal, Goto, InProgress
<1>2. pc \in OfContext /\ pc' \in OfContext /\ pc \in BeforeDevice
      /\ pc' \notin Succeeding \cup Creating \cup {"gp_instance"}
  BY <1>1 DEF OfContext, Creating, ContextGone, CleaningUp, Succeeding, BeforeDevice
<1>3. \A q \in Globals : q # "gp_context" => global'[q] = global[q]
  BY <1>1, Assignment DEF WrapperInv, Globals
<1>4. /\ global'["gp_device"] = global["gp_device"]
      /\ \A p \in {"gp_model_inputs", "gp_model_outputs"} : global'[p] = global[p]
  BY <1>3 DEF Globals
<1>5. ContextSeen /\ call.fun = "create_context"
  BY <1>2, ContextFacts
<1> QED BY <1>1, <1>2, <1>4, <1>5, ContextGoesOn DEF ContextSeen

LEMMA SeenReleasesInstance ==
    ASSUME WrapperInv, SeenInv,
           ReleaseGlobal("release instance", "gp_instance", "free weights")
    PROVE  SeenInv' /\ Owed
<1>1. /\ pc = "release instance" /\ pc' = "free weights" /\ Assigned("gp_instance", NULL)
      /\ UNCHANGED <<call, status, seen>>
  BY DEF ReleaseGlobal, Goto, InProgress
<1>2. pc \in OfContext /\ pc' \in OfContext /\ pc \in BeforeDevice
      /\ pc' \notin Succeeding \cup Creating \cup {"gp_instance"}
  BY <1>1 DEF OfContext, Creating, ContextGone, CleaningUp, Succeeding, BeforeDevice
<1>3. \A q \in Globals : q # "gp_instance" => global'[q] = global[q]
  BY <1>1, Assignment DEF WrapperInv, Globals
<1>4. /\ global'["gp_device"] = global["gp_device"]
      /\ \A p \in {"gp_model_inputs", "gp_model_outputs"} : global'[p] = global[p]
  BY <1>3 DEF Globals
<1>5. ContextSeen /\ call.fun = "create_context"
  BY <1>2, ContextFacts
<1> QED BY <1>1, <1>2, <1>4, <1>5, ContextGoesOn DEF ContextSeen

\* The clean-up of a failed call ends here.
LEMMA SeenFreesWeights ==
    ASSUME WrapperInv, SeenInv, FreeWeights
    PROVE  SeenInv' /\ Owed
<1>1. /\ pc = "free weights" /\ Assigned("gp_model_weights", NULL) /\ UNCHANGED <<call, status>>
      /\ \/ status = "OK" /\ pc' = "copy weights" /\ seen' = seen
         \/ status # "OK" /\ pc' = "idle" /\ seen' = global'
  BY DEF FreeWeights, Goto, InProgress, Return
<1>2. pc \in OfContext /\ pc \in BeforeDevice
  BY <1>1 DEF OfContext, ContextGone, BeforeDevice
<1>3. /\ global'["gp_model_weights"] = NULL
      /\ \A q \in Globals : q # "gp_model_weights" => global'[q] = global[q]
  BY <1>1, Assignment DEF WrapperInv, Globals
<1>4. \A p \in {"gp_model_inputs", "gp_model_outputs", "gp_device", "gp_context", "gp_instance"} :
          global'[p] = global[p]
  BY <1>3 DEF Globals
<1>5. ContextSeen /\ call.fun = "create_context"
  BY <1>2, ContextFacts
<1>6. CASE status = "OK" /\ pc' = "copy weights" /\ seen' = seen
  <2>1. pc' \in OfContext \ (Creating \cup {"gp_instance"})
        /\ pc' \notin {"cleanup", "release module", "cleaned up"}
    BY <1>6 DEF OfContext, Creating, ContextGone
  <2> QED BY <1>1, <1>2, <1>4, <1>5, <1>6, <2>1, ContextGoesOn DEF ContextSeen
<1>7. CASE status # "OK" /\ pc' = "idle" /\ seen' = global'
  <2>1. SeenInv'
    BY <1>7, SeenAtReturn
  <2>2. PICK i \in 1..6 : Blamed(i)
    BY <1>5, <1>7 DEF ContextSeen
  <2>3. global["gp_context"] = NULL /\ global["gp_instance"] = NULL
    BY <1>1 DEF WrapperInv, GlobalInv, IsSet, ContextGone
  <2>4. \A p \in {"gp_model_inputs", "gp_model_outputs"} : global[p] = seen[p]
    BY <1>5 DEF ContextSeen
  <2>5. Wrapper!context_failed(i)
    BY <1>3, <1>4, <1>7, <2>2, <2>3
       DEF Blamed, Wrapper!context_failed, Wrapper!release_context, Wrapper!DeviceCall
  <2>6. status' = "IREE_ERROR"
    BY <1>1, <1>5, <1>7 DEF ContextSeen
  <2>7. Wrapper!create_context(call'.blob, status')
    BY <2>5, <2>6, SixCalls DEF Wrapper!create_context
  <2>8. Unseen({"gp_instance", "gp_device", "gp_context", "gp_model_weights"})
    BY <1>4, <1>7, <2>4 DEF Unseen, Globals
  <2>9. Specified(call', status')
    BY <1>1, <1>5, <2>7, <2>8 DEF Specified
  <2> QED BY <1>7, <2>1, <2>9 DEF Owed
<1> QED BY <1>1, <1>6, <1>7

LEMMA Indices ==
    /\ \A i \in 1..6 : i < 3 \/ i = 3 \/ i > 3
    /\ \A i \in 3..6 : i \in 1..6 /\ ~(i < 3) /\ (i = 3 \/ i > 3)
    /\ 1 \in 1..6 /\ 1 < 3 /\ 1 # 3 /\ ~(1 > 3)
    /\ 3 \in 1..6 /\ ~(3 < 3) /\ ~(3 > 3)
  OBVIOUS

LEMMA SeenCopiesWeights ==
    ASSUME WrapperInv, SeenInv, CopyWeights
    PROVE  SeenInv' /\ Owed
<1>1. /\ pc = "copy weights" /\ pc' = "gp_instance" /\ Assigned("gp_model_weights", call.blob)
      /\ UNCHANGED <<call, status, seen>>
  BY DEF CopyWeights, Goto, InProgress
<1>2. /\ pc \in OfContext /\ pc' \in OfContext /\ pc \in BeforeDevice /\ pc \in Succeeding
      /\ pc' \notin {"cleanup", "release module", "cleaned up"}
  BY <1>1 DEF OfContext, Creating, ContextGone, CleaningUp, Succeeding, BeforeDevice
<1>3. /\ global'["gp_model_weights"] = call.blob
      /\ \A q \in Globals : q # "gp_model_weights" => global'[q] = global[q]
  BY <1>1, Assignment DEF WrapperInv, Globals
<1>4. /\ global'["gp_device"] = global["gp_device"]
      /\ \A p \in {"gp_model_inputs", "gp_model_outputs"} : global'[p] = global[p]
  BY <1>3 DEF Globals
<1>5. ContextSeen /\ call.fun = "create_context"
  BY <1>2, ContextFacts
<1> QED BY <1>1, <1>2, <1>3, <1>4, <1>5, ContextGoesOn DEF ContextSeen

\* The calls of create_context fail at a stage that only success reaches.
LEMMA Blames ==
    ASSUME WrapperInv, SeenInv, pc \in Succeeding, pc' \in OfContext \ Succeeding,
           UNCHANGED <<call, global, seen>>, status' = "IREE_ERROR",
           NEW i \in 1..6, Wrapper!ContextCalls[i] \in Faults,
           i = 3 => pc \in {"loader", "device_allocator", "gp_device"},
           i > 3 => pc \in {"module", "hal_module", "gp_context"},
           i < 3 => pc \in {"gp_instance", "register types"}
    PROVE  SeenInv' /\ Owed
<1>1. pc \in OfContext
  BY DEF Succeeding, OfContext, Creating, ContextGone
<1>2. ContextSeen /\ call.fun = "create_context" /\ status = "OK"
  BY <1>1, ContextFacts DEF ContextSeen
<1>3. Blamed(i)
  <2>1. CASE i > 3
    <3>1. global["gp_device"] = "device" /\ i # 3
      BY <2>1 DEF WrapperInv, GlobalInv, Typed, IsSet
    <3> QED BY <2>1, <3>1 DEF Blamed
  <2>2. CASE i = 3
    <3>1. global["gp_device"] = NULL /\ ~(i > 3)
      BY <2>2 DEF WrapperInv, GlobalInv, IsSet
    <3>2. global["gp_device"] = seen["gp_device"]
      BY <1>2, <2>2 DEF ContextSeen, BeforeDevice
    <3> QED BY <2>2, <3>1, <3>2 DEF Blamed
  <2>3. CASE i < 3
    <3>1. i # 3 /\ ~(i > 3)
      BY <2>3
    <3>2. global["gp_device"] = seen["gp_device"]
      BY <1>2, <2>3 DEF ContextSeen, BeforeDevice, ContextGone
    <3> QED BY <3>1, <3>2 DEF Blamed
  <2>4. i > 3 \/ i = 3 \/ i < 3
    BY Indices, Zenon
  <2> QED BY <2>1, <2>2, <2>3, <2>4
<1> QED BY <1>2, <1>3, ContextBlames

LEMMA SeenCreatesInstance ==
    ASSUME WrapperInv, SeenInv,
           CreateGlobal("iree_vm_instance_create", "gp_instance", "instance",
                        "register types", "cleanup")
    PROVE  SeenInv' /\ Owed
<1>1. /\ pc = "gp_instance" /\ UNCHANGED <<call, seen>>
      /\ \/ /\ pc' = "register types" /\ Assigned("gp_instance", "instance")
            /\ status' = status
         \/ /\ pc' = "cleanup" /\ status' = "IREE_ERROR" /\ UNCHANGED global
            /\ "iree_vm_instance_create" \in Faults
  BY DEF CreateGlobal, Goto, InProgress, Fails
<1>2. CASE pc' = "cleanup" /\ status' = "IREE_ERROR" /\ UNCHANGED global
           /\ "iree_vm_instance_create" \in Faults
  <2>1. 1 \in 1..6 /\ ~(1 = 3) /\ ~(1 > 3)
    BY Indices, Zenon
  <2>2. pc \in Succeeding /\ pc' \in OfContext \ Succeeding
    BY <1>1, <1>2 DEF OfContext, CleaningUp, Succeeding
  <2> QED BY <1>1, <1>2, <2>1, <2>2, SixCalls, Blames
<1>3. CASE pc' = "register types" /\ Assigned("gp_instance", "instance") /\ status' = status
  <2>1. /\ pc \in OfContext /\ pc' \in OfContext /\ pc \in BeforeDevice /\ pc \in Succeeding
        /\ pc' \notin {"cleanup", "release module", "cleaned up"}
    BY <1>1, <1>3 DEF OfContext, Creating, ContextGone, CleaningUp, Succeeding, BeforeDevice
  <2>2. \A q \in Globals : q # "gp_instance" => global'[q] = global[q]
    BY <1>3, Assignment DEF WrapperInv, Globals
  <2>3. \A p \in {"gp_model_inputs", "gp_model_outputs", "gp_device", "gp_model_weights"} :
            global'[p] = global[p]
    BY <2>2 DEF Globals
  <2>4. ContextSeen /\ call.fun = "create_context"
    BY <2>1, ContextFacts
  <2> QED BY <1>1, <1>3, <2>1, <2>3, <2>4, ContextGoesOn DEF ContextSeen
<1> QED BY <1>1, <1>2, <1>3

LEMMA SeenRegistersTypes ==
    ASSUME WrapperInv, SeenInv, RegisterTypes
    PROVE  SeenInv' /\ Owed
<1>1. /\ pc = "register types" /\ UNCHANGED <<call, global, seen>>
      /\ \/ pc' \in {"loader", "module"} /\ status' = status
         \/ /\ pc' = "cleanup" /\ status' = "IREE_ERROR"
            /\ "iree_hal_module_register_all_types" \in Faults
  BY DEF RegisterTypes, Goto, InProgress, Fails
<1>2. CASE /\ pc' = "cleanup" /\ status' = "IREE_ERROR"
           /\ "iree_hal_module_register_all_types" \in Faults
  <2>1. 2 \in 1..6 /\ ~(2 = 3) /\ ~(2 > 3)
    OBVIOUS
  <2>2. pc \in Succeeding /\ pc' \in OfContext \ Succeeding
    BY <1>1, <1>2 DEF OfContext, CleaningUp, Succeeding
  <2> QED BY <1>1, <1>2, <2>1, <2>2, SixCalls, Blames
<1>3. CASE pc' \in {"loader", "module"} /\ status' = status
  <2>1. /\ pc \in OfContext /\ pc' \in OfContext /\ pc \in BeforeDevice /\ pc \in Succeeding
        /\ pc \in Creating
        /\ pc' \notin {"cleanup", "release module", "cleaned up"}
    BY <1>1, <1>3 DEF OfContext, Creating, ContextGone, CleaningUp, Succeeding, BeforeDevice
  <2>2. ContextSeen /\ call.fun = "create_context"
    BY <2>1, ContextFacts
  <2> QED BY <1>1, <1>3, <2>1, <2>2, ContextGoesOn DEF ContextSeen
<1> QED BY <1>1, <1>2, <1>3

\* A call that creates an object into a local pointer.
LEMMA SeenCreatesLocal ==
    ASSUME WrapperInv, SeenInv, NEW i \in 3..6, NEW object, NEW next, NEW onError,
           object \in Succeeding \cap Creating, next \in Succeeding \cap Creating,
           onError \in {"release loader", "cleanup"},
           i = 3 => object \in {"loader", "device_allocator"},
           i > 3 => object \in {"module", "hal_module"} /\ next \notin BeforeDevice,
           CreateLocal(Wrapper!ContextCalls[i], object, next, onError)
    PROVE  SeenInv' /\ Owed
<1>1. /\ pc = object /\ UNCHANGED <<call, global, seen>>
      /\ \/ pc' = next /\ status' = status
         \/ pc' = onError /\ status' = "IREE_ERROR" /\ Wrapper!ContextCalls[i] \in Faults
  BY DEF CreateLocal, Goto, InProgress, Fails
<1>2. pc \in Succeeding /\ pc \in Creating /\ pc \in OfContext
  BY <1>1 DEF OfContext
<1>3. CASE pc' = onError /\ status' = "IREE_ERROR" /\ Wrapper!ContextCalls[i] \in Faults
  <2>1. pc' \in OfContext \ Succeeding
    BY <1>3 DEF OfContext, CleaningUp, Creating, Succeeding
  <2>2. i \in 1..6 /\ ~(i < 3)
    BY Indices, Zenon
  <2> QED BY <1>1, <1>2, <1>3, <2>1, <2>2, Blames
<1>4. CASE pc' = next /\ status' = status
  <2>1. pc' \in OfContext /\ pc' \notin {"cleanup", "release module", "cleaned up"}
    BY <1>4 DEF OfContext, Creating
  <2>2. ContextSeen /\ call.fun = "create_context"
    BY <1>2, ContextFacts
  <2>3. pc' \in BeforeDevice => pc \in BeforeDevice
    <3>1. i = 3 \/ i > 3
      BY Indices, Zenon
    <3> QED BY <1>1, <1>4, <3>1 DEF BeforeDevice
  <2> QED BY <1>1, <1>2, <1>4, <2>1, <2>2, <2>3, ContextGoesOn DEF ContextSeen
<1> QED BY <1>1, <1>3, <1>4

LEMMA SeenCreatesDevice ==
    ASSUME WrapperInv, SeenInv,
           CreateGlobal("create_device", "gp_device", "device", "release loader", "release loader")
    PROVE  SeenInv' /\ Owed
<1>1. /\ pc = "gp_device" /\ UNCHANGED <<call, seen>> /\ pc' = "release loader"
      /\ \/ Assigned("gp_device", "device") /\ status' = status
         \/ status' = "IREE_ERROR" /\ UNCHANGED global /\ "create_device" \in Faults
  BY DEF CreateGlobal, Goto, InProgress, Fails
<1>2. pc \in Succeeding /\ pc \in Creating /\ pc \in OfContext /\ pc' \in OfContext \ Succeeding
      /\ pc' \notin BeforeDevice /\ pc' \notin {"cleanup", "release module", "cleaned up"}
  BY <1>1 DEF OfContext, CleaningUp, Creating, ContextGone, Succeeding, BeforeDevice
<1>3. CASE status' = "IREE_ERROR" /\ UNCHANGED global /\ "create_device" \in Faults
  <2>1. 3 \in 1..6 /\ ~(3 < 3) /\ ~(3 > 3)
    BY Indices, Zenon
  <2> QED BY <1>1, <1>2, <1>3, <2>1, SixCalls, Blames
<1>4. CASE Assigned("gp_device", "device") /\ status' = status
  <2>1. \A q \in Globals : q # "gp_device" => global'[q] = global[q]
    BY <1>4, Assignment DEF WrapperInv, Globals
  <2>2. \A p \in {"gp_model_inputs", "gp_model_outputs", "gp_model_weights"} :
            global'[p] = global[p]
    BY <2>1 DEF Globals
  <2>3. ContextSeen /\ call.fun = "create_context" /\ status = "OK"
    BY <1>2, ContextFacts DEF ContextSeen
  <2> QED BY <1>1, <1>2, <1>4, <2>2, <2>3, ContextGoesOn DEF ContextSeen
<1> QED BY <1>1, <1>3, <1>4

LEMMA SeenCreatesContext ==
    ASSUME WrapperInv, SeenInv,
           CreateGlobal("iree_vm_context_create_with_modules", "gp_context",
                        global["gp_model_weights"], "cleanup", "cleanup")
    PROVE  SeenInv' /\ Owed
<1>1. /\ pc = "gp_context" /\ UNCHANGED <<call, seen>> /\ pc' = "cleanup"
      /\ \/ Assigned("gp_context", global["gp_model_weights"]) /\ status' = status
         \/ /\ status' = "IREE_ERROR" /\ UNCHANGED global
            /\ "iree_vm_context_create_with_modules" \in Faults
  BY DEF CreateGlobal, Goto, InProgress, Fails
<1>2. pc \in Succeeding /\ pc \in Creating /\ pc \in OfContext /\ pc' \in OfContext \ Succeeding
      /\ pc' \notin BeforeDevice /\ pc' \notin Creating \cup {"gp_instance"}
  BY <1>1 DEF OfContext, CleaningUp, Creating, ContextGone, Succeeding, BeforeDevice
<1>3. CASE /\ status' = "IREE_ERROR" /\ UNCHANGED global
           /\ "iree_vm_context_create_with_modules" \in Faults
  <2>1. 6 \in 1..6 /\ ~(6 < 3) /\ ~(6 = 3)
    OBVIOUS
  <2> QED BY <1>1, <1>2, <1>3, <2>1, SixCalls, Blames
<1>4. CASE Assigned("gp_context", global["gp_model_weights"]) /\ status' = status
  <2>1. /\ global'["gp_context"] = global["gp_model_weights"]
        /\ \A q \in Globals : q # "gp_context" => global'[q] = global[q]
    BY <1>4, Assignment DEF WrapperInv, Globals
  <2>2. \A p \in {"gp_model_inputs", "gp_model_outputs", "gp_model_weights"} :
            global'[p] = global[p]
    BY <2>1 DEF Globals
  <2>3. ContextSeen /\ call.fun = "create_context" /\ status = "OK"
    BY <1>2, ContextFacts DEF ContextSeen
  <2>4. global["gp_model_weights"] = call.blob
    BY <1>2, <2>3 DEF ContextSeen
  <2> QED BY <1>1, <1>2, <1>4, <2>1, <2>2, <2>3, <2>4, ContextGoesOn
<1> QED BY <1>1, <1>3, <1>4

\* What is released on the way touches no global.
LEMMA SeenReleasesLocal ==
    ASSUME WrapperInv, SeenInv, NEW at, NEW object, NEW next, ReleaseLocal(at, object, next),
           \/ at = "release loader" /\ next = "release allocator"
           \/ at = "release allocator" /\ next = IF status = "OK" THEN "module" ELSE "cleanup"
           \/ at = "cleanup" /\ next = "release module"
           \/ at = "release module" /\ next = "cleaned up"
    PROVE  SeenInv' /\ Owed
<1>1. pc = at /\ pc' = next /\ UNCHANGED <<call, global, status, seen>>
  BY DEF ReleaseLocal, Goto, InProgress
<1>2. /\ pc \in OfContext /\ pc' \in OfContext /\ pc' \notin BeforeDevice
      /\ pc' \in Succeeding => status = "OK"
      /\ status = "OK" /\ pc' \in Creating \cup {"gp_instance"} => pc \in Creating
      /\ status = "OK" /\ pc' \in {"cleanup", "release module", "cleaned up"} =>
             pc \in {"cleanup", "release module"}
  BY <1>1 DEF OfContext, CleaningUp, Creating, ContextGone, Succeeding, BeforeDevice
<1>3. ContextSeen /\ call.fun = "create_context"
  BY <1>2, ContextFacts
<1> QED BY <1>1, <1>2, <1>3, ContextGoesOn DEF ContextSeen

LEMMA SeenReturnsContext ==
    ASSUME WrapperInv, SeenInv, ReturnContext
    PROVE  SeenInv' /\ Owed
<1>1. /\ pc = "cleaned up" /\ UNCHANGED <<call, global>>
      /\ \/ status = "OK" /\ status' = "OK" /\ pc' = "idle" /\ seen' = global'
         \/ status # "OK" /\ status' = status /\ pc' = "release context" /\ seen' = seen
  BY DEF ReturnContext, Return, Goto, InProgress
<1>2. pc \in OfContext
  BY <1>1 DEF OfContext, CleaningUp
<1>3. ContextSeen /\ call.fun = "create_context" /\ call.blob \in Weights
  BY <1>2, ContextFacts
<1>4. CASE status # "OK" /\ status' = status /\ pc' = "release context" /\ seen' = seen
  <2>1. pc' \in OfContext /\ pc' \notin Succeeding
    BY <1>4 DEF OfContext, CleaningUp, Succeeding
  <2> QED BY <1>1, <1>3, <1>4, <2>1, ContextGoesOn
<1>5. CASE status = "OK" /\ status' = "OK" /\ pc' = "idle" /\ seen' = global'
  <2>1. SeenInv'
    BY <1>5, SeenAtReturn
  <2>2. global["gp_context"] = call.blob /\ global["gp_model_weights"] = call.blob
    BY <1>1, <1>3, <1>5 DEF ContextSeen
  <2>3. global["gp_instance"] = "instance" /\ global["gp_device"] = "device"
    BY <1>3, <2>2, WrapperCallsAssumption DEF WrapperInv, GlobalInv, Typed, IsSet
  <2>4. Wrapper!create_context(call'.blob, status')
    BY <1>1, <1>5, <2>2, <2>3 DEF Wrapper!create_context, Wrapper!context_created
  <2>5. Unseen({"gp_instance", "gp_device", "gp_context", "gp_model_weights"})
    BY <1>1, <1>3, <1>5 DEF Unseen, Globals, ContextSeen
  <2>6. Specified(call', status')
    BY <1>1, <1>3, <2>4, <2>5 DEF Specified
  <2> QED BY <1>5, <2>1, <2>6 DEF Owed
<1> QED BY <1>1, <1>4, <1>5

LEMMA SeenContext == WrapperInv /\ SeenInv /\ create_context => SeenInv' /\ Owed
<1> SUFFICES ASSUME WrapperInv, SeenInv, create_context PROVE SeenInv' /\ Owed
  OBVIOUS
<1>1. CASE \E blob \in Weights :
             Enter("release context", [fun |-> "create_context", blob |-> blob])
  BY <1>1, SeenEntersContext
<1>2. CASE release_context
  BY <1>2, SeenReleasesContext, SeenReleasesInstance, SeenFreesWeights DEF release_context
<1>3. CASE CopyWeights
  BY <1>3, SeenCopiesWeights
<1>4. CASE CreateGlobal("iree_vm_instance_create", "gp_instance", "instance",
                        "register types", "cleanup")
  BY <1>4, SeenCreatesInstance
<1>5. CASE RegisterTypes
  BY <1>5, SeenRegistersTypes
<1>6. CASE create_device
  <2>1. CASE CreateLocal("create_device", "loader", "device_allocator", "release loader")
    <3>1. "loader" \in Succeeding \cap Creating /\ "device_allocator" \in Succeeding \cap Creating
      BY DEF Succeeding, Creating
    <3>2. 3 \in 3..6 /\ ~(3 > 3)
      OBVIOUS
    <3> QED BY <2>1, <3>1, <3>2, SixCalls, SeenCreatesLocal
  <2>2. CASE CreateLocal("create_device", "device_allocator", "gp_device", "release loader")
    <3>1. "device_allocator" \in Succeeding \cap Creating /\ "gp_device" \in Succeeding \cap Creating
      BY DEF Succeeding, Creating
    <3>2. 3 \in 3..6 /\ ~(3 > 3)
      OBVIOUS
    <3> QED BY <2>2, <3>1, <3>2, SixCalls, SeenCreatesLocal
  <2> QED BY <1>6, <2>1, <2>2, SeenCreatesDevice, SeenReleasesLocal DEF create_device
<1>7. CASE CreateLocal("iree_vm_bytecode_module_create", "module", "hal_module", "cleanup")
  <2>1. /\ "module" \in Succeeding \cap Creating /\ "hal_module" \in Succeeding \cap Creating
        /\ "hal_module" \notin BeforeDevice
    BY DEF Succeeding, Creating, BeforeDevice, ContextGone
  <2>2. 4 \in 3..6 /\ ~(4 = 3)
    OBVIOUS
  <2> QED BY <1>7, <2>1, <2>2, SixCalls, SeenCreatesLocal
<1>8. CASE CreateLocal("iree_hal_module_create", "hal_module", "gp_context", "cleanup")
  <2>1. /\ "hal_module" \in Succeeding \cap Creating /\ "gp_context" \in Succeeding \cap Creating
        /\ "gp_context" \notin BeforeDevice
    BY DEF Succeeding, Creating, BeforeDevice, ContextGone
  <2>2. 5 \in 3..6 /\ ~(5 = 3)
    OBVIOUS
  <2> QED BY <1>8, <2>1, <2>2, SixCalls, SeenCreatesLocal
<1>9. CASE CreateGlobal("iree_vm_context_create_with_modules", "gp_context",
                        global["gp_model_weights"], "cleanup", "cleanup")
  BY <1>9, SeenCreatesContext
<1>10. CASE ReleaseLocal("cleanup", "hal_module", "release module")
  BY <1>10, SeenReleasesLocal
<1>11. CASE ReleaseLocal("release module", "module", "cleaned up")
  BY <1>11, SeenReleasesLocal
<1>12. CASE ReturnContext
  BY <1>12, SeenReturnsContext
<1> QED BY <1>1, <1>2, <1>3, <1>4, <1>5, <1>6, <1>7, <1>8, <1>9, <1>10, <1>11, <1>12
        DEF create_context

----------------------------------------------------------------------------
(* The other functions return as specified *)

LEMMA Counting ==
    /\ \A c \in Nat : \A v \in Nat : c < v => c <= v /\ c + 1 <= v
    /\ \A m \in Nat : \A n \in 1..m : n \in Nat /\ n > 0
    /\ \A m \in Nat : \A n \in 0..m : n \in Nat /\ 0 <= n
  OBVIOUS

LEMMA Below == ASSUME NEW c \in Nat, NEW v \in Nat, c <= v, c # v PROVE c < v
  OBVIOUS

\* A step inside a function that has not changed the globals.
LEMMA StillUnchanging ==
    ASSUME SeenInv, pc \in Unchanging, UNCHANGED <<global, seen>>,
           \/ pc' = "input list" /\ call'.fun = "prepare_input_buffer"
           \/ /\ pc' = "output list" /\ call'.fun = "prepare_output_buffer"
              /\ global["gp_model_outputs"] = NULL
           \/ pc' \in {"resolve", "invoke"} /\ call'.fun = "run_inference"
           \/ /\ pc' \in OfOutput /\ call'.fun = "get_output"
              /\ copied' <= global["gp_model_outputs"].views
              /\ pc' # "get result" => copied' < global["gp_model_outputs"].views
    PROVE  SeenInv' /\ Owed
<1>1. global' = seen'
  BY DEF SeenInv
<1>2. /\ pc' \notin OfContext /\ pc' # "idle" /\ pc' \notin {"view", "push view"}
      /\ pc' \in {"resolve", "invoke"} => pc' \notin OfOutput \cup OfInput
      /\ pc' \in OfOutput => pc' \notin OfInput
  BY DEF OfContext, Creating, ContextGone, CleaningUp, OfInput, OfOutput
<1>3. FunctionOf'
  <2>1. /\ pc' \in OfInput => pc' = "input list"
        /\ pc' = "input list" => pc' \notin OfOutput \cup {"output list", "resolve", "invoke"}
        /\ pc' = "output list" => pc' \notin OfOutput \cup {"resolve", "invoke"}
    BY <1>2 DEF OfInput, OfOutput
  <2> QED BY <1>2, <2>1 DEF FunctionOf
<1>4. global["gp_model_outputs"] = NULL => seen'["gp_model_outputs"] = NULL
  BY DEF SeenInv
<1>5. pc' \in OfOutput => /\ copied' <= global'["gp_model_outputs"].views
                          /\ pc' \in {"map result", "copy result"} =>
                                 copied' < global'["gp_model_outputs"].views
  BY DEF OfOutput
<1>6. pc' = "output list" => seen'["gp_model_outputs"] = NULL
  BY <1>4 DEF OfOutput
<1>7. pc' \in {"map result", "copy result"} => pc' \in OfOutput
  BY DEF OfOutput
<1>8. SeenInv'
  BY <1>1, <1>2, <1>3, <1>5, <1>6, <1>7, Zenon DEF SeenInv
<1>9. pc' # "idle" /\ UNCHANGED seen
  BY <1>2
<1> QED BY <1>8, <1>9, Zenon DEF Owed

LEMMA SeenEnters ==
    ASSUME SeenInv, NEW fun, NEW next, Enter(next, fun),
           \/ next = "input list" /\ fun.fun = "prepare_input_buffer"
           \/ /\ next = "output list" /\ fun.fun = "prepare_output_buffer"
              /\ global["gp_model_outputs"] = NULL
           \/ next = "resolve" /\ fun.fun = "run_inference"
    PROVE  SeenInv' /\ Owed
<1>1. pc = "idle" /\ pc' = next /\ call' = fun /\ UNCHANGED <<global, seen>>
  BY DEF Enter, Goto
<1> QED BY <1>1, StillUnchanging DEF Unchanging

LEMMA SeenReleasesInputs ==
    ASSUME WrapperInv, SeenInv, release_input_buffer
    PROVE  SeenInv' /\ Owed
<1>1. /\ pc = "idle" /\ pc' = "idle" /\ Assigned("gp_model_inputs", NULL)
      /\ call'.fun = "release_input_buffer" /\ status' = "OK" /\ seen' = global'
  BY DEF release_input_buffer, Return
<1>2. /\ global'["gp_model_inputs"] = NULL
      /\ \A q \in Globals : q # "gp_model_inputs" => global'[q] = global[q]
  BY <1>1, Assignment DEF WrapperInv, Globals
<1>3. global = seen
  BY <1>1 DEF SeenInv, Unchanging
<1>4. Wrapper!release_input_buffer /\ Unseen({"gp_model_inputs"})
  BY <1>1, <1>2, <1>3 DEF Wrapper!release_input_buffer, Unseen
<1>5. Specified(call', status')
  BY <1>1, <1>4 DEF Specified
<1> QED BY <1>1, <1>5, SeenAtReturn DEF Owed

LEMMA SeenReleasesOutputs ==
    ASSUME WrapperInv, SeenInv, release_output_buffer
    PROVE  SeenInv' /\ Owed
<1>1. /\ pc = "idle" /\ pc' = "idle" /\ Assigned("gp_model_outputs", NULL)
      /\ call'.fun = "release_output_buffer" /\ status' = "OK" /\ seen' = global'
  BY DEF release_output_buffer, Return
<1>2. /\ global'["gp_model_outputs"] = NULL
      /\ \A q \in Globals : q # "gp_model_outputs" => global'[q] = global[q]
  BY <1>1, Assignment DEF WrapperInv, Globals
<1>3. global = seen
  BY <1>1 DEF SeenInv, Unchanging
<1>4. Wrapper!release_output_buffer /\ Unseen({"gp_model_outputs"})
  BY <1>1, <1>2, <1>3 DEF Wrapper!release_output_buffer, Unseen
<1>5. Specified(call', status')
  BY <1>1, <1>4 DEF Specified
<1> QED BY <1>1, <1>5, SeenAtReturn DEF Owed

\* The outcomes IreeWrapper gives prepare_input_buffer.
LEMMA InputOutcomes ==
    ASSUME NEW k \in 1..MAX_MODEL_INPUT_NUM, NEW d
    PROVE  /\ Wrapper!Outcome("OK", [data |-> d, views |-> k]) \in
                  Wrapper!prepare_input_buffer(NULL, k, d)
           /\ "input_list_create" \in Faults =>
                  Wrapper!Outcome("IREE_ERROR", NULL) \in
                      Wrapper!prepare_input_buffer(NULL, k, d)
           /\ "input_views" \in Faults =>
                  Wrapper!Outcome("IREE_ERROR", [data |-> d, views |-> 0]) \in
                      Wrapper!prepare_input_buffer(NULL, k, d)
           /\ "input_push" \in Faults =>
                  \A n \in 0..(k - 1) :
                      Wrapper!Outcome("IREE_ERROR", [data |-> d, views |-> n]) \in
                          Wrapper!prepare_input_buffer(NULL, k, d)
<1>1. ~(k > MAX_MODEL_INPUT_NUM) /\ k > 0
  BY WrapperCallsAssumption
<1> QED BY <1>1 DEF Wrapper!prepare_input_buffer, Wrapper!IfFails

\* It returns with the list it has.
LEMMA InputReturns ==
    ASSUME WrapperInv, call.fun = "prepare_input_buffer", pc' = "idle", call' = call,
           seen' = global', \A p \in Globals \ {"gp_model_inputs"} : global'[p] = seen[p],
           Wrapper!Outcome(status', global'["gp_model_inputs"]) \in
               Wrapper!prepare_input_buffer(NULL, call.num_input, call.data)
    PROVE  SeenInv' /\ Owed
<1>1. Unseen({"gp_model_inputs"})
  BY DEF Unseen
<1>2. Specified(call', status')
  BY <1>1 DEF Specified
<1> QED BY <1>2, SeenAtReturn DEF Owed

LEMMA InputGoesOn ==
    ASSUME call.fun = "prepare_input_buffer", pc' \in {"view", "push view"},
           UNCHANGED <<call, seen>>, InputsSeen'
    PROVE  SeenInv' /\ Owed
<1>1. pc' \notin Unchanging \cup OfContext \cup OfOutput
      /\ pc' \notin {"idle", "output list", "resolve", "invoke", "map result", "copy result"}
  BY DEF Unchanging, OfContext, Creating, ContextGone, CleaningUp, OfInput, OfOutput
<1> QED BY <1>1 DEF SeenInv, FunctionOf, Owed

LEMMA SeenMakesInputList ==
    ASSUME WrapperInv, SeenInv, MakeInputList
    PROVE  SeenInv' /\ Owed
<1> DEFINE list == [data |-> call.data, views |-> 0]
<1>1. /\ pc = "input list" /\ UNCHANGED <<call, views>>
      /\ \/ Assigned("gp_model_inputs", list) /\ pc' = "view" /\ seen' = seen
         \/ /\ "input_list_create" \in Faults /\ UNCHANGED global
            /\ pc' = "idle" /\ status' = "IREE_ERROR" /\ seen' = global'
  BY DEF MakeInputList, Goto, InProgress, Fail, Fails, Return
<1>2. pc \in OfInput /\ call.fun = "prepare_input_buffer" /\ global = seen
  BY <1>1 DEF OfInput, SeenInv, FunctionOf, Unchanging
<1>3. /\ views.moved = 0 /\ global["gp_model_inputs"] = NULL
      /\ call.num_input \in 1..MAX_MODEL_INPUT_NUM
  BY <1>1, <1>2, InputFacts DEF WrapperInv, ViewsInv, IsSet
<1>4. CASE /\ "input_list_create" \in Faults /\ UNCHANGED global
           /\ pc' = "idle" /\ status' = "IREE_ERROR" /\ seen' = global'
  <2>1. Wrapper!Outcome("IREE_ERROR", NULL) \in
            Wrapper!prepare_input_buffer(NULL, call.num_input, call.data)
    BY <1>3, <1>4, InputOutcomes
  <2> QED BY <1>1, <1>2, <1>3, <1>4, <2>1, InputReturns
<1>5. CASE Assigned("gp_model_inputs", list) /\ pc' = "view" /\ seen' = seen
  <2>1. /\ global'["gp_model_inputs"] = list
        /\ \A q \in Globals : q # "gp_model_inputs" => global'[q] = global[q]
    BY <1>5, Assignment DEF WrapperInv, Globals
  <2>2. InputsSeen'
    BY <1>1, <1>2, <1>3, <1>5, <2>1 DEF InputsSeen
  <2> QED BY <1>1, <1>2, <1>5, <2>2, InputGoesOn
<1> QED BY <1>1, <1>4, <1>5

LEMMA SeenMakesView ==
    ASSUME WrapperInv, SeenInv, MakeView
    PROVE  SeenInv' /\ Owed
<1>1. /\ pc = "view" /\ UNCHANGED <<call, global>>
      /\ \/ /\ views' = [views EXCEPT !.made = @ + 1] /\ pc' \in {"push view", "view"}
            /\ seen' = seen
         \/ /\ "input_views" \in Faults
            /\ pc' = "idle" /\ status' = "IREE_ERROR" /\ seen' = global'
  BY DEF MakeView, Goto, InProgress, Fail, Fails, Return
<1>2. pc \in OfInput /\ call.fun = "prepare_input_buffer" /\ InputsSeen
  BY <1>1 DEF OfInput, SeenInv, FunctionOf
<1>3. /\ views \in [made : 0..MAX_MODEL_INPUT_NUM, moved : 0..MAX_MODEL_INPUT_NUM]
      /\ views.moved = 0 /\ call.num_input \in 1..MAX_MODEL_INPUT_NUM
  BY <1>1, <1>2, InputFacts
<1>4. CASE /\ "input_views" \in Faults
           /\ pc' = "idle" /\ status' = "IREE_ERROR" /\ seen' = global'
  <2>1. Wrapper!Outcome("IREE_ERROR", [data |-> call.data, views |-> 0]) \in
            Wrapper!prepare_input_buffer(NULL, call.num_input, call.data)
    BY <1>3, <1>4, InputOutcomes
  <2>2. global'["gp_model_inputs"] = [data |-> call.data, views |-> 0]
    BY <1>1, <1>2, <1>3 DEF InputsSeen
  <2>3. \A p \in Globals \ {"gp_model_inputs"} : global'[p] = seen[p]
    BY <1>1, <1>2 DEF InputsSeen
  <2> QED BY <1>1, <1>2, <1>4, <2>1, <2>2, <2>3, InputReturns
<1>5. CASE /\ views' = [views EXCEPT !.made = @ + 1] /\ pc' \in {"push view", "view"}
           /\ seen' = seen
  <2>1. views'.moved = views.moved
    BY <1>3, <1>5
  <2>2. InputsSeen'
    BY <1>1, <1>2, <1>5, <2>1 DEF InputsSeen
  <2> QED BY <1>1, <1>2, <1>5, <2>2, InputGoesOn
<1> QED BY <1>1, <1>4, <1>5

LEMMA SeenPushesView ==
    ASSUME WrapperInv, SeenInv, PushView
    PROVE  SeenInv' /\ Owed
<1> DEFINE list == [data |-> call.data, views |-> views'.moved]
<1>1. /\ pc = "push view" /\ UNCHANGED call
      /\ \/ /\ views' = [made |-> views.made - 1, moved |-> views.moved + 1]
            /\ Assigned("gp_model_inputs", list)
            /\ \/ views'.made = 0 /\ pc' = "idle" /\ status' = "OK" /\ seen' = global'
               \/ views'.made # 0 /\ pc' = "push view" /\ seen' = seen
         \/ /\ "input_push" \in Faults /\ UNCHANGED global
            /\ pc' = "idle" /\ status' = "IREE_ERROR" /\ seen' = global'
  BY DEF PushView, Goto, InProgress, Fail, Fails, Return
<1>2. pc \in OfInput /\ call.fun = "prepare_input_buffer" /\ InputsSeen
  BY <1>1 DEF OfInput, SeenInv, FunctionOf
<1>3. /\ views \in [made : 0..MAX_MODEL_INPUT_NUM, moved : 0..MAX_MODEL_INPUT_NUM]
      /\ MAX_MODEL_INPUT_NUM \in Nat /\ call.num_input \in 1..MAX_MODEL_INPUT_NUM
      /\ views.made > 0 /\ views.made + views.moved = call.num_input
  BY <1>1, <1>2, InputFacts
<1>4. CASE /\ "input_push" \in Faults /\ UNCHANGED global
           /\ pc' = "idle" /\ status' = "IREE_ERROR" /\ seen' = global'
  <2>1. views.moved \in 0..(call.num_input - 1)
    BY <1>3
  <2>2. Wrapper!Outcome("IREE_ERROR", [data |-> call.data, views |-> views.moved]) \in
            Wrapper!prepare_input_buffer(NULL, call.num_input, call.data)
    BY <1>3, <1>4, <2>1, InputOutcomes
  <2>3. /\ global'["gp_model_inputs"] = [data |-> call.data, views |-> views.moved]
        /\ \A p \in Globals \ {"gp_model_inputs"} : global'[p] = seen[p]
    BY <1>2, <1>4 DEF InputsSeen
  <2> QED BY <1>1, <1>2, <1>4, <2>2, <2>3, InputReturns
<1>5. ASSUME views' = [made |-> views.made - 1, moved |-> views.moved + 1],
             Assigned("gp_model_inputs", list)
      PROVE  /\ global'["gp_model_inputs"] = [data |-> call.data, views |-> views'.moved]
             /\ \A p \in Globals \ {"gp_model_inputs"} : global'[p] = seen[p]
             /\ views'.made = 0 => views'.moved = call.num_input
  <2>1. /\ global'["gp_model_inputs"] = list
        /\ \A q \in Globals : q # "gp_model_inputs" => global'[q] = global[q]
    BY <1>5, Assignment DEF WrapperInv, Globals
  <2>2. views'.made = 0 => views'.moved = call.num_input
    BY <1>3, <1>5
  <2> QED BY <1>2, <2>1, <2>2 DEF InputsSeen
<1>6. CASE /\ views' = [made |-> views.made - 1, moved |-> views.moved + 1]
           /\ Assigned("gp_model_inputs", list)
           /\ views'.made = 0 /\ pc' = "idle" /\ status' = "OK" /\ seen' = global'
  <2>1. Wrapper!Outcome("OK", [data |-> call.data, views |-> call.num_input]) \in
            Wrapper!prepare_input_buffer(NULL, call.num_input, call.data)
    BY <1>3, InputOutcomes
  <2> QED BY <1>1, <1>2, <1>5, <1>6, <2>1, InputReturns
<1>7. CASE /\ views' = [made |-> views.made - 1, moved |-> views.moved + 1]
           /\ Assigned("gp_model_inputs", list)
           /\ views'.made # 0 /\ pc' = "push view" /\ seen' = seen
  <2>1. InputsSeen'
    BY <1>1, <1>5, <1>7 DEF InputsSeen
  <2> QED BY <1>1, <1>2, <1>7, <2>1, InputGoesOn
<1> QED BY <1>1, <1>4, <1>6, <1>7

LEMMA SeenMakesOutputList ==
    ASSUME WrapperInv, SeenInv, MakeOutputList
    PROVE  SeenInv' /\ Owed
<1> DEFINE list == [weights |-> NULL, data |-> NULL, views |-> 0]
<1>1. /\ pc = "output list" /\ UNCHANGED call /\ pc' = "idle" /\ seen' = global'
      /\ \/ Assigned("gp_model_outputs", list) /\ status' = "OK"
         \/ /\ "output_list_create" \in Faults /\ UNCHANGED global /\ status' = "IREE_ERROR"
  BY DEF MakeOutputList, Fail, Fails, Return
<1>2. /\ call.fun = "prepare_output_buffer" /\ global = seen /\ seen["gp_model_outputs"] = NULL
  BY <1>1 DEF SeenInv, FunctionOf, Unchanging
<1>3. /\ Unseen({"gp_model_outputs"})
      /\ Wrapper!Outcome(status', seen'["gp_model_outputs"]) \in
             Wrapper!prepare_output_buffer(NULL)
  <2>1. CASE Assigned("gp_model_outputs", list) /\ status' = "OK"
    <3>1. /\ global'["gp_model_outputs"] = list
          /\ \A q \in Globals : q # "gp_model_outputs" => global'[q] = global[q]
      BY <2>1, Assignment DEF WrapperInv, Globals
    <3> QED BY <1>1, <1>2, <2>1, <3>1
            DEF Unseen, Wrapper!prepare_output_buffer, Wrapper!EmptyOutputs
  <2>2. CASE "output_list_create" \in Faults /\ UNCHANGED global /\ status' = "IREE_ERROR"
    BY <1>1, <1>2, <2>2 DEF Unseen, Wrapper!prepare_output_buffer, Wrapper!IfFails
  <2> QED BY <1>1, <2>1, <2>2
<1>4. Specified(call', status')
  BY <1>1, <1>2, <1>3 DEF Specified
<1> QED BY <1>1, <1>4, SeenAtReturn DEF Owed

\* What is known while an inference runs.
LEMMA InferenceFacts ==
    ASSUME WrapperInv, SeenInv, pc \in {"resolve", "invoke"}
    PROVE  call.fun = "run_inference" /\ global = seen /\ seen["gp_context"] # NULL
<1>1. global["gp_context"] # NULL
  BY DEF WrapperInv, GlobalInv, IsSet
<1> QED BY <1>1 DEF SeenInv, FunctionOf, Unchanging

\* An inference that fails leaves the results as they were.
LEMMA InferenceFails ==
    ASSUME WrapperInv, SeenInv, pc \in {"resolve", "invoke"}, pc' = "idle",
           UNCHANGED <<call, global>>, seen' = global', status' = "IREE_ERROR",
           "invoke" \in Faults \/ ~ArgumentsFit
    PROVE  SeenInv' /\ Owed
<1>1. call.fun = "run_inference" /\ global = seen /\ seen["gp_context"] # NULL
  BY InferenceFacts
<1>2. Wrapper!ArgumentsMatch <=> ArgumentsFit
  BY <1>1 DEF Wrapper!ArgumentsMatch, ArgumentsFit
<1>3. Wrapper!Outcome("IREE_ERROR", seen["gp_model_outputs"]) \in
          Wrapper!run_inference(seen["gp_model_outputs"])
  BY <1>1, <1>2 DEF Wrapper!run_inference, Wrapper!IfFails
<1>4. Specified(call', status')
  BY <1>1, <1>3 DEF Specified, Unseen
<1> QED BY <1>4, SeenAtReturn DEF Owed

LEMMA SeenResolvesFunction ==
    ASSUME WrapperInv, SeenInv, ResolveFunction
    PROVE  SeenInv' /\ Owed
<1>1. /\ pc = "resolve" /\ UNCHANGED <<call, global>>
      /\ \/ pc' = "invoke" /\ seen' = seen
         \/ pc' = "idle" /\ seen' = global' /\ status' = "IREE_ERROR" /\ "invoke" \in Faults
  BY DEF ResolveFunction, Goto, InProgress, Fail, Fails, Return
<1>2. call.fun = "run_inference"
  BY <1>1, InferenceFacts
<1> QED BY <1>1, <1>2, InferenceFails, StillUnchanging DEF Unchanging

LEMMA SeenInvokes ==
    ASSUME WrapperInv, SeenInv, Invoke
    PROVE  SeenInv' /\ Owed
<1> DEFINE list == [weights |-> global["gp_context"], data |-> global["gp_model_inputs"].data,
                    views |-> NumResults[global["gp_context"]]]
<1>1. /\ pc = "invoke" /\ UNCHANGED call /\ pc' = "idle" /\ seen' = global'
      /\ \/ ArgumentsFit /\ Assigned("gp_model_outputs", list) /\ status' = "OK"
         \/ /\ UNCHANGED global /\ status' = "IREE_ERROR"
            /\ "invoke" \in Faults \/ ~ArgumentsFit
  BY DEF Invoke, Fail, Fails, Return
<1>2. CASE /\ UNCHANGED global /\ status' = "IREE_ERROR"
           /\ "invoke" \in Faults \/ ~ArgumentsFit
  BY <1>1, <1>2, InferenceFails
<1>3. CASE ArgumentsFit /\ Assigned("gp_model_outputs", list) /\ status' = "OK"
  <2>1. call.fun = "run_inference" /\ global = seen /\ seen["gp_context"] # NULL
    BY <1>1, InferenceFacts
  <2>2. Wrapper!ArgumentsMatch
    BY <1>3, <2>1 DEF Wrapper!ArgumentsMatch, ArgumentsFit
  <2>3. /\ global'["gp_model_outputs"] = list
        /\ \A q \in Globals : q # "gp_model_outputs" => global'[q] = global[q]
    BY <1>3, Assignment DEF WrapperInv, Globals
  <2>4. Wrapper!Outcome(status', seen'["gp_model_outputs"]) \in
            Wrapper!run_inference(seen["gp_model_outputs"])
    BY <1>1, <1>3, <2>1, <2>2, <2>3 DEF Wrapper!run_inference
  <2>5. Unseen({"gp_model_outputs"})
    BY <1>1, <2>1, <2>3 DEF Unseen
  <2>6. Specified(call', status')
    BY <1>1, <2>1, <2>4, <2>5 DEF Specified
  <2> QED BY <1>1, <2>6, SeenAtReturn DEF Owed
<1> QED BY <1>1, <1>2, <1>3

\* What is known while results are copied.
LEMMA OutputFacts ==
    ASSUME WrapperInv, SeenInv, pc \in OfOutput
    PROVE  /\ call.fun = "get_output" /\ global = seen
           /\ call.num_output \in Nat /\ call.num_output > 0 /\ copied \in Nat
           /\ seen["gp_model_outputs"] \in ResultLists /\ seen["gp_model_outputs"] # NULL
           /\ seen["gp_model_outputs"].views \in Nat
           /\ copied <= seen["gp_model_outputs"].views
           /\ pc = "get result" => copied <= call.num_output
           /\ pc \in {"map result", "copy result"} =>
                  copied < seen["gp_model_outputs"].views
<1>1. call.fun = "get_output" /\ global = seen
  BY DEF SeenInv, FunctionOf, Unchanging
<1>2. /\ call.num_output \in 1..MAX_MODEL_OUTPUTS /\ global["gp_model_outputs"] # NULL
      /\ copied \in 0..MAX_MODEL_OUTPUTS /\ MAX_MODEL_OUTPUTS \in Nat
      /\ pc = "get result" => copied <= call.num_output
  BY ResultFacts
<1>3. global["gp_model_outputs"] \in ResultLists
  BY <1>2 DEF WrapperInv, Typed
<1>4. global["gp_model_outputs"].views \in 0..MAX_MODEL_OUTPUTS
  BY <1>3 DEF ResultLists
<1>5. /\ copied <= global["gp_model_outputs"].views
      /\ pc \in {"map result", "copy result"} => copied < global["gp_model_outputs"].views
  BY DEF SeenInv
<1>6. /\ call.num_output \in Nat /\ call.num_output > 0 /\ copied \in Nat
      /\ global["gp_model_outputs"].views \in Nat
  BY <1>2, <1>4, Counting, Zenon
<1> QED BY <1>1, <1>2, <1>3, <1>5, <1>6

\* It returns, and no global has changed.
LEMMA OutputReturns ==
    ASSUME WrapperInv, SeenInv, pc \in OfOutput, pc' = "idle", UNCHANGED <<call, global>>,
           seen' = global', NEW got \in Wrapper!get_output(call.num_output),
           got.status = status', status' = "OK" => got.list.views = copied'
    PROVE  SeenInv' /\ Owed
<1>1. call.fun = "get_output" /\ global = seen
  BY OutputFacts
<1>2. Unseen({})
  BY <1>1 DEF Unseen
<1>3. Specified(call', status')
  BY <1>1, <1>2 DEF Specified
<1> QED BY <1>3, SeenAtReturn DEF Owed

LEMMA SeenGetsResult ==
    ASSUME WrapperInv, SeenInv, GetResult
    PROVE  SeenInv' /\ Owed
<1> DEFINE held == seen["gp_model_outputs"]
<1>1. /\ pc = "get result" /\ UNCHANGED <<call, global, copied>>
      /\ \/ copied = call.num_output /\ pc' = "idle" /\ status' = "OK" /\ seen' = global'
         \/ /\ copied # call.num_output /\ copied = global["gp_model_outputs"].views
            /\ pc' = "idle" /\ status' = "INV_PTR" /\ seen' = global'
         \/ /\ copied # call.num_output /\ copied # global["gp_model_outputs"].views
            /\ pc' = "map result" /\ seen' = seen
  BY DEF GetResult, Return, Goto, InProgress
<1>2. pc \in OfOutput
  BY <1>1 DEF OfOutput
<1>3. /\ call.fun = "get_output" /\ global = seen
      /\ call.num_output \in Nat /\ call.num_output > 0 /\ copied \in Nat
      /\ held \in ResultLists /\ held # NULL /\ held.views \in Nat
      /\ copied <= held.views /\ copied <= call.num_output
  BY <1>1, <1>2, OutputFacts
<1>4. CASE copied = call.num_output /\ pc' = "idle" /\ status' = "OK" /\ seen' = global'
  <2> DEFINE got == Wrapper!Outcome("OK", [held EXCEPT !.views = call.num_output])
  <2>1. call.num_output <= held.views
    BY <1>3, <1>4
  <2>2. got \in Wrapper!get_output(call.num_output)
    BY <1>3, <2>1 DEF Wrapper!get_output
  <2>3. got.status = "OK" /\ got.list.views = call.num_output
    BY <1>3 DEF Wrapper!Outcome, ResultLists
  <2> QED BY <1>1, <1>2, <1>4, <2>2, <2>3, OutputReturns
<1>5. CASE /\ copied # call.num_output /\ copied = global["gp_model_outputs"].views
           /\ pc' = "idle" /\ status' = "INV_PTR" /\ seen' = global'
  <2> DEFINE got == Wrapper!Outcome("INV_PTR", NULL)
  <2>1. ~(call.num_output <= held.views)
    BY <1>3, <1>5
  <2>2. got \in Wrapper!get_output(call.num_output)
    BY <1>3, <2>1 DEF Wrapper!get_output
  <2>3. got.status = "INV_PTR"
    BY DEF Wrapper!Outcome
  <2> QED BY <1>1, <1>2, <1>5, <2>2, <2>3, OutputReturns
<1>6. CASE /\ copied # call.num_output /\ copied # global["gp_model_outputs"].views
           /\ pc' = "map result" /\ seen' = seen
  <2>1. /\ global["gp_model_outputs"].views \in Nat
        /\ copied <= global["gp_model_outputs"].views
        /\ copied \in Nat /\ copied # global["gp_model_outputs"].views
    BY <1>3, <1>6
  <2>2. copied < global["gp_model_outputs"].views
    BY <2>1, Below
  <2>3. copied' < global["gp_model_outputs"].views /\ copied' <= global["gp_model_outputs"].views
    BY <1>1, <2>1, <2>2, Zenon
  <2> QED BY <1>1, <1>3, <1>6, <2>3, StillUnchanging DEF Unchanging, OfOutput
<1> QED BY <1>1, <1>4, <1>5, <1>6

LEMMA SeenMapsResult ==
    ASSUME WrapperInv, SeenInv, MapResult
    PROVE  SeenInv' /\ Owed
<1> DEFINE held == seen["gp_model_outputs"]
<1>1. /\ pc = "map result" /\ UNCHANGED <<call, global, copied>>
      /\ \/ pc' = "copy result" /\ seen' = seen
         \/ /\ "map_range" \in Faults
            /\ pc' = "idle" /\ status' = "IREE_ERROR" /\ seen' = global'
  BY DEF MapResult, Fail, Fails, Return, Goto, InProgress
<1>2. pc \in OfOutput
  BY <1>1 DEF OfOutput
<1>3. /\ call.fun = "get_output" /\ global = seen
      /\ call.num_output \in Nat /\ call.num_output > 0 /\ copied \in Nat
      /\ held # NULL /\ held.views \in Nat /\ copied < held.views
  BY <1>1, <1>2, OutputFacts
<1>4. CASE /\ "map_range" \in Faults
           /\ pc' = "idle" /\ status' = "IREE_ERROR" /\ seen' = global'
  <2> DEFINE got == Wrapper!Outcome("IREE_ERROR", NULL)
  <2>1. held.views > 0
    BY <1>3
  <2>2. got \in Wrapper!get_output(call.num_output)
    BY <1>3, <1>4, <2>1 DEF Wrapper!get_output, Wrapper!IfFails
  <2>3. got.status = "IREE_ERROR"
    BY DEF Wrapper!Outcome
  <2> QED BY <1>1, <1>2, <1>4, <2>2, <2>3, OutputReturns
<1>5. CASE pc' = "copy result" /\ seen' = seen
  <2>1. copied' < global["gp_model_outputs"].views /\ copied' <= global["gp_model_outputs"].views
    BY <1>1, <1>3, Counting, Zenon
  <2> QED BY <1>1, <1>3, <1>5, <2>1, StillUnchanging DEF Unchanging, OfOutput
<1> QED BY <1>1, <1>4, <1>5

LEMMA SeenCopiesResult ==
    ASSUME WrapperInv, SeenInv, CopyResult
    PROVE  SeenInv' /\ Owed
<1>1. /\ pc = "copy result" /\ pc' = "get result" /\ copied' = copied + 1
      /\ UNCHANGED <<call, global, seen>>
  BY DEF CopyResult, Goto, InProgress
<1>2. pc \in OfOutput
  BY <1>1 DEF OfOutput
<1>3. /\ call.fun = "get_output" /\ global = seen /\ copied \in Nat
      /\ seen["gp_model_outputs"].views \in Nat /\ copied < seen["gp_model_outputs"].views
  BY <1>1, <1>2, OutputFacts
<1>4. copied' <= global["gp_model_outputs"].views
  BY <1>1, <1>3, Counting, Zenon
<1> QED BY <1>1, <1>3, <1>4, StillUnchanging DEF Unchanging, OfOutput

LEMMA SeenEntersOutput ==
    ASSUME WrapperInv, SeenInv, global["gp_model_outputs"] # NULL, pc = "idle", copied' = 0,
           pc' = "get result", call'.fun = "get_output", UNCHANGED <<global, seen>>
    PROVE  SeenInv' /\ Owed
<1>1. global["gp_model_outputs"] \in ResultLists
  BY DEF WrapperInv, Typed
<1>2. global["gp_model_outputs"].views \in 0..MAX_MODEL_OUTPUTS
  BY <1>1 DEF ResultLists
<1>3. MAX_MODEL_OUTPUTS \in Nat
  BY WrapperCallsAssumption
<1>4. copied' <= global["gp_model_outputs"].views
  BY <1>2, <1>3, Counting, Zenon
<1> QED BY <1>4, StillUnchanging DEF Unchanging, OfOutput

LEMMA SeenStep == WrapperInv /\ SeenInv /\ Next => SeenInv' /\ Owed
<1> SUFFICES ASSUME WrapperInv, SeenInv, Next PROVE SeenInv' /\ Owed
  OBVIOUS
<1>1. CASE create_context
  BY <1>1, SeenContext
<1>2. CASE release_input_buffer
  BY <1>2, SeenReleasesInputs
<1>3. CASE release_output_buffer
  BY <1>3, SeenReleasesOutputs
<1>4. CASE prepare_input_buffer
  BY <1>4, SeenEnters, SeenMakesInputList, SeenMakesView, SeenPushesView
     DEF prepare_input_buffer
<1>5. CASE prepare_output_buffer
  BY <1>5, SeenEnters, SeenMakesOutputList DEF prepare_output_buffer
<1>6. CASE run_inference
  BY <1>6, SeenEnters, SeenResolvesFunction, SeenInvokes DEF run_inference
<1>7. CASE get_output
  <2>1. ASSUME NEW n \in 1..MAX_MODEL_OUTPUTS,
               call' = [fun |-> "get_output", num_output |-> n]
        PROVE  call'.fun = "get_output"
    BY <2>1
  <2> QED
  BY <1>7, <2>1, SeenEntersOutput, SeenGetsResult, SeenMapsResult, SeenCopiesResult
     DEF get_output, Goto
<1> QED BY <1>1, <1>2, <1>3, <1>4, <1>5, <1>6, <1>7 DEF Next

LEMMA SeenStutters == SeenInv /\ UNCHANGED vars => SeenInv'
  BY DEF vars, SeenInv, FunctionOf, ContextSeen, InputsSeen, Blamed

(***************************************************************************)
(* The functions of iree_wrapper.c, one IREE call at a time, implement     *)
(* those of IreeWrapper, one step each: whichever calls fail, a function   *)
(* returns a status and globals that IreeWrapper allows, and no global     *)
(* changes for its caller before it does.                                  *)
(***************************************************************************)
THEOREM ImplementsWrapper == Spec => ReturnsAsSpecified
<1>1. WrapperInv /\ SeenInv /\ [Next]_vars => SeenInv'
  BY SeenStep, SeenStutters
<1>2. WrapperInv /\ SeenInv /\ [Next]_vars =>
          [IF pc' = "idle" THEN Specified(call', status') ELSE UNCHANGED seen]_vars
  BY SeenStep DEF Owed
<1> QED BY <1>1, <1>2, SeenStarts, WrapperInvariant, PTL DEF Spec, ReturnsAsSpecified

=============================================================================
