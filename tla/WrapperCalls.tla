---------------------------- MODULE WrapperCalls ----------------------------
(***************************************************************************)
(* The IREE wrapper (iree_wrapper.c) one IREE call at a time: what it      *)
(* creates, which pointer owns it, and what it releases on which path.     *)
(* IreeWrapper has each of its functions in one step; this module shows    *)
(* that those steps are what the calls amount to (ReturnsAsSpecified), and *)
(* that nothing is used, freed or lost on the way that must not be.        *)
(*                                                                         *)
(* The library is external: its objects are counted references.  Here      *)
(* `owned' is the set of objects the program owns a reference to, and an   *)
(* object lives as long as the program or a living object that retains it  *)
(* does.  An object is named after the C variable that points to it.       *)
(***************************************************************************)
EXTENDS Integers, FiniteSets

CONSTANTS NULL, Weights, Inputs, NumArgs, NumResults, Faults,
          MAX_MODEL_INPUT_NUM, MAX_MODEL_OUTPUTS,
          MaxFailures  \* bound: how many IREE calls fail

InputLists == [data : Inputs, views : 0..MAX_MODEL_INPUT_NUM]
ResultLists == [weights : Weights \cup {NULL}, data : Inputs \cup {NULL},
                views : 0..MAX_MODEL_OUTPUTS]

ASSUME WrapperCallsAssumption ==
    /\ MaxFailures \in Nat
    /\ MAX_MODEL_INPUT_NUM \in Nat \ {0} /\ MAX_MODEL_OUTPUTS \in Nat \ {0}
    /\ NumResults \in [Weights -> 1..MAX_MODEL_OUTPUTS]
    /\ NULL \notin Weights \cup {"instance", "device"} \cup InputLists \cup ResultLists

\* What an object needs as long as it lives, and what of it the library retains
\* on its behalf.  A bytecode module executes the blob in place.
Needs ==
    [gp_device        |-> {"loader", "device_allocator"},
     module           |-> {"gp_instance", "gp_model_weights"},
     hal_module       |-> {"gp_instance", "gp_device"},
     gp_context       |-> {"gp_instance", "module", "hal_module"},
     view             |-> {"gp_device"}]
Retains ==
    [gp_device        |-> {"loader", "device_allocator"},
     hal_module       |-> {"gp_device"},
     gp_context       |-> {"module", "hal_module"}]

Globals == {"gp_instance", "gp_device", "gp_context", "gp_model_weights",
            "gp_model_inputs", "gp_model_outputs"}
Locals == {"loader", "device_allocator", "module", "hal_module"}

VARIABLES
    pc,        \* "idle" or the next IREE call
    call,      \* the wrapper's function being executed, with its arguments
    global,    \* the file globals, by name
    local,     \* the local pointers that are not NULL
    owned,     \* the objects the program owns a reference to
    views,     \* the argument views: made by the program, moved into the list
    mapping,   \* result buffers mapped and not yet unmapped
    copied,    \* results copied out by get_output
    status,    \* iree_status; when idle, what the last function returned
    \* history
    seen,      \* the globals between two functions
    failures,  \* IREE calls that failed
    lost       \* argument views nothing points to any more

vars == <<pc, call, global, local, owned, views, mapping, copied, status,
          seen, failures, lost>>

Handles == [gp_instance : {"instance", NULL}, gp_device : {"device", NULL},
            gp_context : Weights \cup {NULL}, gp_model_weights : Weights \cup {NULL},
            gp_model_inputs : InputLists \cup {NULL},
            gp_model_outputs : ResultLists \cup {NULL}]

Held == {p \in Globals : global[p] # NULL} \cup local

WrapperCallsTypeOK ==
    /\ global \in Handles /\ seen \in Handles
    /\ local \subseteq Locals
    /\ owned \subseteq Globals \cup Locals
    /\ views \in [made : 0..MAX_MODEL_INPUT_NUM, moved : 0..MAX_MODEL_INPUT_NUM]
    /\ mapping \in 0..1 /\ copied \in 0..MAX_MODEL_OUTPUTS
    /\ status \in {"OK", "IREE_ERROR", "INV_PTR"}
    /\ failures \in 0..MaxFailures
    /\ lost \in Nat

Init ==
    /\ pc = "idle" /\ call = [fun |-> "none"]
    /\ global = [p \in Globals |-> NULL] /\ seen = global
    /\ local = {} /\ owned = {}
    /\ views = [made |-> 0, moved |-> 0]
    /\ mapping = 0 /\ copied = 0
    /\ status = "OK" /\ failures = 0
    /\ lost = 0

----------------------------------------------------------------------------
(* Steps of the wrapper in terms of the library *)

Goto(next) == pc' = next

Enter(next, fun) ==
    /\ pc = "idle"
    /\ call' = fun
    /\ status' = "OK"
    /\ Goto(next)
    /\ UNCHANGED <<global, local, owned, views, mapping, copied, seen, failures, lost>>

Return(result, lostViews) ==
    /\ pc' = "idle"
    /\ status' = result
    /\ seen' = global'
    /\ lost' = lost + lostViews

InProgress == UNCHANGED <<seen, lost>>

\* An IREE call named in Faults fails.
Fails(name) ==
    /\ name \in Faults /\ failures < MaxFailures
    /\ failures' = failures + 1

\* `name' creates an object into a global pointer, or a local one.
Created(object) == owned' = owned \cup {object}
Assigned(pointer, value) == global' = [global EXCEPT ![pointer] = value]

CreateLocal(name, object, next, onError) ==
    /\ pc = object
    /\ \/ /\ Created(object) /\ local' = local \cup {object}
          /\ Goto(next)
          /\ UNCHANGED <<status, failures>>
       \/ /\ Fails(name) /\ status' = "IREE_ERROR"
          /\ Goto(onError)
          /\ UNCHANGED <<owned, local>>
    /\ InProgress /\ UNCHANGED <<call, global, views, mapping, copied>>

CreateGlobal(name, object, value, next, onError) ==
    /\ pc = object
    /\ \/ /\ Created(object) /\ Assigned(object, value)
          /\ Goto(next)
          /\ UNCHANGED <<status, failures>>
       \/ /\ Fails(name) /\ status' = "IREE_ERROR"
          /\ Goto(onError)
          /\ UNCHANGED <<owned, global>>
    /\ InProgress /\ UNCHANGED <<call, local, views, mapping, copied>>

\* if (NULL != pointer) release(pointer)
ReleaseLocal(at, object, next) ==
    /\ pc = at
    /\ owned' = IF object \in local THEN owned \ {object} ELSE owned
    /\ local' = local \ {object}
    /\ Goto(next)
    /\ InProgress /\ UNCHANGED <<call, global, views, mapping, copied, status, failures>>

ReleaseGlobal(at, object, next) ==
    /\ pc = at
    /\ owned' = IF global[object] # NULL THEN owned \ {object} ELSE owned
    /\ Assigned(object, NULL)
    /\ Goto(next)
    /\ InProgress /\ UNCHANGED <<call, local, views, mapping, copied, status, failures>>

----------------------------------------------------------------------------
(* create_context *)

\* The blob is copied once the old context is gone, or the clean-up of a failed
\* call ends.
FreeWeights ==
    /\ pc = "free weights"
    /\ owned' = IF global["gp_model_weights"] # NULL THEN owned \ {"gp_model_weights"}
                                                     ELSE owned
    /\ Assigned("gp_model_weights", NULL)
    /\ IF status = "OK" THEN Goto("copy weights") /\ InProgress /\ UNCHANGED status
                        ELSE Return(status, 0)
    /\ UNCHANGED <<call, local, views, mapping, copied, failures>>

\* Weights go first: the context still executes them.
release_context_backwards ==
    \/ ReleaseGlobal("release context", "gp_model_weights", "release instance")
    \/ ReleaseGlobal("release instance", "gp_instance", "free weights")
    \/ FreeWeights

release_context ==
    \/ ReleaseGlobal("release context", "gp_context", "release instance")
    \/ ReleaseGlobal("release instance", "gp_instance", "free weights")
    \/ FreeWeights

CopyWeights ==
    /\ pc = "copy weights"
    /\ Created("gp_model_weights")
    /\ Assigned("gp_model_weights", call.blob)
    /\ Goto("gp_instance")
    /\ InProgress /\ UNCHANGED <<call, local, views, mapping, copied, status, failures>>

RegisterTypes ==
    /\ pc = "register types"
    /\ \/ Goto(IF global["gp_device"] = NULL THEN "loader" ELSE "module")
          /\ UNCHANGED <<status, failures>>
       \/ Fails("iree_hal_module_register_all_types") /\ status' = "IREE_ERROR"
          /\ Goto("cleanup")
    /\ InProgress /\ UNCHANGED <<call, global, local, owned, views, mapping, copied>>

\* An error of the second call that skips the clean-up.
create_device_early_return ==
    \/ CreateLocal("create_device", "loader", "device_allocator", "release loader")
    \/ CreateLocal("create_device", "device_allocator", "gp_device", "cleanup")
    \/ CreateGlobal("create_device", "gp_device", "device", "release loader", "release loader")
    \/ ReleaseLocal("release loader", "loader", "release allocator")
    \/ ReleaseLocal("release allocator", "device_allocator",
                    IF status = "OK" THEN "module" ELSE "cleanup")

\* Its loader and its allocator are the device's alone when the call returns.
create_device ==
    \/ CreateLocal("create_device", "loader", "device_allocator", "release loader")
    \/ CreateLocal("create_device", "device_allocator", "gp_device", "release loader")
    \/ CreateGlobal("create_device", "gp_device", "device", "release loader", "release loader")
    \/ ReleaseLocal("release loader", "loader", "release allocator")
    \/ ReleaseLocal("release allocator", "device_allocator",
                    IF status = "OK" THEN "module" ELSE "cleanup")

\* A failure that forgets what was created before it.
ReturnContext_unreleased ==
    /\ pc = "cleaned up"
    /\ UNCHANGED <<call, global, local, owned, views, mapping, copied, failures>>
    /\ Return(status, 0)

ReturnContext ==
    /\ pc = "cleaned up"
    /\ UNCHANGED <<call, global, local, owned, views, mapping, copied, failures>>
    /\ IF status = "OK" THEN Return("OK", 0)
       ELSE Goto("release context") /\ InProgress /\ UNCHANGED status

create_context ==
    \/ \E blob \in Weights :
          Enter("release context", [fun |-> "create_context", blob |-> blob])
    \/ release_context
    \/ CopyWeights
    \/ CreateGlobal("iree_vm_instance_create", "gp_instance", "instance",
                    "register types", "cleanup")
    \/ RegisterTypes
    \/ create_device
    \/ CreateLocal("iree_vm_bytecode_module_create", "module", "hal_module", "cleanup")
    \/ CreateLocal("iree_hal_module_create", "hal_module", "gp_context", "cleanup")
    \/ CreateGlobal("iree_vm_context_create_with_modules", "gp_context",
                    global["gp_model_weights"], "cleanup", "cleanup")
    \/ ReleaseLocal("cleanup", "hal_module", "release module")
    \/ ReleaseLocal("release module", "module", "cleaned up")
    \/ ReturnContext

----------------------------------------------------------------------------
(* Input and output lists *)

\* A list is released with the views that were moved into it.
release_input_buffer ==
    /\ pc = "idle"
    /\ call' = [fun |-> "release_input_buffer"]
    /\ owned' = IF global["gp_model_inputs"] # NULL THEN owned \ {"gp_model_inputs"} ELSE owned
    /\ views' = [views EXCEPT !.moved = 0]
    /\ Assigned("gp_model_inputs", NULL)
    /\ Return("OK", 0)
    /\ UNCHANGED <<local, mapping, copied, failures>>

release_output_buffer ==
    /\ pc = "idle"
    /\ call' = [fun |-> "release_output_buffer"]
    /\ owned' = IF global["gp_model_outputs"] # NULL THEN owned \ {"gp_model_outputs"} ELSE owned
    /\ Assigned("gp_model_outputs", NULL)
    /\ Return("OK", 0)
    /\ UNCHANGED <<local, views, mapping, copied, failures>>

Fail(name, lostViews) ==
    /\ Fails(name)
    /\ UNCHANGED <<global, owned>>
    /\ Return("IREE_ERROR", lostViews)

\* Views need the device; each of them has been moved into the list, or is lost
\* when the call fails.
MakeInputList ==
    /\ pc = "input list"
    /\ \/ /\ Created("gp_model_inputs")
          /\ Assigned("gp_model_inputs", [data |-> call.data, views |-> 0])
          /\ Goto("view")
          /\ InProgress /\ UNCHANGED <<status, failures>>
       \/ Fail("input_list_create", 0)
    /\ UNCHANGED <<call, local, views, mapping, copied>>

MakeView ==
    /\ pc = "view"
    /\ \/ /\ views' = [views EXCEPT !.made = @ + 1]
          /\ Goto(IF views'.made = call.num_input THEN "push view" ELSE "view")
          /\ InProgress /\ UNCHANGED <<global, owned, status, failures>>
       \/ Fail("input_views", views.made) /\ views' = [views EXCEPT !.made = 0]
    /\ UNCHANGED <<call, local, mapping, copied>>

\* A push that retains the view leaves the program its own reference.
PushView_retaining ==
    /\ pc = "push view"
    /\ \/ /\ views' = [made |-> IF views.moved + 1 = call.num_input THEN 0 ELSE views.made,
                       moved |-> views.moved + 1]
          /\ Assigned("gp_model_inputs", [data |-> call.data, views |-> views'.moved])
          /\ IF views'.moved = call.num_input THEN Return("OK", call.num_input)
                                  ELSE Goto("push view") /\ InProgress /\ UNCHANGED status
          /\ UNCHANGED <<owned, failures>>
       \/ Fail("input_push", views.made) /\ views' = [views EXCEPT !.made = 0]
    /\ UNCHANGED <<call, local, mapping, copied>>

PushView ==
    /\ pc = "push view"
    /\ \/ /\ views' = [made |-> views.made - 1, moved |-> views.moved + 1]
          /\ Assigned("gp_model_inputs", [data |-> call.data, views |-> views'.moved])
          /\ IF views'.made = 0 THEN Return("OK", 0)
                                ELSE Goto("push view") /\ InProgress /\ UNCHANGED status
          /\ UNCHANGED <<owned, failures>>
       \/ Fail("input_push", views.made) /\ views' = [views EXCEPT !.made = 0]
    /\ UNCHANGED <<call, local, mapping, copied>>

\* The caller, load_model_input, has released the list before and knows a device.
prepare_input_buffer ==
    \/ /\ global["gp_model_inputs"] = NULL /\ global["gp_device"] # NULL
       /\ \E data \in Inputs, n \in 1..MAX_MODEL_INPUT_NUM :
             Enter("input list", [fun |-> "prepare_input_buffer", data |-> data, num_input |-> n])
    \/ MakeInputList \/ MakeView \/ PushView

MakeOutputList ==
    /\ pc = "output list"
    /\ \/ /\ Created("gp_model_outputs")
          /\ Assigned("gp_model_outputs", [weights |-> NULL, data |-> NULL, views |-> 0])
          /\ Return("OK", 0) /\ UNCHANGED failures
       \/ Fail("output_list_create", 0)
    /\ UNCHANGED <<call, local, views, mapping, copied>>

prepare_output_buffer ==
    \/ /\ global["gp_model_outputs"] = NULL
       /\ Enter("output list", [fun |-> "prepare_output_buffer"])
    \/ MakeOutputList

ResolveFunction ==
    /\ pc = "resolve"
    /\ \/ Goto("invoke") /\ InProgress /\ UNCHANGED <<global, owned, status, failures>>
       \/ Fail("invoke", 0)
    /\ UNCHANGED <<call, local, views, mapping, copied>>

\* The library refuses an argument list that does not fit the entry function.
ArgumentsFit ==
    /\ global["gp_model_inputs"] # NULL
    /\ global["gp_model_inputs"].views = NumArgs[global["gp_context"]]

Invoke ==
    /\ pc = "invoke"
    /\ \/ /\ ArgumentsFit
          /\ Assigned("gp_model_outputs",
                      [weights |-> global["gp_context"], data |-> global["gp_model_inputs"].data,
                       views |-> NumResults[global["gp_context"]]])
          /\ Return("OK", 0) /\ UNCHANGED <<owned, failures>>
       \/ ~ArgumentsFit /\ UNCHANGED <<global, owned, failures>> /\ Return("IREE_ERROR", 0)
       \/ Fail("invoke", 0)
    /\ UNCHANGED <<call, local, views, mapping, copied>>

\* Its caller, run_model, has just made the result list.  Without a context the
\* call is undefined (IreeWrapper has every outcome).
run_inference ==
    \/ /\ global["gp_context"] # NULL /\ global["gp_model_outputs"] # NULL
       /\ global["gp_model_outputs"].views = 0
       /\ Enter("resolve", [fun |-> "run_inference"])
    \/ ResolveFunction \/ Invoke

----------------------------------------------------------------------------
(* get_output *)

\* The next result: absent, or mapped, copied out and unmapped.
GetResult ==
    /\ pc = "get result"
    /\ UNCHANGED <<call, global, local, owned, views, copied, failures>>
    /\ IF copied = call.num_output THEN Return("OK", 0) /\ UNCHANGED mapping
       ELSE IF copied = global["gp_model_outputs"].views
       THEN Return("INV_PTR", 0) /\ UNCHANGED mapping
       ELSE Goto("map result") /\ InProgress /\ UNCHANGED <<status, mapping>>

MapResult ==
    /\ pc = "map result"
    /\ \/ /\ mapping' = mapping + 1
          /\ Goto("copy result") /\ InProgress
          /\ UNCHANGED <<global, owned, status, failures>>
       \/ Fail("map_range", 0) /\ UNCHANGED mapping
    /\ UNCHANGED <<call, local, views, copied>>

\* A mapping that is left open.
CopyResult_mapped ==
    /\ pc = "copy result"
    /\ copied' = copied + 1
    /\ Goto("get result")
    /\ InProgress /\ UNCHANGED <<call, global, local, owned, views, mapping, status, failures>>

CopyResult ==
    /\ pc = "copy result"
    /\ copied' = copied + 1
    /\ mapping' = mapping - 1
    /\ Goto("get result")
    /\ InProgress /\ UNCHANGED <<call, global, local, owned, views, status, failures>>

get_output ==
    \/ /\ global["gp_model_outputs"] # NULL
       /\ pc = "idle" /\ copied' = 0
       /\ \E n \in 1..MAX_MODEL_OUTPUTS : call' = [fun |-> "get_output", num_output |-> n]
       /\ status' = "OK" /\ Goto("get result")
       /\ UNCHANGED <<global, local, owned, views, mapping, seen, failures, lost>>
    \/ GetResult \/ MapResult \/ CopyResult

----------------------------------------------------------------------------
Next ==
    \/ create_context
    \/ release_input_buffer \/ release_output_buffer
    \/ prepare_input_buffer \/ prepare_output_buffer
    \/ run_inference \/ get_output

Spec == Init /\ [][Next]_vars

----------------------------------------------------------------------------
(* Properties *)

RetainedBy(objects) == UNION {Retains[o] : o \in objects \cap DOMAIN Retains}
Alive == owned \cup RetainedBy(owned) \cup RetainedBy(RetainedBy(owned))

(***************************************************************************)
(* Whatever lives, or is created next, has all it needs: no call gets a    *)
(* released object, a context or a module never outlives its instance, nor *)
(* a module the blob it executes, on the error paths of create_context and *)
(* its device too.                                                         *)
(***************************************************************************)
NothingDangles ==
    \A o \in (Alive \cup {pc}) \cap DOMAIN Needs : Needs[o] \subseteq Alive

(***************************************************************************)
(* The program owns exactly what its pointers show, at every call: nothing *)
(* is released twice, nothing forgotten and no pointer overwritten while   *)
(* it holds something.  Between functions only the file globals are left,  *)
(* no local object and no mapped buffer.                                   *)
(***************************************************************************)
OwnedIsHeld ==
    /\ owned = Held /\ pc \notin owned
    /\ pc = "idle" => local = {} /\ mapping = 0

(***************************************************************************)
(* Memory is lost by failed calls only, and no failure loses more than the *)
(* views of one input: prepare_input_buffer returns an error without       *)
(* releasing the views that are not in the list (iree_wrapper.c:234, 241). *)
(***************************************************************************)
OnlyFailuresLose == lost <= failures * MAX_MODEL_INPUT_NUM

\* The functions as one step each, over the globals a caller sees.
Wrapper == INSTANCE IreeWrapper WITH
    gp_instance <- seen["gp_instance"], gp_device <- seen["gp_device"],
    gp_context <- seen["gp_context"], gp_model_weights <- seen["gp_model_weights"],
    gp_model_inputs <- seen["gp_model_inputs"], gp_model_outputs <- seen["gp_model_outputs"]

Unseen(pointers) == \A p \in Globals \ pointers : seen'[p] = seen[p]

Specified(c, result) ==
    \/ /\ c.fun = "create_context"
       /\ Wrapper!create_context(c.blob, result)
       /\ Unseen({"gp_instance", "gp_device", "gp_context", "gp_model_weights"})
    \/ /\ c.fun = "release_input_buffer" /\ result = "OK"
       /\ Wrapper!release_input_buffer /\ Unseen({"gp_model_inputs"})
    \/ /\ c.fun = "release_output_buffer" /\ result = "OK"
       /\ Wrapper!release_output_buffer /\ Unseen({"gp_model_outputs"})
    \/ /\ c.fun = "prepare_input_buffer"
       /\ Wrapper!Outcome(result, seen'["gp_model_inputs"]) \in
              Wrapper!prepare_input_buffer(NULL, c.num_input, c.data)
       /\ Unseen({"gp_model_inputs"})
    \/ /\ c.fun = "prepare_output_buffer"
       /\ Wrapper!Outcome(result, seen'["gp_model_outputs"]) \in
              Wrapper!prepare_output_buffer(NULL)
       /\ Unseen({"gp_model_outputs"})
    \/ /\ c.fun = "run_inference"
       /\ Wrapper!Outcome(result, seen'["gp_model_outputs"]) \in
              Wrapper!run_inference(seen["gp_model_outputs"])
       /\ Unseen({"gp_model_outputs"})
    \/ /\ c.fun = "get_output"
       /\ \E got \in Wrapper!get_output(c.num_output) :
             got.status = result /\ (result = "OK" => got.list.views = copied')
       /\ Unseen({})

(***************************************************************************)
(* A function returns with one of the outcomes IreeWrapper gives it, in    *)
(* its status and in every global, wherever in it an IREE call failed.     *)
(***************************************************************************)
ReturnsAsSpecified ==
    [][IF pc' = "idle" THEN Specified(call', status') ELSE UNCHANGED seen]_vars

============================================================================
