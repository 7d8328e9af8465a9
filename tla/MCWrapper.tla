----------------------------- MODULE MCWrapper -----------------------------
(***************************************************************************)
(* Small instance of WrapperCalls for TLC: two models that differ in the   *)
(* number of their arguments and results, and every IREE call failing.     *)
(***************************************************************************)
EXTENDS WrapperCalls, TLC

CONSTANTS w1, w2, x1

MCNumArgs == w1 :> 1 @@ w2 :> 2
MCNumResults == w1 :> 1 @@ w2 :> 2
MCFaults == {"iree_vm_instance_create", "iree_hal_module_register_all_types",
             "create_device", "iree_vm_bytecode_module_create",
             "iree_hal_module_create", "iree_vm_context_create_with_modules",
             "input_list_create", "input_views", "input_push",
             "output_list_create", "invoke", "map_range"}
============================================================================
