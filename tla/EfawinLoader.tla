------------------------------ MODULE EfawinLoader -----------------------------
(* The loader an application is built with (interface/efawin.c): the library  *)
(* handle, and the table of functions its ibv_... functions call through,     *)
(* which begins with dummy functions that fail.                               *)
EXTENDS FiniteSets

(* The functions the loader looks up and the table holds.                     *)
Exports ==
  {"ibv_reg_mr", "ibv_reg_mr_iova2", "ibv_dereg_mr", "ibv_query_device",
   "ibv_qp_to_qp_ex", "ibv_query_port", "ibv_query_gid", "ibv_modify_qp",
   "ibv_destroy_qp", "ibv_create_qp", "ibv_dealloc_pd", "ibv_alloc_pd",
   "ibv_fork_init", "ibv_free_device_list", "ibv_close_device",
   "ibv_get_device_list", "ibv_open_device", "ibv_create_cq",
   "ibv_create_cq_ex", "ibv_wc_status_str", "ibv_destroy_cq", "ibv_destroy_ah",
   "ibv_create_ah", "efadv_query_ah", "efadv_create_qp_ex",
   "efadv_query_device"}

CONSTANT
  Dlls        \* efawin.dll as it may be found: [version, exports]

ASSUME LoaderAssumption ==
  \A dll \in Dlls : dll.version \in BOOLEAN /\ dll.exports \subseteq Exports

VARIABLES
  lib,        \* hEfawinLib is set
  mapped,     \* the library is in the process
  ops,        \* efawin_ops: "dummy", or "lib" for a function of the library
  wanted      \* the application has called efa_load_efawin_lib since it freed it

loaderVars == <<lib, mapped, ops, wanted>>

LoaderInit ==
  /\ lib = FALSE /\ mapped = FALSE
  /\ ops = [e \in Exports |-> "dummy"]
  /\ wanted = FALSE

(* check_version has the version right, and every function is there.          *)
Usable(dll) == dll.version /\ dll.exports = Exports

(* The table is filled once all functions are known.                          *)
\* mutant: as they are found
OpsAsFound(dll) ==
  [e \in Exports |-> IF dll.version /\ e \in dll.exports THEN "lib" ELSE ops[e]]
OpsWhenAll(dll) ==
  [e \in Exports |-> IF Usable(dll) THEN "lib" ELSE ops[e]]

(* efa_load_efawin_lib: -EALREADY, the error of LoadLibrary, liberror, or 0.  *)
LoadAgain == lib /\ UNCHANGED loaderVars
LoadMissing == ~lib /\ wanted' = TRUE /\ UNCHANGED <<lib, mapped, ops>>
Load(dll) ==
  /\ ~lib
  /\ lib' = Usable(dll) /\ mapped' = Usable(dll)    \* liberror frees it
  /\ ops' = OpsWhenAll(dll)
  /\ wanted' = TRUE

(* efa_free_efawin_lib: the table keeps pointing into the library.            *)
Free ==
  /\ lib' = FALSE /\ mapped' = IF lib THEN FALSE ELSE mapped
  /\ wanted' = FALSE
  /\ UNCHANGED ops

(* A forwarder calls through the table.                                       *)
Forwards(e) == wanted /\ ops[e] = "lib" /\ mapped
ForwardsToDummy(e) == wanted /\ ops[e] = "dummy"
ForwardsNowhere(e) == wanted /\ ops[e] = "lib" /\ ~mapped
=============================================================================
