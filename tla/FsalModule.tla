----------------------------- MODULE FsalModule -----------------------------
(***************************************************************************)
(* The life of the back end in the server: fsal_init and fsal_unload       *)
(* (main.c), cloud_create_export (export.c), the loading of the plugin and *)
(* the table of its functions (cloud_connector.c), the connector's init,   *)
(* deinit and check of its state (s3_connector.c).  Threads make requests  *)
(* meanwhile, of which nothing is modelled but whether libs3 is ready.     *)
(***************************************************************************)
EXTENDS FiniteSets

CONSTANTS
  Threads,       \* threads of the server
  Exports,       \* memory for exports
  HoldsModule    \* does the server count its uses of the module, as NFS-Ganesha does?

ASSUME ModuleAssumption == HoldsModule \in BOOLEAN

VARIABLES
  alive,           \* the process runs
  cops,            \* has the table of functions been filled?
  current_state,   \* "INITIALIZED" or "DEINITIALIZED"
  libs3,           \* is libs3 initialised?
  module,          \* how far fsal_init and fsal_unload have come
  allocated,       \* exports that have memory
  attached,        \* exports on the list of the module
  inUse,           \* ... that the server uses
  rejected,        \* history: exports whose configuration could not be read
  thread           \* for each thread, what it does

connector == <<cops, current_state, libs3>>
exports == <<allocated, attached, inUse, rejected>>
vars == <<alive, connector, module, exports, thread>>

Idle == [step |-> "idle"]
Busy == {t \in Threads : thread[t] # Idle}
At(t, step) == alive /\ thread[t].step = step

Dies ==
  /\ alive' = FALSE
  /\ UNCHANGED <<connector, module, exports, thread>>

\* The requests of handle operations; s3_delete_object has no caller.
Requests == {"get", "put", "head", "copy", "list"}

-----------------------------------------------------------------------------
(***************************************************************************)
(* Start.  cloud_init returns 0 whatever happens.                          *)
(***************************************************************************)
\* Mutant of s3_init_connector: the state is not set.
init_without_state ==
  \/ UNCHANGED <<alive, connector>>
  \/ alive' = FALSE /\ libs3' = TRUE /\ UNCHANGED <<cops, current_state>>
  \/ /\ libs3' = TRUE /\ cops' = TRUE
     /\ UNCHANGED <<alive, current_state>>

\* libs3 cannot be initialised; or a key is missing, and the process exits; or
\* all is well.
s3_init_connector ==
  \/ UNCHANGED <<alive, connector>>
  \/ alive' = FALSE /\ libs3' = TRUE /\ UNCHANGED <<cops, current_state>>
  \/ /\ libs3' = TRUE /\ cops' = TRUE /\ current_state' = "INITIALIZED"
     /\ UNCHANGED alive

\* The plugin, or its function, is not found; or the function is called.
cloud_init ==
  \/ UNCHANGED <<alive, connector>>
  \/ s3_init_connector

Connect ==
  /\ alive /\ module = "absent"
  /\ cloud_init
  /\ module' = "connected"
  /\ UNCHANGED <<exports, thread>>

\* register_fsal, which may fail; the connector stays as it is.
Register ==
  /\ alive /\ module = "connected"
  /\ module' \in {"registered", "refused"}
  /\ UNCHANGED <<alive, connector, exports, thread>>

-----------------------------------------------------------------------------
(***************************************************************************)
(* Exports.                                                                *)
(***************************************************************************)
\* cloud_create_export up to the attachment: without memory, or if
\* fsal_export_init fails, nothing is left; a bad configuration leaves the memory.
CreateExport(t) ==
  /\ At(t, "idle") /\ module = "registered"
  /\ \E e \in Exports \ allocated :
       /\ allocated' = allocated \cup {e}
       /\ \/ rejected' = rejected \cup {e} /\ UNCHANGED thread
          \/ thread' = [thread EXCEPT ![t] = [step |-> "attach", export |-> e]] /\ UNCHANGED rejected
  /\ UNCHANGED <<alive, connector, module, attached, inUse>>

\* Mutant of AttachExport: what could not be attached is not freed.
attach_or_leak(t) ==
  /\ At(t, "attach")
  /\ \/ /\ attached' = attached \cup {thread[t].export}
        /\ inUse' = inUse \cup {thread[t].export}
        /\ UNCHANGED allocated
     \/ UNCHANGED <<allocated, attached, inUse>>
  /\ thread' = [thread EXCEPT ![t] = Idle]
  /\ UNCHANGED <<alive, connector, module, rejected>>

AttachExport(t) ==
  /\ At(t, "attach")
  /\ \/ /\ attached' = attached \cup {thread[t].export}
        /\ inUse' = inUse \cup {thread[t].export}
        /\ UNCHANGED allocated
     \/ /\ allocated' = allocated \ {thread[t].export}
        /\ UNCHANGED <<attached, inUse>>
  /\ thread' = [thread EXCEPT ![t] = Idle]
  /\ UNCHANGED <<alive, connector, module, rejected>>

\* The server lets go of an export that no thread is in.  The module installs no
\* release operation: the export stays allocated and on the list.
DropExport(e) ==
  /\ alive /\ e \in inUse
  /\ \A t \in Busy : thread[t].export # e
  /\ inUse' = inUse \ {e}
  /\ UNCHANGED <<alive, connector, module, allocated, attached, rejected, thread>>

-----------------------------------------------------------------------------
(***************************************************************************)
(* Requests.                                                               *)
(***************************************************************************)
BeginRequest(t) ==
  /\ At(t, "idle")
  /\ \E e \in inUse, r \in Requests :
       thread' = [thread EXCEPT ![t] = [step |-> "call", export |-> e, request |-> r]]
  /\ UNCHANGED <<alive, connector, module, exports>>

\* The function of cloud_connector.c, and the check of the state, which
\* s3_get_object does not have; the others return 0 if it fails.
CallConnector(t) ==
  /\ At(t, "call")
  /\ cops
  /\ thread' = [thread EXCEPT ![t].step =
                  IF thread[t].request = "get" \/ current_state = "INITIALIZED"
                  THEN "send" ELSE "skipped"]
  /\ UNCHANGED <<alive, connector, module, exports>>

\* The table is read through NULL.
CallNull(t) == At(t, "call") /\ ~cops /\ Dies

SendRequest(t) ==
  /\ At(t, "send")
  /\ thread' = [thread EXCEPT ![t].step = "libs3"]
  /\ UNCHANGED <<alive, connector, module, exports>>

Returns(t) ==
  /\ alive /\ thread[t].step \in {"libs3", "skipped"}
  /\ thread' = [thread EXCEPT ![t] = Idle]
  /\ UNCHANGED <<alive, connector, module, exports>>

-----------------------------------------------------------------------------
(***************************************************************************)
(* Stop.                                                                   *)
(***************************************************************************)
\* unregister_fsal refuses a module that is in use.
Held == HoldsModule /\ (inUse # {} \/ Busy # {})

\* fsal_unload up to cloud_deinit; it returns if unregister_fsal refuses.
Unregister ==
  /\ alive /\ module = "registered"
  /\ ~Held
  /\ module' = "unregistered"
  /\ UNCHANGED <<alive, connector, exports, thread>>

\* Mutant of Deinit: fsal_unload goes on when unregister_fsal has refused.
deinit_regardless ==
  /\ alive /\ cops
  /\ module \in {"registered", "unregistered"}
  /\ libs3' = FALSE
  /\ module' = "deinit"
  /\ UNCHANGED <<alive, cops, current_state, exports, thread>>

\* cloud_deinit, s3_deinit_connector: libs3 goes first ...
Deinit ==
  /\ alive /\ cops
  /\ module = "unregistered"
  /\ libs3' = FALSE
  /\ module' = "deinit"
  /\ UNCHANGED <<alive, cops, current_state, exports, thread>>

\* ... and then the state.
DeinitState ==
  /\ alive /\ module = "deinit"
  /\ current_state' = "DEINITIALIZED"
  /\ module' = "gone"
  /\ UNCHANGED <<alive, cops, libs3, exports, thread>>

\* The table is read through NULL.
DeinitNull == alive /\ module = "unregistered" /\ ~cops /\ Dies

\* The server has ended, or ends because the module is not there, and is started again.
RestartServer ==
  /\ ~alive \/ module \in {"refused", "gone"}
  /\ alive' = TRUE /\ module' = "absent"
  /\ cops' = FALSE /\ current_state' = "DEINITIALIZED" /\ libs3' = FALSE
  /\ allocated' = {} /\ attached' = {} /\ inUse' = {} /\ rejected' = {}
  /\ thread' = [t \in Threads |-> Idle]

ModuleInit ==
  /\ alive = TRUE /\ module = "absent"
  /\ cops = FALSE /\ current_state = "DEINITIALIZED" /\ libs3 = FALSE
  /\ allocated = {} /\ attached = {} /\ inUse = {} /\ rejected = {}
  /\ thread = [t \in Threads |-> Idle]

ThreadStep(t) ==
  \/ CreateExport(t) \/ AttachExport(t)
  \/ BeginRequest(t) \/ CallConnector(t) \/ CallNull(t) \/ SendRequest(t) \/ Returns(t)

ModuleNext ==
  \/ Connect \/ Register \/ Unregister \/ Deinit \/ DeinitState \/ DeinitNull \/ RestartServer
  \/ \E t \in Threads : ThreadStep(t)
  \/ \E e \in Exports : DropExport(e)

ModuleSpec == ModuleInit /\ [][ModuleNext]_vars

-----------------------------------------------------------------------------
\* A request that is handed to libs3, or that libs3 works on, finds it
\* initialised, though s3_get_object does not look and the others look earlier
\* (fsal_unload, s3_deinit_connector, against cloud_init that may have failed).
RequestsFindLibrary ==
  \A t \in Threads : At(t, "send") \/ At(t, "libs3") => libs3

\* No operation returns success for a request that was never sent, which is all
\* that the check of current_state would do about it.
NoneSkipped == \A t \in Threads : ~At(t, "skipped")

\* Every export that has memory is on the list of the module, or a thread is
\* making it, or its configuration was rejected, which leaks it; and none of
\* those was freed (cloud_create_export).
ExportsAccounted ==
  alive => allocated = attached \cup rejected \cup {thread[t].export : t \in {u \in Threads : At(u, "attach")}}
=============================================================================
