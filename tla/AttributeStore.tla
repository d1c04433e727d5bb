--------------------------- MODULE AttributeStore ---------------------------
(***************************************************************************)
(* What create, mkdir and setattrs promise of the attributes of a file,    *)
(* whatever requests they are made of: a change is one step.  It happens   *)
(* between the beginning of the call and its return, once or, as no        *)
(* operation reports a failure, not at all.  A create replaces the         *)
(* object; a setattrs changes what it was asked to change and leaves the   *)
(* rest as it is at that moment.                                           *)
(***************************************************************************)
EXTENDS CloudMetadata

CONSTANTS
  Callers,   \* those who call
  Changes    \* what they may ask for: [kind, oid, attrs]

VARIABLES
  objects,   \* ids of the files there are, to their metadata
  running    \* for each caller, the change that is still to happen

storeVars == <<objects, running>>

NoChange == [kind |-> "none"]

Ask(c) ==
  /\ running[c] = NoChange
  /\ running'[c] \in Changes
  /\ running' = [running EXCEPT ![c] = running'[c]]
  /\ UNCHANGED objects

Ends(c) == running' = [running EXCEPT ![c] = NoChange]

CreateObject(c) ==
  LET change == running[c] IN
  /\ change.kind = "create"
  /\ objects' = [o \in DOMAIN objects \cup {change.oid} |->
                   IF o = change.oid
                   THEN refill_metadata(change.attrs, default_metadata(DIRECTORY_T, o))
                   ELSE objects[o]]
  /\ Ends(c)

UpdateObject(c) ==
  LET change == running[c] IN
  /\ change.kind = "update"
  /\ change.oid \in DOMAIN objects
  /\ objects' = [objects EXCEPT ![change.oid] = refill_metadata(change.attrs, @)]
  /\ Ends(c)

Fail(c) == Ends(c) /\ UNCHANGED objects

\* The process ends, and with it every call.
Crash ==
  /\ running' = [c \in Callers |-> NoChange]
  /\ UNCHANGED objects

Init ==
  /\ objects = Nothing
  /\ running = [c \in Callers |-> NoChange]

Next ==
  \/ \E c \in Callers : Ask(c) \/ CreateObject(c) \/ UpdateObject(c) \/ Fail(c)
  \/ Crash

Spec == Init /\ [][Next]_storeVars
=============================================================================
