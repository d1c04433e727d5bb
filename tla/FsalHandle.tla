----------------------------- MODULE FsalHandle -----------------------------
(***************************************************************************)
(* The handle operations of FSAL_CLOUD (handle.c): lookup of the export's  *)
(* root, lookup, create, mkdir, getattrs and setattrs, issued by the       *)
(* threads of an NFS server (Callers) against one S3 bucket that the       *)
(* create_export tool and programs other than this one also write.         *)
(*                                                                         *)
(* An operation is a sequence of S3 requests with local work between them. *)
(* A request is atomic at the store, so an action below ends where the     *)
(* code hands a request to libs3 or returns.  No lock is taken anywhere in *)
(* the code: steps of different callers interleave freely.  The connector  *)
(* never reports a failed request to its caller, and none of the           *)
(* operations ever returns anything but ERR_FSAL_NO_ERROR.                 *)
(***************************************************************************)
EXTENDS CloudMetadata, ObjectIds

CONSTANTS
  Callers,        \* threads of the NFS server
  Names,          \* file names: non-empty sequences of Letters
  MaxOid,         \* bound on the length of an object id (the code's BUF_SIZE)
  CreateAttrs,    \* attributes a caller may pass to create ...
  MakedirAttrs,   \* ... to mkdir ...
  SetAttrs,       \* ... and to setattrs
  ForeignKeys,    \* objects that other programs overwrite
  ForeignMeta,    \* what such programs leave as metadata
  Faults          \* what may go wrong with a request, see Fault

(***************************************************************************)
(* "refused": the request has no effect and the answer is an error;        *)
(* "lost_put": a PUT has its effect, and the answer is lost;               *)
(* "lost_answer": the answer to a GET or a HEAD is lost;                   *)
(* "no_details": libs3 gives up before sending it, with an S3ErrorDetails  *)
(* that is NULL.                                                           *)
(***************************************************************************)
Fault == {"refused", "lost_put", "lost_answer", "no_details"}

ASSUME NamesAssumption ==
  /\ Slash \notin Letters
  /\ Names \subseteq Seq(Letters) \ {<<>>}
ASSUME AttrsAssumption ==
  \A attrs \in CreateAttrs \cup MakedirAttrs \cup SetAttrs \cup ForeignMeta :
    DOMAIN attrs \subseteq MetadataName
ASSUME ParametersAssumption ==
  /\ Faults \subseteq Fault
  /\ MaxOid \in Nat
  /\ ForeignKeys \subseteq Oid

VARIABLES
  bucket,    \* the objects: a function from the keys present to metadata
  alive,     \* is the NFS server process running?
  handles,   \* the handles the server holds: object id to its latest attributes
  call       \* for each caller, the operation it is in

vars == <<bucket, alive, handles, call>>

\* What a running operation keeps in its C stack frame.
Operation ==
  {"lookup_path", "lookup", "create", "makedir", "getattrs", "setattrs"}
Idle == [op |-> "none"]
Busy(c) == call[c] # Idle

-----------------------------------------------------------------------------
(***************************************************************************)
(* Operations begin.                                                       *)
(*                                                                         *)
(* The server hands an operation on a directory only handles whose type    *)
(* is DIRECTORY.  It is outside this code.                                 *)
(***************************************************************************)
DirectoryHandle(oid) ==
  /\ oid \in DOMAIN handles
  /\ FILETYPE \in DOMAIN handles[oid]
  /\ handles[oid][FILETYPE] = "DIRECTORY"

Begin(c, op, step, oid, via, attrs, dp) ==
  /\ alive
  /\ ~Busy(c)
  /\ Len(oid) <= MaxOid
  /\ call' = [call EXCEPT ![c] = [op |-> op, step |-> step, oid |-> oid,
                                  via |-> via, attrs |-> attrs, dp |-> dp]]
  /\ UNCHANGED <<bucket, alive, handles>>

\* cloud_lookup_path: get_object of the root.
LookupPath(c) ==
  Begin(c, "lookup_path", "get", ROOTOID, <<>>, Nothing, AllocatedPointer)

\* cloud_lookup: get_object of parent id and name.
Lookup(c, parent, name) ==
  /\ DirectoryHandle(parent)
  /\ Begin(c, "lookup", "get", file_key(parent, name), <<parent, name>>,
           Nothing, AllocatedPointer)

(***************************************************************************)
(* cloud_create and cloud_makedir: default metadata, those of a directory  *)
(* in both, with the attributes of the caller over them, then put_object   *)
(* and get_object_metadata.  No check whether the object exists.           *)
(***************************************************************************)
\* Mutant of new_metadata: the defaults are those of a file.
new_metadata_of_file(oid, attrs) ==
  refill_metadata(attrs, default_metadata(REGULARFILE_T, oid))

new_metadata(oid, attrs) ==
  refill_metadata(attrs, default_metadata(DIRECTORY_T, oid))

\* Mutant of Create: it does not put the object.
create_without_put(c, parent, name, attrs) ==
  LET oid == file_key(parent, name)
      dp  == DefaultPointer(new_metadata(oid, attrs))
  IN  /\ DirectoryHandle(parent)
      /\ ~refill_dies(attrs, dp)
      /\ Begin(c, "create", "head", oid, <<parent, name>>, attrs, dp)

Create(c, parent, name, attrs) ==
  LET oid == file_key(parent, name)
      dp  == DefaultPointer(new_metadata(oid, attrs))
  IN  /\ DirectoryHandle(parent)
      /\ ~refill_dies(attrs, dp)
      /\ Begin(c, "create", "put", oid, <<parent, name>>, attrs, dp)

Makedir(c, parent, name, attrs) ==
  LET oid == dir_key(parent, name)
      dp  == DefaultPointer(new_metadata(oid, attrs))
  IN  /\ DirectoryHandle(parent)
      /\ ~refill_dies(attrs, dp)
      /\ Begin(c, "makedir", "put", oid, <<parent, name>>, attrs, dp)

\* cloud_getattrs: get_object_metadata into a fresh array.
Getattrs(c, oid) ==
  /\ oid \in DOMAIN handles
  /\ Begin(c, "getattrs", "head", oid, <<>>, Nothing, AllocatedPointer)

\* Mutant of Setattrs: it starts from default metadata and not from those
\* the object has.
setattrs_of_defaults(c, oid, attrs) ==
  /\ oid \in DOMAIN handles
  /\ Begin(c, "setattrs", "copy", oid, <<>>, attrs,
           DefaultPointer(default_metadata(DIRECTORY_T, oid)))

\* cloud_setattrs: read the metadata, replace some, write all of it back.
Setattrs(c, oid, attrs) ==
  /\ oid \in DOMAIN handles
  /\ Begin(c, "setattrs", "head", oid, <<>>, attrs, AllocatedPointer)

-----------------------------------------------------------------------------
(***************************************************************************)
(* The requests of a running operation, and its return.                    *)
(***************************************************************************)
At(c, step) == alive /\ Busy(c) /\ call[c].step = step

Moves(c, step, dp) ==
  /\ call' = [call EXCEPT ![c] = [@ EXCEPT !.step = step, !.dp = dp]]
  /\ UNCHANGED <<alive, handles>>

\* The process is gone (a NULL pointer, or exit), and all it had in memory.
Dies ==
  /\ alive' = FALSE
  /\ handles' = Nothing
  /\ call' = [c \in Callers |-> Idle]
  /\ UNCHANGED bucket

\* create or mkdir of a type the code does not support.
UnsupportedType(c, parent, attrs) ==
  /\ alive
  /\ ~Busy(c)
  /\ DirectoryHandle(parent)
  /\ unsupported_type(attrs)
  /\ Dies

Stored(oid, meta) ==
  [o \in DOMAIN bucket \cup {oid} |-> IF o = oid THEN meta ELSE bucket[o]]

(***************************************************************************)
(* _responseCompleteCallback is given the status.  It looks into the error *)
(* details without asking whether there are any, unless there is no        *)
(* data_pointer to report to, as in s3_put_object_metadata.                *)
(***************************************************************************)
NoDetails(c) == "no_details" \in Faults /\ Dies

\* Mutant of PutObject: the loop around S3_put_object has no end.
put_again(c) ==
  /\ At(c, "put")
  /\ bucket' = Stored(call[c].oid, call[c].dp.meta)
  /\ Moves(c, "put", call[c].dp)

\* s3_put_object: the answer to a PUT carries no metadata.
PutObject(c) ==
  LET oid == call[c].oid
      dp  == call[c].dp
  IN  /\ At(c, "put")
      /\ \/ bucket' = Stored(oid, dp.meta) /\ Moves(c, "head", received(dp, Nothing))
         \/ "lost_put" \in Faults /\ bucket' = Stored(oid, dp.meta) /\ Moves(c, "head", dp)
         \/ "refused" \in Faults /\ UNCHANGED bucket /\ Moves(c, "head", dp)
         \/ NoDetails(c)

\* An answer that is an error carries no properties: the array stays as it is.
Answers(c, next) ==
  LET oid == call[c].oid
      dp  == call[c].dp
  IN  /\ UNCHANGED bucket
      /\ \/ oid \in DOMAIN bucket /\ Moves(c, next, received(dp, bucket[oid]))
         \/ (oid \notin DOMAIN bucket \/ Faults \cap {"refused", "lost_answer"} # {})
            /\ Moves(c, next, dp)

\* s3_get_object
GetObject(c) == At(c, "get") /\ (Answers(c, "fill") \/ NoDetails(c))

\* Mutant of HeadObject: setattrs does not go on to write.
head_then_fill(c) == At(c, "head") /\ (Answers(c, "fill") \/ NoDetails(c))

\* s3_get_object_metadata
HeadObject(c) ==
  /\ At(c, "head")
  /\ \/ Answers(c, IF call[c].op = "setattrs" THEN "copy" ELSE "fill")
     \/ NoDetails(c)

(***************************************************************************)
(* The rest of cloud_setattrs: refill, s3_put_object_metadata (a copy of   *)
(* the object onto itself with new metadata), and return.  The copy is     *)
(* refused if the object is not there.  It sends metadata_count slots; for *)
(* a NULL one libs3 prints a NULL name, which kills it or makes an object  *)
(* whose one metadata has no name this code knows.                         *)
(***************************************************************************)
Copies(oid, meta) ==
  \/ oid \in DOMAIN bucket /\ bucket' = Stored(oid, meta)
  \/ /\ oid \notin DOMAIN bucket \/ Faults \cap {"refused", "no_details"} # {}
     /\ UNCHANGED bucket

CopyObject(c) ==
  LET oid   == call[c].oid
      attrs == call[c].attrs
      dp    == call[c].dp
  IN  /\ At(c, "copy")
      /\ \/ /\ refill_dies(attrs, dp) \/ dp.filled < dp.count
            /\ Dies
         \/ /\ ~refill_dies(attrs, dp)
            /\ Copies(oid, refill_metadata(attrs, dp.meta))
            /\ call' = [call EXCEPT ![c] = Idle]
            /\ UNCHANGED <<alive, handles>>

\* Mutant of FilledAttrs: the handle the server has is not filled again.
filled_once(c) ==
  IF call[c].oid \in DOMAIN handles THEN handles[call[c].oid]
  ELSE fill_attrlist(call[c].dp.meta, Nothing)

\* getattrs fills the handle it was given, the others a new, zeroed one.
FilledAttrs(c) ==
  fill_attrlist(call[c].dp.meta,
                IF call[c].op = "getattrs" THEN handles[call[c].oid] ELSE Nothing)

\* _fill_attrlist, and the operation hands its handle to the caller.
Return(c) ==
  LET oid == call[c].oid IN
  /\ At(c, "fill")
  /\ \/ fill_dies(call[c].dp) /\ Dies
     \/ /\ ~fill_dies(call[c].dp)
        /\ handles' = [o \in DOMAIN handles \cup {oid} |->
                         IF o = oid THEN FilledAttrs(c) ELSE handles[o]]
        /\ call' = [call EXCEPT ![c] = Idle]
        /\ UNCHANGED <<bucket, alive>>

-----------------------------------------------------------------------------
(***************************************************************************)
(* Other processes.                                                        *)
(***************************************************************************)

\* cli/create_export.c: put the root with default metadata.  It may run, and
\* run again, at any time.
CreateExport ==
  /\ bucket' = Stored(ROOTOID, default_metadata(DIRECTORY_T, ROOTOID))
  /\ UNCHANGED <<alive, handles, call>>

\* Another program writes to the bucket, with fewer metadata.
ForeignPut(oid, meta) ==
  /\ bucket' = Stored(oid, meta)
  /\ UNCHANGED <<alive, handles, call>>

\* The server is started again; it holds no handle.
Restart ==
  /\ ~alive
  /\ alive' = TRUE
  /\ UNCHANGED <<bucket, handles, call>>

-----------------------------------------------------------------------------
Init ==
  /\ bucket = Nothing
  /\ alive = TRUE
  /\ handles = Nothing
  /\ call = [c \in Callers |-> Idle]

Starts(c) ==
  \/ LookupPath(c)
  \/ \E parent \in DOMAIN handles :
       \/ \E name \in Names :
            \/ Lookup(c, parent, name)
            \/ \E attrs \in CreateAttrs : Create(c, parent, name, attrs)
            \/ \E attrs \in MakedirAttrs : Makedir(c, parent, name, attrs)
       \/ \E attrs \in CreateAttrs \cup MakedirAttrs : UnsupportedType(c, parent, attrs)
  \/ \E oid \in DOMAIN handles :
       \/ Getattrs(c, oid)
       \/ \E attrs \in SetAttrs : Setattrs(c, oid, attrs)

Continues(c) ==
  \/ PutObject(c)
  \/ GetObject(c)
  \/ HeadObject(c)
  \/ CopyObject(c)
  \/ Return(c)

Next ==
  \/ \E c \in Callers : Starts(c) \/ Continues(c)
  \/ CreateExport
  \/ \E oid \in ForeignKeys, meta \in ForeignMeta : ForeignPut(oid, meta)
  \/ Restart

\* A caller in the middle of an operation goes on with it, and libs3 answers
\* every request in the end.
Fairness == \A c \in Callers : WF_vars(Continues(c))

Spec == Init /\ [][Next]_vars

-----------------------------------------------------------------------------
(***************************************************************************)
(* Properties.                                                             *)
(***************************************************************************)
\* The steps each operation is made of.
StepOf ==
  [lookup_path |-> {"get", "fill"}, lookup |-> {"get", "fill"},
   create |-> {"put", "head", "fill"}, makedir |-> {"put", "head", "fill"},
   getattrs |-> {"head", "fill"}, setattrs |-> {"head", "copy"}]

CallOK(k) ==
  /\ k = [op |-> k.op, step |-> k.step, oid |-> k.oid,
          via |-> k.via, attrs |-> k.attrs, dp |-> k.dp]
  /\ k.op \in Operation
  /\ k.step \in StepOf[k.op]
  /\ k.oid \in Oid
  /\ DOMAIN k.attrs \subseteq MetadataName
  /\ k.op \in {"getattrs", "setattrs"} => k.oid \in DOMAIN handles
  /\ IsPointer(k.dp)

\* Type invariant.  A server that is down has no handle and no running call;
\* each operation is at one of its own steps; getattrs and setattrs have the
\* handle they were called on.
TypeOK ==
  /\ alive \in BOOLEAN
  /\ ~alive => handles = Nothing /\ \A c \in Callers : ~Busy(c)
  /\ \A o \in DOMAIN bucket : o \in Oid /\ DOMAIN bucket[o] \subseteq MetadataName
  /\ \A o \in DOMAIN handles : o \in Oid /\ DOMAIN handles[o] \subseteq MetadataName
  /\ DOMAIN call = Callers
  /\ \A c \in Callers : Busy(c) => CallOK(call[c])

\* Every object this code wrote carries all METADATACOUNT metadata, whatever
\* requests fail and however calls interleave: setattrs writes back what it
\* read, and never a partial array (cloud_setattrs, _refill_metadata).
BucketComplete ==
  \A o \in DOMAIN bucket \ ForeignKeys : DOMAIN bucket[o] = MetadataName

\* A server holds handles only of objects that are in the bucket: create and
\* mkdir return after the object is stored, and a lookup that found nothing
\* returns no handle (handle.c).
HandlesBacked == DOMAIN handles \subseteq DOMAIN bucket

\* What has an id that ends in a slash, as cloud_makedir and create_export spell
\* them, is a directory in the bucket and in the server, whether callers pass a
\* type or leave it to its default, and whichever requests of a setattrs that
\* writes the type back fail.  The converse does not hold: cloud_create gives a
\* file the default of a directory (handle.c:124).
DirectoriesTyped ==
  /\ \A o \in DOMAIN bucket :
       FILETYPE \in DOMAIN bucket[o] /\ EndsInSlash(o) => bucket[o][FILETYPE] = DIRECTORY_T
  /\ \A o \in DOMAIN handles :
       FILETYPE \in DOMAIN handles[o] /\ EndsInSlash(o) => handles[o][FILETYPE] = "DIRECTORY"

\* While the store answers what it is asked, an operation on a handle the
\* server already has never ends the process, be the answer to a PUT lost or
\* not: only the lookup of something that is not there can.  create, mkdir,
\* getattrs and setattrs always find their object, with every metadata
\* _fill_attrlist and replace_metadata_value go through.
OnlyLookupsDie ==
  [][\A c \in Callers :
       Continues(c) /\ ~alive' => call[c].op \in {"lookup", "lookup_path"}]_vars

\* Every operation comes to an end, whatever other callers do and whichever
\* answers are lost: a failed request is not made again, but followed by the next
\* one or the return, or the process is gone (handle.c, s3_put_object).
CallsEnd == \A c \in Callers : Busy(c) ~> ~Busy(c)
=============================================================================
