---------------------------- MODULE FsalUpdates ----------------------------
(***************************************************************************)
(* FsalHandle with a history variable: the attributes that setattrs calls  *)
(* have returned from storing.  cloud_setattrs reads all metadata of an    *)
(* object, replaces some and writes all of them, in two requests, with no  *)
(* lock and no condition on the write.  NFS-Ganesha holds the attribute    *)
(* lock of a cached entry across a setattrs, which orders the setattrs of  *)
(* one object.  An object that is created has no entry yet, so nothing     *)
(* orders a create with other calls; where the server would order it, too, *)
(* the operations implement AttributeStore.                                *)
(***************************************************************************)
EXTENDS FsalHandle

CONSTANTS
  Ordered,    \* the writing operations that wait for each other on an object
  Observed    \* the objects whose versions seen records

Writing == {"create", "makedir", "setattrs"}

ASSUME OrderedAssumption == Ordered \subseteq Writing

VARIABLES
  promised,  \* history: [oid, name, value] that a setattrs left behind
  seen       \* history: what each call that reports attributes could have read

updateVars == <<bucket, alive, handles, call, promised, seen>>

\* The metadata a call sets to a value of its caller's choice.
Sets(k) ==
  CASE k.op = "setattrs"             -> Refilled(k.attrs)
    [] k.op \in {"create", "makedir"} -> MetadataName
    [] OTHER                          -> {}

\* The metadata of `oid' that callers other than c are setting.
SetByOthers(c, oid) ==
  UNION {Sets(call[d]) : d \in {e \in Callers \ {c} : Busy(e) /\ call[e].oid = oid}}

Begins(c) == ~Busy(c) /\ call'[c] # Idle

\* An ordered call begins when no other such call runs on the object.
Turns ==
  \A c \in Callers : Begins(c) /\ call'[c].op \in Ordered =>
    \A d \in Callers \ {c} :
      Busy(d) /\ call[d].oid = call'[c].oid => call[d].op \notin Ordered

\* What the step of c leaves promised: its copy, but for the metadata some
\* other call is setting too.
Left(c) ==
  {[oid |-> call[c].oid, name |-> n, value |-> StoredValue(n, call[c].attrs[n])] :
     n \in Sets(call[c]) \ SetByOthers(c, call[c].oid)}

\* A call that begins to set a metadata, and a write by another program, end
\* the promise of it.
EndedByCall(p) ==
  \E c \in Callers : Begins(c) /\ call'[c].oid = p.oid /\ p.name \in Sets(call'[c])

EndedByOthers(p) ==
  /\ call' = call
  /\ bucket'[p.oid] # bucket[p.oid]

Track ==
  promised' = {p \in promised : ~EndedByCall(p) /\ ~EndedByOthers(p)} \cup
    UNION {Left(c) : c \in {d \in Callers :
                              Busy(d) /\ call[d].step = "copy" /\ call'[d] = Idle /\ alive'}}

\* The versions of its object that are there while a call runs which hands
\* attributes back; of a create or mkdir, from its own PUT on.
Reports(k) == k # Idle /\ k.op # "setattrs" /\ k.step # "put" /\ k.oid \in Observed

Observe ==
  seen' = [c \in Callers |->
             IF ~Reports(call'[c]) THEN {}
             ELSE seen[c] \cup {bucket'[o] : o \in DOMAIN bucket' \cap {call'[c].oid}}]

UpdateInit == Init /\ promised = {} /\ seen = [c \in Callers |-> {}]
UpdateNext == Next /\ Turns /\ Track /\ Observe
UpdateSpec == UpdateInit /\ [][UpdateNext]_updateVars

-----------------------------------------------------------------------------
\* What a setattrs that returned wrote stays in the object until another
\* operation starts to set the same metadata of it, or another program
\* writes the object: no read, copy and write of the whole array by a call
\* that was to change something else undoes it (cloud_setattrs).
SetattrsKept ==
  \A p \in promised :
    /\ p.oid \in DOMAIN bucket
    /\ p.name \in DOMAIN bucket[p.oid]
    /\ bucket[p.oid][p.name] = p.value

\* The attributes a lookup, create, mkdir or getattrs hands back are those of
\* one version of the object, and one that was in the bucket while the call
\* ran.  They are never of two versions, though the answer of create's HEAD
\* goes into the array its PUT was made from, nor of a version that was gone
\* before the call began, though answers are lost (cloud_create,
\* _responsePropertiesCallback, _fill_attrlist).
ReadsCurrent ==
  [][\A c \in Callers :
       Busy(c) /\ call[c].step = "fill" /\ call'[c] = Idle /\ alive' /\ call[c].oid \in Observed =>
         \E meta \in seen[c] : handles'[call[c].oid] = fill_attrlist(meta, Nothing)]_updateVars

-----------------------------------------------------------------------------
(***************************************************************************)
(* The store that the operations implement.  It holds the objects that     *)
(* only they write: not the root, which create_export may put again at any *)
(* time, and none that other programs write.  A setattrs changes the       *)
(* object at its COPY and until then is running; a create or mkdir does so *)
(* at its PUT, and only reads after that.                                  *)
(***************************************************************************)
Own(oid) == oid \notin ForeignKeys \cup {ROOTOID}

OwnObjects == [oid \in {o \in DOMAIN bucket : Own(o)} |-> bucket[oid]]

\* The change a call is still to make.
ChangeOf(k) ==
  IF k # Idle /\ Own(k.oid) /\ (k.op = "setattrs" \/ k.step = "put")
  THEN [kind |-> IF k.op = "setattrs" THEN "update" ELSE "create",
        oid |-> k.oid, attrs |-> k.attrs]
  ELSE [kind |-> "none"]

Store == INSTANCE AttributeStore WITH
  Changes <- [kind : {"create", "update"}, oid : Oid,
              attrs : CreateAttrs \cup MakedirAttrs \cup SetAttrs],
  objects <- OwnObjects,
  running <- [c \in Callers |-> ChangeOf(call[c])]

\* Though a setattrs is a HEAD and a later COPY of the whole array, and a
\* create a PUT and a later HEAD, with failing requests and the end of the
\* process between any two, each change of an object is one atomic step of
\* the call that was asked for it, and is made at most once (cloud_create,
\* cloud_makedir, cloud_setattrs).
AtomicChanges == Store!Spec
=============================================================================
