-------------------------- MODULE FsalUpdates_proofs --------------------------
(***************************************************************************)
(* Where the server orders the setattrs of one object, what one of them    *)
(* wrote stays.  Where it orders all calls that change one object, every   *)
(* change is one atomic step of AttributeStore.                            *)
(***************************************************************************)
EXTENDS FsalUpdates, FsalHandle_proofs

-----------------------------------------------------------------------------
(***************************************************************************)
(* What a step of one caller is, in the terms of the invariants below.     *)
(***************************************************************************)
Same(f, g) == DOMAIN f = DOMAIN g /\ \A n \in DOMAIN f : f[n] = g[n]

NewCall(c, k) ==
  /\ ~Busy(c) /\ k # Idle
  /\ call' = [call EXCEPT ![c] = k]
  /\ UNCHANGED <<bucket, alive>>
  /\ k.oid \in Oid
  /\ k.step # "copy"
  /\ k.step = "put" <=> k.op \in {"create", "makedir"}
  /\ k.step = "put" => /\ k.attrs \in CreateAttrs \cup MakedirAttrs
                       /\ k.dp.meta = new_metadata(k.oid, k.attrs)
  /\ k.op = "setattrs" => k.attrs \in SetAttrs

EndOfCall(c) ==
  /\ call' = [call EXCEPT ![c] = Idle]
  /\ alive' = alive
  /\ \/ call[c].step = "fill" /\ UNCHANGED bucket
     \/ /\ call[c].step = "copy"
        /\ ~refill_dies(call[c].attrs, call[c].dp)
        /\ Copies(call[c].oid, refill_metadata(call[c].attrs, call[c].dp.meta))

MovedTo(k, step, dp) ==
  [op |-> k.op, step |-> step, oid |-> k.oid, via |-> k.via, attrs |-> k.attrs, dp |-> dp]

NextStep(c, step, dp) ==
  /\ call' = [call EXCEPT ![c] = MovedTo(call[c], step, dp)]
  /\ alive' = alive
  /\ step \in {"head", "copy", "fill"}
  /\ call[c].step = "put" => step = "head"
  /\ \/ UNCHANGED bucket
     \/ call[c].step = "put" /\ bucket' = Stored(call[c].oid, call[c].dp.meta)
  /\ step = "copy" =>
       /\ call[c].op = "setattrs" /\ call[c].step = "head"
       /\ UNCHANGED bucket
       /\ \/ dp = call[c].dp
          \/ /\ call[c].oid \in DOMAIN bucket
             /\ dp = received(call[c].dp, bucket[call[c].oid])

LEMMA StartsAre ==
  ASSUME TypeOK, NEW c \in Callers, Starts(c)
  PROVE  Dies \/ \E k : NewCall(c, k)
<1>1. ASSUME NEW op, NEW step, NEW oid \in Oid, NEW via, NEW attrs, NEW dp,
             op # "none", step # "copy",
             step = "put" <=> op \in {"create", "makedir"},
             step = "put" => /\ attrs \in CreateAttrs \cup MakedirAttrs
                             /\ dp.meta = new_metadata(oid, attrs),
             op = "setattrs" => attrs \in SetAttrs,
             Begin(c, op, step, oid, via, attrs, dp)
      PROVE  \E k : NewCall(c, k)
  <2>. DEFINE k == [op |-> op, step |-> step, oid |-> oid, via |-> via, attrs |-> attrs, dp |-> dp]
  <2>1. k # Idle
    BY <1>1 DEF Idle
  <2>2. call' = [call EXCEPT ![c] = k] /\ UNCHANGED <<bucket, alive>> /\ ~Busy(c)
    BY <1>1 DEF Begin
  <2>3. NewCall(c, k)
    BY <1>1, <2>1, <2>2 DEF NewCall
  <2>. QED
    BY <2>3
<1>2. \A o \in DOMAIN handles : o \in Oid
  BY DEF TypeOK
<1>3. \A oid, attrs : DefaultPointer(new_metadata(oid, attrs)).meta = new_metadata(oid, attrs)
  BY DEF DefaultPointer
<1>4. CASE LookupPath(c)
  BY <1>1, <1>4, RootIsOid DEF LookupPath
<1>5. ASSUME NEW parent \in DOMAIN handles, NEW name \in Names, Lookup(c, parent, name)
      PROVE  \E k : NewCall(c, k)
  <2>1. file_key(parent, name) \in Oid
    BY <1>2, KeysAreOids
  <2>. QED
    BY <1>1, <1>5, <2>1 DEF Lookup
<1>6. ASSUME NEW parent \in DOMAIN handles, NEW name \in Names, NEW attrs \in CreateAttrs,
             Create(c, parent, name, attrs)
      PROVE  \E k : NewCall(c, k)
  <2>1. file_key(parent, name) \in Oid
    BY <1>2, KeysAreOids
  <2>. QED
    BY <1>1, <1>3, <1>6, <2>1 DEF Create
<1>7. ASSUME NEW parent \in DOMAIN handles, NEW name \in Names, NEW attrs \in MakedirAttrs,
             Makedir(c, parent, name, attrs)
      PROVE  \E k : NewCall(c, k)
  <2>1. dir_key(parent, name) \in Oid
    BY <1>2, KeysAreOids
  <2>. QED
    BY <1>1, <1>3, <1>7, <2>1 DEF Makedir
<1>8. ASSUME NEW parent, NEW attrs, UnsupportedType(c, parent, attrs)
      PROVE  Dies
  BY <1>8 DEF UnsupportedType
<1>9. ASSUME NEW oid \in DOMAIN handles, Getattrs(c, oid)
      PROVE  \E k : NewCall(c, k)
  BY <1>1, <1>2, <1>9 DEF Getattrs
<1>10. ASSUME NEW oid \in DOMAIN handles, NEW attrs \in SetAttrs, Setattrs(c, oid, attrs)
       PROVE  \E k : NewCall(c, k)
  BY <1>1, <1>2, <1>10 DEF Setattrs
<1>. QED
  BY <1>4, <1>5, <1>6, <1>7, <1>8, <1>9, <1>10 DEF Starts

LEMMA ContinuesAre ==
  ASSUME TypeOK, NEW c \in Callers, Continues(c)
  PROVE  /\ Busy(c)
         /\ Dies \/ EndOfCall(c) \/ \E step, dp : NextStep(c, step, dp)
<1>1. Busy(c)
  BY DEF Continues, PutObject, GetObject, HeadObject, CopyObject, Return, At
<1>2. CallOK(call[c])
  BY <1>1 DEF TypeOK
<1>3. ASSUME NEW step, NEW dp, Moves(c, step, dp)
      PROVE  call' = [call EXCEPT ![c] = MovedTo(call[c], step, dp)] /\ alive' = alive
  BY <1>1, <1>3, MovedCall DEF MovedTo, Moves
<1>4. CASE PutObject(c)
  <2>1. call[c].step = "put"
    BY <1>4 DEF PutObject, At
  <2>2. ASSUME NEW dp, Moves(c, "head", dp),
               UNCHANGED bucket \/ bucket' = Stored(call[c].oid, call[c].dp.meta)
        PROVE  NextStep(c, "head", dp)
    BY <1>3, <2>1, <2>2 DEF NextStep
  <2>. QED
    BY <1>1, <1>4, <2>2 DEF PutObject, NoDetails
<1>5. CASE GetObject(c)
  <2>1. call[c].step = "get"
    BY <1>5 DEF GetObject, At
  <2>2. ASSUME NEW dp, Moves(c, "fill", dp), UNCHANGED bucket
        PROVE  NextStep(c, "fill", dp)
    BY <1>3, <2>1, <2>2 DEF NextStep
  <2>. QED
    BY <1>1, <1>5, <2>2 DEF GetObject, Answers, NoDetails
<1>6. CASE HeadObject(c)
  <2>. DEFINE next == IF call[c].op = "setattrs" THEN "copy" ELSE "fill"
  <2>1. call[c].step = "head" /\ next \in {"copy", "fill"} /\ (next = "copy" => call[c].op = "setattrs")
    BY <1>6 DEF HeadObject, At
  <2>2. ASSUME NEW dp, Moves(c, next, dp), UNCHANGED bucket,
               \/ dp = call[c].dp
               \/ call[c].oid \in DOMAIN bucket /\ dp = received(call[c].dp, bucket[call[c].oid])
        PROVE  NextStep(c, next, dp)
    BY <1>3, <2>1, <2>2 DEF NextStep
  <2>. HIDE DEF next
  <2>3. Dies \/ Answers(c, next)
    BY <1>6 DEF HeadObject, NoDetails, next
  <2>. QED
    BY <1>1, <2>2, <2>3 DEF Answers
<1>7. CASE CopyObject(c)
  BY <1>1, <1>7 DEF CopyObject, EndOfCall, At
<1>8. CASE Return(c)
  BY <1>1, <1>8 DEF Return, EndOfCall, At
<1>. QED
  BY <1>1, <1>4, <1>5, <1>6, <1>7, <1>8 DEF Continues

LEMMA OthersAre ==
  ASSUME \/ CreateExport
         \/ \E oid \in ForeignKeys, meta \in ForeignMeta : ForeignPut(oid, meta)
         \/ Restart
         \/ UNCHANGED vars
  PROVE  /\ UNCHANGED call
         /\ \A o \in DOMAIN bucket : o \in DOMAIN bucket' /\ (Own(o) => bucket'[o] = bucket[o])
         /\ \A o \in DOMAIN bucket' : Own(o) => o \in DOMAIN bucket
BY DEF CreateExport, ForeignPut, Restart, vars, Stored, Own

-----------------------------------------------------------------------------
(***************************************************************************)
(* Atomic changes.  What makes a change atomic is that the metadata a      *)
(* setattrs has read are still those of the object when it writes; nobody  *)
(* else writes the object meanwhile, as the calls that do are ordered.     *)
(***************************************************************************)
Exclusive ==
  \A c, d \in Callers :
    c # d /\ Busy(c) /\ Busy(d) /\ call[c].oid = call[d].oid /\ call[c].op \in Ordered
      => call[d].op \notin Ordered

\* Between its requests a call knows what it is going to write.
CallCurrent(k, objs) ==
  /\ k.step = "put" =>
       /\ k.op \in {"create", "makedir"}
       /\ k.attrs \in CreateAttrs \cup MakedirAttrs
       /\ k.dp.meta = new_metadata(k.oid, k.attrs)
  /\ k.step = "copy" /\ Own(k.oid) =>
       \/ k.dp = AllocatedPointer
       \/ k.oid \in DOMAIN objs /\ Same(k.dp.meta, objs[k.oid])

AtomicInv ==
  /\ Exclusive
  /\ \A c \in Callers : Busy(c) => CallCurrent(call[c], bucket)

LEMMA ReceivedSame ==
  ASSUME NEW headers
  PROVE  Same(received(AllocatedPointer, headers).meta, headers)
BY DEF Same, received, AllocatedPointer, Nothing

\* A step that leaves c idle, or keeps its operation and object.
LEMMA StaysExclusive ==
  ASSUME TypeOK, Exclusive, NEW c \in Callers, NEW k, call' = [call EXCEPT ![c] = k],
         k = Idle \/ (Busy(c) /\ k.op = call[c].op /\ k.oid = call[c].oid)
  PROVE  Exclusive'
BY DEF Exclusive, TypeOK, Busy

LEMMA TurnsExclusive ==
  ASSUME TypeOK, Exclusive, Turns, NEW c \in Callers, NEW k, NewCall(c, k)
  PROVE  Exclusive'
<1>1. call' = [call EXCEPT ![c] = k] /\ Begins(c) /\ call'[c] = k
  BY DEF NewCall, Begins, TypeOK
<1>2. k.op \in Ordered => \A d \in Callers \ {c} : Busy(d) /\ call[d].oid = k.oid => call[d].op \notin Ordered
  BY <1>1 DEF Turns
<1>. QED
  BY <1>1, <1>2 DEF Exclusive, TypeOK, Busy

\* Only calls that write an object change it, if it is one only they write.
LEMMA OthersKeepWhatWasRead ==
  ASSUME TypeOK, AtomicInv, Writing \subseteq Ordered,
         NEW c \in Callers, NEW d \in Callers, c # d, Busy(c), Busy(d),
         call[c].step \in {"put", "copy"}, NEW meta, bucket' = Stored(call[c].oid, meta),
         CallCurrent(call[d], bucket)
  PROVE  CallCurrent(call[d], bucket')
<1>1. CallOK(call[c]) /\ CallOK(call[d])
  BY DEF TypeOK
<1>2. call[c].op \in Writing
  BY <1>1 DEF CallOK, StepOf, Operation, Writing
<1>3. call[d].step = "copy" => call[d].op \in Writing
  BY <1>1 DEF CallOK, StepOf, Operation, Writing
<1>4. call[d].step = "copy" => call[d].oid # call[c].oid
  BY <1>2, <1>3 DEF AtomicInv, Exclusive
<1>5. ASSUME call[d].step = "copy", call[d].oid \in DOMAIN bucket
      PROVE  call[d].oid \in DOMAIN bucket' /\ bucket'[call[d].oid] = bucket[call[d].oid]
  BY <1>4, <1>5 DEF Stored
<1>. QED
  BY <1>5 DEF CallCurrent

LEMMA CallStepAtomic ==
  ASSUME TypeOK, AtomicInv, NEW c \in Callers, NEW k, call' = [call EXCEPT ![c] = k], Exclusive',
         k # Idle => CallCurrent(k, bucket'),
         \A d \in Callers \ {c} : Busy(d) => CallCurrent(call[d], bucket')
  PROVE  AtomicInv'
BY DEF AtomicInv, TypeOK, Busy

LEMMA StepExclusive ==
  ASSUME TypeOK, Exclusive, Turns, [Next]_vars
  PROVE  Exclusive'
<1>1. CASE Dies
  BY <1>1 DEF Dies, Exclusive, Busy
<1>2. ASSUME NEW c \in Callers, Busy(c), EndOfCall(c) \/ \E step, dp : NextStep(c, step, dp)
      PROVE  Exclusive'
  <2>1. \E k : /\ call' = [call EXCEPT ![c] = k]
               /\ k = Idle \/ (k.op = call[c].op /\ k.oid = call[c].oid)
    BY <1>2 DEF EndOfCall, NextStep, MovedTo
  <2>. QED
    BY <1>2, <2>1, StaysExclusive
<1>3. CASE \/ CreateExport
           \/ \E oid \in ForeignKeys, meta \in ForeignMeta : ForeignPut(oid, meta)
           \/ Restart
           \/ UNCHANGED vars
  BY <1>3, OthersAre DEF Exclusive, Busy
<1>. QED
  BY <1>1, <1>2, <1>3, StartsAre, ContinuesAre, TurnsExclusive DEF Next

LEMMA StepAtomic ==
  ASSUME TypeOK, CompleteInv, AtomicInv, Turns, [Next]_vars, Writing \subseteq Ordered
  PROVE  AtomicInv'
<1>0. Exclusive'
  BY StepExclusive DEF AtomicInv
<1>1. CASE Dies
  BY <1>0, <1>1 DEF Dies, AtomicInv, Busy
<1>2. ASSUME NEW c \in Callers, NEW k, NewCall(c, k)
      PROVE  AtomicInv'
  <2>1. CallCurrent(k, bucket') /\ UNCHANGED bucket /\ call' = [call EXCEPT ![c] = k]
    BY <1>2 DEF NewCall, CallCurrent
  <2>2. \A d \in Callers : Busy(d) => CallCurrent(call[d], bucket')
    BY <2>1 DEF AtomicInv
  <2>. QED
    BY <1>0, <2>1, <2>2, CallStepAtomic
<1>3. ASSUME NEW c \in Callers, Busy(c), UNCHANGED bucket \/ \E meta :
               call[c].step \in {"put", "copy"} /\ bucket' = Stored(call[c].oid, meta)
      PROVE  \A d \in Callers \ {c} : Busy(d) => CallCurrent(call[d], bucket')
  BY <1>3, OthersKeepWhatWasRead DEF AtomicInv
<1>4. ASSUME NEW c \in Callers, Busy(c), EndOfCall(c)
      PROVE  AtomicInv'
  <2>1. call' = [call EXCEPT ![c] = Idle]
    BY <1>4 DEF EndOfCall
  <2>2. \A d \in Callers \ {c} : Busy(d) => CallCurrent(call[d], bucket')
    BY <1>3, <1>4 DEF EndOfCall, Copies
  <2>. QED
    BY <1>0, <2>1, <2>2, CallStepAtomic
<1>5. ASSUME NEW c \in Callers, Busy(c), NEW step, NEW dp, NextStep(c, step, dp)
      PROVE  AtomicInv'
  <2>. DEFINE k == MovedTo(call[c], step, dp)
  <2>1. call' = [call EXCEPT ![c] = k] /\ k.op = call[c].op /\ k.oid = call[c].oid
        /\ k.step = step /\ k.dp = dp
    BY <1>5 DEF NextStep, MovedTo
  <2>2. \A d \in Callers \ {c} : Busy(d) => CallCurrent(call[d], bucket')
    BY <1>3, <1>5 DEF NextStep
  <2>3. step = "copy" => call[c].dp = AllocatedPointer
    BY <1>5 DEF NextStep, CompleteInv, CallComplete
  <2>4. step = "copy" =>
          \/ dp = AllocatedPointer
          \/ call[c].oid \in DOMAIN bucket' /\ Same(dp.meta, bucket'[call[c].oid])
    <3>1. Same(received(AllocatedPointer, bucket[call[c].oid]).meta, bucket[call[c].oid])
      BY ReceivedSame
    <3>. QED
      BY <1>5, <2>3, <3>1 DEF NextStep
  <2>5. CallCurrent(k, bucket')
    BY <1>5, <2>1, <2>4 DEF NextStep, CallCurrent
  <2>. HIDE DEF k
  <2>. QED
    BY <1>0, <2>1, <2>2, <2>5, CallStepAtomic
<1>6. CASE \/ CreateExport
           \/ \E oid \in ForeignKeys, meta \in ForeignMeta : ForeignPut(oid, meta)
           \/ Restart
           \/ UNCHANGED vars
  <2>1. UNCHANGED call /\ \A o \in DOMAIN bucket : o \in DOMAIN bucket' /\ (Own(o) => bucket'[o] = bucket[o])
    BY <1>6, OthersAre
  <2>2. \A d \in Callers : Busy(d) => CallCurrent(call[d], bucket')
    BY <2>1 DEF AtomicInv, CallCurrent
  <2>. QED
    BY <1>0, <2>1, <2>2 DEF AtomicInv, Busy
<1>. QED
  BY <1>1, <1>2, <1>4, <1>5, <1>6, StartsAre, ContinuesAre DEF Next

-----------------------------------------------------------------------------
(***************************************************************************)
(* The refinement.                                                         *)
(***************************************************************************)
Running == [c \in Callers |-> ChangeOf(call[c])]

\* The store's copies of the operators on metadata are those of this module.
LEMMA StoreOperators ==
  /\ Store!Nothing = Nothing
  /\ Store!NoChange = [kind |-> "none"]
  /\ \A attrs, meta : Store!refill_metadata(attrs, meta) = refill_metadata(attrs, meta)
  /\ \A oid : Store!default_metadata(Store!DIRECTORY_T, oid) = default_metadata(DIRECTORY_T, oid)
<1>1. Store!Nothing = Nothing /\ Store!NoChange = [kind |-> "none"]
  BY DEF Store!Nothing, Nothing, Store!NoChange
<1>2. \A name, value : Store!StoredValue(name, value) = StoredValue(name, value)
  BY DEF Store!StoredValue, StoredValue, Store!FILETYPE, FILETYPE, Store!DIRECTORY_T, DIRECTORY_T,
         Store!REGULARFILE_T, REGULARFILE_T
<1>3. \A attrs : Store!Refilled(attrs) = Refilled(attrs)
  BY DEF Store!Refilled, Refilled, Store!FSID, FSID, Store!NUMLINKS, NUMLINKS
<1>4. \A attrs, meta : Store!refill_metadata(attrs, meta) = refill_metadata(attrs, meta)
  BY <1>2, <1>3 DEF Store!refill_metadata, refill_metadata
<1>5. \A oid : Store!default_metadata(Store!DIRECTORY_T, oid) = default_metadata(DIRECTORY_T, oid)
  BY DEF Store!default_metadata, default_metadata, Store!MetadataName, MetadataName,
         Store!METADATACOUNT, METADATACOUNT, Store!FILETYPE, FILETYPE, Store!FILEID, FILEID,
         Store!MODE, MODE, Store!NUMLINKS, NUMLINKS, Store!OWNER, OWNER, Store!GROUP, GROUP,
         Store!DIRECTORY_T, DIRECTORY_T
<1>. QED
  BY <1>1, <1>4, <1>5

\* What becomes of the store's two variables.
LEMMA RunningAfter ==
  ASSUME TypeOK, NEW c \in Callers, NEW k, call' = [call EXCEPT ![c] = k]
  PROVE  Running' = [Running EXCEPT ![c] = ChangeOf(k)]
<1>1. DOMAIN call = Callers
  BY DEF TypeOK
<1>2. \A d \in Callers : call'[d] = IF d = c THEN k ELSE call[d]
  BY <1>1
<1>3. Running' = [d \in Callers |-> ChangeOf(call'[d])]
  BY DEF Running, ChangeOf
<1>4. Running' = [d \in Callers |-> IF d = c THEN ChangeOf(k) ELSE ChangeOf(call[d])]
  BY <1>2, <1>3
<1>. QED
  BY <1>4 DEF Running

LEMMA ObjectsAfter ==
  ASSUME NEW oid, NEW meta, bucket' = Stored(oid, meta)
  PROVE  /\ ~Own(oid) => OwnObjects' = OwnObjects
         /\ Own(oid) => OwnObjects' = [o \in DOMAIN OwnObjects \cup {oid} |->
                                         IF o = oid THEN meta ELSE OwnObjects[o]]
<1>1. DOMAIN bucket' = DOMAIN bucket \cup {oid} /\ \A o \in DOMAIN bucket' : bucket'[o] = IF o = oid THEN meta ELSE bucket[o]
  BY DEF Stored
<1>2. OwnObjects' = [o \in {p \in DOMAIN bucket' : Own(p)} |-> bucket'[o]]
  BY DEF OwnObjects, Own
<1>. QED
  BY <1>1, <1>2 DEF OwnObjects

StoreVars == <<OwnObjects, Running>>

LEMMA StoreStays ==
  ASSUME UNCHANGED StoreVars
  PROVE  [Store!Next]_(Store!storeVars)
BY DEF StoreVars, Running, Store!storeVars

LEMMA StoreFails ==
  ASSUME TypeOK, NEW c \in Callers, NEW k, call' = [call EXCEPT ![c] = k],
         ChangeOf(k) = [kind |-> "none"], OwnObjects' = OwnObjects
  PROVE  [Store!Next]_(Store!storeVars)
<1>1. Running' = [Running EXCEPT ![c] = Store!NoChange]
  BY RunningAfter, StoreOperators
<1>2. Store!Fail(c)
  BY <1>1 DEF Store!Fail, Store!Ends, Running
<1>. QED
  BY <1>2 DEF Store!Next

LEMMA StoreCrashes ==
  ASSUME Dies
  PROVE  [Store!Next]_(Store!storeVars)
<1>1. call' = [c \in Callers |-> Idle] /\ UNCHANGED bucket
  BY DEF Dies
<1>2. ChangeOf(Idle) = [kind |-> "none"]
  BY DEF ChangeOf
<1>3. OwnObjects' = OwnObjects
  BY <1>1 DEF OwnObjects, Own
<1>4. Running' = [c \in Callers |-> ChangeOf(call'[c])]
  BY DEF Running, ChangeOf
<1>5. Running' = [c \in Callers |-> Store!NoChange]
  BY <1>1, <1>2, <1>4, StoreOperators
<1>6. Store!Crash
  BY <1>3, <1>5 DEF Store!Crash, Running
<1>. QED
  BY <1>6 DEF Store!Next

\* A call begins.
LEMMA StoreAsks ==
  ASSUME TypeOK, NEW c \in Callers, NEW k, NewCall(c, k)
  PROVE  [Store!Next]_(Store!storeVars)
<1>1. call' = [call EXCEPT ![c] = k] /\ OwnObjects' = OwnObjects
  BY DEF NewCall, OwnObjects, Own
<1>2. CASE ChangeOf(k) = [kind |-> "none"]
  BY <1>1, <1>2, StoreFails
<1>3. CASE ChangeOf(k) # [kind |-> "none"]
  <2>1. /\ k.op = "setattrs" \/ k.step = "put"
        /\ ChangeOf(k) = [kind |-> IF k.op = "setattrs" THEN "update" ELSE "create",
                          oid |-> k.oid, attrs |-> k.attrs]
    BY <1>3 DEF ChangeOf
  <2>2. k.oid \in Oid /\ k.attrs \in CreateAttrs \cup MakedirAttrs \cup SetAttrs
    BY <2>1 DEF NewCall
  <2>3. ChangeOf(k) \in [kind : {"create", "update"}, oid : Oid,
                         attrs : CreateAttrs \cup MakedirAttrs \cup SetAttrs]
    BY <2>1, <2>2
  <2>4. Running' = [Running EXCEPT ![c] = ChangeOf(k)]
    BY <1>1, RunningAfter
  <2>5. Running[c] = Store!NoChange
    BY StoreOperators DEF NewCall, Busy, Running, ChangeOf
  <2>6. Running'[c] = ChangeOf(k)
    BY <2>4 DEF Running
  <2>7. Running' = [c_1 \in Callers |-> ChangeOf(call'[c_1])]
    BY DEF Running, ChangeOf
  <2>8. Store!Ask(c)
    BY <1>1, <2>3, <2>4, <2>5, <2>6, <2>7 DEF Store!Ask, Running
  <2>. QED
    BY <2>8 DEF Store!Next
<1>. QED
  BY <1>2, <1>3

\* A request of a running call that is answered, or fails.
LEMMA StoreGoesOn ==
  ASSUME TypeOK, AtomicInv, NEW c \in Callers, Busy(c), NEW step, NEW dp, NextStep(c, step, dp)
  PROVE  [Store!Next]_(Store!storeVars)
<1>. DEFINE k == MovedTo(call[c], step, dp)
<1>1. call' = [call EXCEPT ![c] = k] /\ k.op = call[c].op /\ k.oid = call[c].oid
      /\ k.step = step /\ k.attrs = call[c].attrs /\ k # Idle
  BY DEF NextStep, MovedTo, Idle
<1>2. CallOK(call[c]) /\ CallCurrent(call[c], bucket) /\ call[c] # Idle
  BY DEF TypeOK, AtomicInv, Busy
<1>3. step \in {"head", "copy", "fill"}
  BY DEF NextStep
<1>. HIDE DEF k
<1>4. CASE call[c].step # "put"
  <2>1. UNCHANGED bucket
    BY <1>4 DEF NextStep
  <2>2. OwnObjects' = OwnObjects
    BY <2>1 DEF OwnObjects, Own
  <2>3. ChangeOf(k) = ChangeOf(call[c])
    BY <1>1, <1>2, <1>3, <1>4 DEF ChangeOf
  <2>4. Running' = [Running EXCEPT ![c] = ChangeOf(call[c])]
    <3>1. Running' = [Running EXCEPT ![c] = ChangeOf(k)]
      BY <1>1, RunningAfter, Zenon
    <3>. QED
      BY <2>3, <3>1, Zenon
  <2>5. Running' = Running
    BY <2>4 DEF Running
  <2>. QED
    BY <2>2, <2>5, StoreStays DEF StoreVars
<1>5. CASE call[c].step = "put"
  <2>1. /\ call[c].op \in {"create", "makedir"}
        /\ call[c].dp.meta = new_metadata(call[c].oid, call[c].attrs)
    BY <1>2, <1>5 DEF CallCurrent
  <2>2. ChangeOf(k) = [kind |-> "none"]
    BY <1>1, <1>3, <2>1 DEF ChangeOf
  <2>3. CASE OwnObjects' = OwnObjects
    BY <1>1, <2>2, <2>3, StoreFails
  <2>4. CASE Own(call[c].oid) /\ bucket' = Stored(call[c].oid, call[c].dp.meta)
    <3>1. Running[c] = [kind |-> "create", oid |-> call[c].oid, attrs |-> call[c].attrs]
      BY <1>2, <1>5, <2>1, <2>4 DEF Running, ChangeOf
    <3>2. OwnObjects' = [o \in DOMAIN OwnObjects \cup {call[c].oid} |->
                           IF o = call[c].oid THEN call[c].dp.meta ELSE OwnObjects[o]]
      BY <2>4, ObjectsAfter
    <3>3. call[c].dp.meta = Store!refill_metadata(call[c].attrs,
                              Store!default_metadata(Store!DIRECTORY_T, call[c].oid))
      BY <2>1, StoreOperators DEF new_metadata
    <3>4. Running' = [Running EXCEPT ![c] = Store!NoChange]
      <4>1. Running' = [Running EXCEPT ![c] = ChangeOf(k)]
        BY <1>1, RunningAfter, Zenon
      <4>. QED
        BY <2>2, <4>1, StoreOperators, Zenon
    <3>5. OwnObjects' = [o \in DOMAIN OwnObjects \cup {Running[c].oid} |->
             IF o = Running[c].oid
             THEN Store!refill_metadata(Running[c].attrs,
                    Store!default_metadata(Store!DIRECTORY_T, o))
             ELSE OwnObjects[o]]
      BY <3>1, <3>2, <3>3
    <3>6. Running[c].kind = "create"
      BY <3>1
    <3>7. Store!CreateObject(c)
      BY <3>4, <3>5, <3>6 DEF Store!CreateObject, Store!Ends, Running
    <3>. QED
      BY <3>7 DEF Store!Next
  <2>5. CASE UNCHANGED bucket
    <3>1. OwnObjects' = OwnObjects
      BY <2>5 DEF OwnObjects, Own
    <3>. QED
      BY <2>3, <3>1
  <2>6. CASE ~Own(call[c].oid) /\ bucket' = Stored(call[c].oid, call[c].dp.meta)
    BY <2>3, <2>6, ObjectsAfter
  <2>. QED
    BY <2>4, <2>5, <2>6 DEF NextStep
<1>. QED
  BY <1>4, <1>5

\* The copy of a setattrs replaces what it was asked to replace in what the
\* object holds at that moment.
LEMMA StoreUpdates ==
  ASSUME TypeOK, CompleteInv, AtomicInv, NEW c \in Callers, Busy(c), EndOfCall(c),
         \A attrs \in SetAttrs : Refilled(attrs) # {}
  PROVE  [Store!Next]_(Store!storeVars)
<1>. DEFINE k == call[c]
<1>1. call' = [call EXCEPT ![c] = Idle] /\ ChangeOf(Idle) = [kind |-> "none"]
  BY DEF EndOfCall, ChangeOf
<1>2. CallOK(k) /\ CallCurrent(k, bucket) /\ CallComplete(k) /\ k # Idle
  BY DEF TypeOK, AtomicInv, CompleteInv, Busy
<1>3. CASE OwnObjects' = OwnObjects
  BY <1>1, <1>3, StoreFails
<1>4. CASE UNCHANGED bucket
  <2>1. OwnObjects' = OwnObjects
    BY <1>4 DEF OwnObjects, Own
  <2>. QED
    BY <1>3, <2>1
<1>5. ASSUME k.step = "copy", ~refill_dies(k.attrs, k.dp), Own(k.oid), k.oid \in DOMAIN bucket,
             bucket' = Stored(k.oid, refill_metadata(k.attrs, k.dp.meta))
      PROVE  [Store!Next]_(Store!storeVars)
  <2>1. k.op = "setattrs"
    BY <1>2, <1>5 DEF CallOK, StepOf, Operation
  <2>2. k.dp # AllocatedPointer
    <3>1. Refilled(k.attrs) # {}
      BY <1>2, <2>1 DEF CallComplete
    <3>. QED
      BY <1>5, <3>1 DEF refill_dies, AllocatedPointer, Nothing, METADATACOUNT
  <2>3. Same(k.dp.meta, bucket[k.oid])
    BY <1>2, <1>5, <2>2 DEF CallCurrent
  <2>4. refill_metadata(k.attrs, k.dp.meta) = refill_metadata(k.attrs, bucket[k.oid])
    BY <2>3 DEF refill_metadata, Same
  <2>5. k.oid \in DOMAIN OwnObjects /\ OwnObjects[k.oid] = bucket[k.oid]
    BY <1>5 DEF OwnObjects
  <2>6. Running[c] = [kind |-> "update", oid |-> k.oid, attrs |-> k.attrs]
    BY <1>2, <1>5, <2>1 DEF Running, ChangeOf
  <2>7. OwnObjects' = [o \in DOMAIN OwnObjects \cup {k.oid} |->
          IF o = k.oid THEN refill_metadata(k.attrs, k.dp.meta) ELSE OwnObjects[o]]
    BY <1>5, ObjectsAfter
  <2>8. OwnObjects' = [OwnObjects EXCEPT ![k.oid] = Store!refill_metadata(k.attrs, @)]
    <3>1. Store!refill_metadata(k.attrs, OwnObjects[k.oid]) = refill_metadata(k.attrs, k.dp.meta)
      BY <2>4, <2>5, StoreOperators
    <3>2. OwnObjects = [o \in DOMAIN OwnObjects |-> OwnObjects[o]]
      BY DEF OwnObjects
    <3>. QED
      BY <2>5, <2>7, <3>1, <3>2
  <2>9. Running' = [Running EXCEPT ![c] = Store!NoChange]
    BY <1>1, RunningAfter, StoreOperators
  <2>10. /\ Running[c].kind = "update"
         /\ Running[c].oid \in DOMAIN OwnObjects
         /\ OwnObjects' = [OwnObjects EXCEPT ![Running[c].oid] =
                             Store!refill_metadata(Running[c].attrs, @)]
    <3>1. Running[c].kind = "update" /\ Running[c].oid = k.oid /\ Running[c].attrs = k.attrs
      BY <2>6
    <3>. QED
      BY <2>5, <2>8, <3>1, Zenon
  <2>11. Store!UpdateObject(c)
    BY <2>9, <2>10 DEF Store!UpdateObject, Store!Ends, Running
  <2>. QED
    BY <2>11 DEF Store!Next
<1>6. ASSUME ~Own(k.oid), bucket' = Stored(k.oid, refill_metadata(k.attrs, k.dp.meta))
      PROVE  [Store!Next]_(Store!storeVars)
  BY <1>3, <1>6, ObjectsAfter
<1>. QED
  BY <1>4, <1>5, <1>6 DEF EndOfCall, Copies

LEMMA UpdatesAreSpec == UpdateSpec => Spec
<1>1. UpdateInit => Init
  BY DEF UpdateInit
<1>2. [UpdateNext]_updateVars => [Next]_vars
  BY DEF UpdateNext, updateVars, vars
<1>. QED
  BY <1>1, <1>2, PTL DEF UpdateSpec, Spec

LEMMA ExclusiveInvariant == UpdateSpec => []Exclusive
<1>1. UpdateInit => Exclusive
  BY DEF UpdateInit, Init, Exclusive, Busy
<1>2. TypeOK /\ Exclusive /\ [UpdateNext]_updateVars => Exclusive'
  <2>1. CASE UNCHANGED updateVars
    BY <2>1 DEF updateVars, Exclusive, Busy
  <2>2. CASE UpdateNext
    BY <2>2, StepExclusive DEF UpdateNext
  <2>. QED
    BY <2>1, <2>2
<1>. QED
  BY <1>1, <1>2, UpdatesAreSpec, TypeCorrect, PTL DEF UpdateSpec

LEMMA AtomicInvariant ==
  ASSUME Writing \subseteq Ordered, \A attrs \in SetAttrs : Refilled(attrs) # {}
  PROVE  UpdateSpec => []AtomicInv
<1>1. UpdateInit => AtomicInv
  BY DEF UpdateInit, Init, AtomicInv, Exclusive, Busy
<1>2. CompleteInv /\ AtomicInv /\ [UpdateNext]_updateVars => AtomicInv'
  <2>1. CASE UNCHANGED updateVars
    BY <2>1 DEF updateVars, AtomicInv, Exclusive, Busy, CallCurrent
  <2>2. CASE UpdateNext
    BY <2>2, StepAtomic DEF UpdateNext, CompleteInv
  <2>. QED
    BY <2>1, <2>2
<1>. QED
  BY <1>1, <1>2, CompleteInvariant, UpdatesAreSpec, PTL DEF UpdateSpec

\* The operations that change an object implement a store that changes it in
\* one step, where the server orders them and each setattrs changes something
\* this code stores.
THEOREM ChangesAreAtomic ==
  ASSUME Writing \subseteq Ordered, \A attrs \in SetAttrs : Refilled(attrs) # {}
  PROVE  UpdateSpec => AtomicChanges
<1>1. UpdateInit => Store!Init
  <2>. SUFFICES ASSUME UpdateInit PROVE Store!Init
    OBVIOUS
  <2>1. bucket = [n \in {} |-> 0] /\ call = [c \in Callers |-> Idle]
    BY DEF UpdateInit, Init, Nothing
  <2>2. {o \in DOMAIN bucket : Own(o)} = {}
    BY <2>1
  <2>3. OwnObjects = Store!Nothing
    BY <2>2, StoreOperators DEF OwnObjects, Nothing
  <2>4. Running = [c \in Callers |-> Store!NoChange]
    BY <2>1, StoreOperators DEF Running, ChangeOf
  <2>. QED
    BY <2>3, <2>4 DEF Store!Init, Running
<1>2. CompleteInv /\ AtomicInv /\ [UpdateNext]_updateVars => [Store!Next]_(Store!storeVars)
  <2>. SUFFICES ASSUME CompleteInv, AtomicInv, [Next]_vars
                PROVE  [Store!Next]_(Store!storeVars)
    BY DEF UpdateNext, updateVars, vars
  <2>1. TypeOK
    BY DEF CompleteInv
  <2>2. CASE \/ CreateExport
             \/ \E oid \in ForeignKeys, meta \in ForeignMeta : ForeignPut(oid, meta)
             \/ Restart
             \/ UNCHANGED vars
    <3>1. /\ UNCHANGED call
          /\ \A o \in DOMAIN bucket : o \in DOMAIN bucket' /\ (Own(o) => bucket'[o] = bucket[o])
          /\ \A o \in DOMAIN bucket' : Own(o) => o \in DOMAIN bucket
      BY <2>2, OthersAre
    <3>2. {o \in DOMAIN bucket' : Own(o)} = {o \in DOMAIN bucket : Own(o)}
      BY <3>1
    <3>3. OwnObjects' = [o \in {p \in DOMAIN bucket' : Own(p)} |-> bucket'[o]]
      BY DEF OwnObjects, Own
    <3>4. OwnObjects' = OwnObjects
      BY <3>1, <3>2, <3>3 DEF OwnObjects
    <3>5. Running' = [c \in Callers |-> ChangeOf(call'[c])]
      BY DEF Running, ChangeOf
    <3>6. Running' = Running
      BY <3>1, <3>5 DEF Running
    <3>. QED
      BY <3>4, <3>6, StoreStays DEF StoreVars
  <2>3. ASSUME NEW c \in Callers, Starts(c)
        PROVE  [Store!Next]_(Store!storeVars)
    <3>1. Dies \/ \E k : NewCall(c, k)
      BY <2>1, <2>3, StartsAre
    <3>. QED
      BY <2>1, <3>1, StoreCrashes, StoreAsks
  <2>4. ASSUME NEW c \in Callers, Continues(c)
        PROVE  [Store!Next]_(Store!storeVars)
    <3>1. Busy(c) /\ (Dies \/ EndOfCall(c) \/ \E step, dp : NextStep(c, step, dp))
      BY <2>1, <2>4, ContinuesAre
    <3>. QED
      BY <2>1, <3>1, StoreCrashes, StoreUpdates, StoreGoesOn
  <2>. QED
    BY <2>2, <2>3, <2>4 DEF Next
<1>3. UpdateSpec => []CompleteInv
  BY UpdatesAreSpec, CompleteInvariant, PTL
<1>. QED
  BY <1>1, <1>2, <1>3, AtomicInvariant, PTL DEF UpdateSpec, AtomicChanges, Store!Spec

-----------------------------------------------------------------------------
(***************************************************************************)
(* What a setattrs wrote stays.  A call that sets a metadata began after   *)
(* the promise of it ended; one that only copies it has read it since.     *)
(***************************************************************************)
CallKeeps(k, promises) ==
  \A p \in promises : p.oid = k.oid =>
    /\ p.name \notin Sets(k)
    /\ k.step = "copy" =>
         \/ k.dp = AllocatedPointer
         \/ p.name \in DOMAIN k.dp.meta /\ k.dp.meta[p.name] = p.value

KeptInv ==
  /\ SetattrsKept
  /\ \A c \in Callers : Busy(c) => CallKeeps(call[c], promised)

\* The callers whose copy the step is.
Ended == {d \in Callers : Busy(d) /\ call[d].step = "copy" /\ call'[d] = Idle /\ alive'}

LEMMA TrackIs ==
  ASSUME Track
  PROVE  promised' = {p \in promised : ~EndedByCall(p) /\ ~EndedByOthers(p)}
                       \cup UNION {Left(c) : c \in Ended}
BY DEF Track, Ended

\* Steps that end no setattrs and change only promises that have ended.
LEMMA KeptWithoutCopy ==
  ASSUME KeptInv, Track, Ended = {},
         \A p \in promised : ~EndedByOthers(p) =>
           (p.oid \in DOMAIN bucket' /\ bucket'[p.oid] = bucket[p.oid])
  PROVE  promised' \subseteq promised /\ SetattrsKept'
<1>1. promised' = {p \in promised : ~EndedByCall(p) /\ ~EndedByOthers(p)}
  BY TrackIs
<1>2. \A p \in promised' : p.oid \in DOMAIN bucket' /\ bucket'[p.oid] = bucket[p.oid]
  BY <1>1
<1>. QED
  BY <1>1, <1>2 DEF KeptInv, SetattrsKept

LEMMA CallStepKept ==
  ASSUME TypeOK, SetattrsKept', NEW c \in Callers, NEW k, call' = [call EXCEPT ![c] = k],
         k # Idle => CallKeeps(k, promised'),
         \A d \in Callers \ {c} : Busy(d) => CallKeeps(call[d], promised')
  PROVE  KeptInv'
BY DEF KeptInv, TypeOK, Busy

LEMMA FewerPromises ==
  ASSUME NEW k, NEW P, NEW Q, Q \subseteq P, CallKeeps(k, P)
  PROVE  CallKeeps(k, Q)
BY DEF CallKeeps

LEMMA NewCallKept ==
  ASSUME TypeOK, KeptInv, Track, NEW c \in Callers, NEW k, NewCall(c, k)
  PROVE  KeptInv'
<1>1. call' = [call EXCEPT ![c] = k] /\ UNCHANGED bucket /\ call'[c] = k /\ Begins(c) /\ k.step # "copy"
  BY DEF NewCall, TypeOK, Begins
<1>2. Ended = {}
  BY <1>1 DEF Ended, NewCall, TypeOK, Busy, Begins
<1>3. promised' \subseteq promised /\ SetattrsKept'
  BY <1>1, <1>2, KeptWithoutCopy DEF KeptInv, SetattrsKept
<1>4. \A p \in promised' : ~EndedByCall(p)
  BY <1>2, TrackIs
<1>5. CallKeeps(k, promised')
  BY <1>1, <1>4 DEF CallKeeps, EndedByCall
<1>6. \A d \in Callers \ {c} : Busy(d) => CallKeeps(call[d], promised')
  BY <1>3, FewerPromises DEF KeptInv
<1>. QED
  BY <1>1, <1>3, <1>5, <1>6, CallStepKept

\* A create that puts its object began after all promises of it ended.
LEMMA NoPromiseWherePut ==
  ASSUME TypeOK, KeptInv, NEW c \in Callers, Busy(c), call[c].step = "put"
  PROVE  \A p \in promised : p.oid # call[c].oid
<1>1. Sets(call[c]) = MetadataName
  BY DEF TypeOK, CallOK, StepOf, Operation, Sets
<1>2. \A p \in promised : p.name \in MetadataName
  BY DEF KeptInv, SetattrsKept, TypeOK
<1>. QED
  BY <1>1, <1>2 DEF KeptInv, CallKeeps

LEMMA NextStepKept ==
  ASSUME TypeOK, CompleteInv, KeptInv, Track, NEW c \in Callers, Busy(c),
         NEW step, NEW dp, NextStep(c, step, dp)
  PROVE  KeptInv'
<1>. DEFINE k == MovedTo(call[c], step, dp)
<1>1. /\ call' = [call EXCEPT ![c] = k] /\ k.op = call[c].op /\ k.oid = call[c].oid
      /\ k.attrs = call[c].attrs /\ k.step = step /\ k.dp = dp /\ k # Idle
  BY DEF NextStep, MovedTo, Idle
<1>2. Sets(k) = Sets(call[c])
  BY <1>1 DEF Sets
<1>. HIDE DEF k
<1>3. Ended = {}
  BY <1>1 DEF Ended, TypeOK, Busy
<1>4. \A p \in promised : p.oid \in DOMAIN bucket' /\ bucket'[p.oid] = bucket[p.oid]
  <2>1. \A p \in promised : p.oid \in DOMAIN bucket
    BY DEF KeptInv, SetattrsKept
  <2>2. CASE UNCHANGED bucket
    BY <2>1, <2>2
  <2>3. CASE call[c].step = "put" /\ bucket' = Stored(call[c].oid, call[c].dp.meta)
    BY <2>1, <2>3, NoPromiseWherePut DEF Stored
  <2>. QED
    BY <2>2, <2>3 DEF NextStep
<1>5. promised' \subseteq promised /\ SetattrsKept'
  BY <1>3, <1>4, KeptWithoutCopy
<1>6. CallKeeps(k, promised')
  <2>1. step = "copy" => call[c].dp = AllocatedPointer
    BY DEF NextStep, CompleteInv, CallComplete
  <2>2. Same(received(AllocatedPointer, bucket[call[c].oid]).meta, bucket[call[c].oid])
    BY ReceivedSame
  <2>3. step = "copy" => dp = AllocatedPointer \/ Same(dp.meta, bucket[call[c].oid])
    BY <2>1, <2>2 DEF NextStep
  <2>4. CallKeeps(call[c], promised')
    BY <1>5, FewerPromises DEF KeptInv
  <2>5. \A p \in promised' : p.name \in DOMAIN bucket[p.oid] /\ bucket[p.oid][p.name] = p.value
    BY <1>5 DEF KeptInv, SetattrsKept
  <2>. QED
    BY <1>1, <1>2, <2>3, <2>4, <2>5 DEF CallKeeps, Same
<1>7. \A d \in Callers \ {c} : Busy(d) => CallKeeps(call[d], promised')
  BY <1>5, FewerPromises DEF KeptInv
<1>. QED
  BY <1>1, <1>5, <1>6, <1>7, CallStepKept

\* The copy of a setattrs sets what it was asked to set, and for the rest
\* repeats what others were promised.
LEMMA EndOfCallKept ==
  ASSUME TypeOK, CompleteInv, BackedInv, Exclusive, "setattrs" \in Ordered, KeptInv, Track,
         NEW c \in Callers, Busy(c), EndOfCall(c),
         Faults \subseteq {"lost_put", "lost_answer"}, ForeignKeys = {},
         \A attrs \in SetAttrs : Refilled(attrs) # {}
  PROVE  KeptInv'
<1>. DEFINE k == call[c]
<1>1. call' = [call EXCEPT ![c] = Idle] /\ CallOK(k) /\ CallComplete(k) /\ CallKeeps(k, promised)
  BY DEF EndOfCall, TypeOK, CompleteInv, KeptInv
<1>2. Ended \subseteq {c}
  BY <1>1 DEF Ended, TypeOK, Busy
<1>3. CASE k.step = "fill" /\ UNCHANGED bucket
  <2>1. Ended = {}
    BY <1>2, <1>3 DEF Ended
  <2>2. promised' \subseteq promised /\ SetattrsKept'
    BY <1>3, <2>1, KeptWithoutCopy DEF KeptInv, SetattrsKept
  <2>3. \A d \in Callers \ {c} : Busy(d) => CallKeeps(call[d], promised')
    BY <2>2, FewerPromises DEF KeptInv
  <2>. QED
    BY <1>1, <2>2, <2>3, CallStepKept
<1>4. CASE /\ k.step = "copy"
           /\ ~refill_dies(k.attrs, k.dp)
           /\ Copies(k.oid, refill_metadata(k.attrs, k.dp.meta))
  <2>. DEFINE meta == refill_metadata(k.attrs, k.dp.meta)
  <2>1. k.op = "setattrs" /\ k.oid \in DOMAIN bucket
    BY <1>1, <1>4 DEF CallOK, StepOf, Operation, BackedInv, HandlesBacked
  <2>2. bucket' = Stored(k.oid, meta)
    BY <1>4, <2>1 DEF Copies
  <2>3. k.dp # AllocatedPointer
    <3>1. Refilled(k.attrs) # {}
      BY <1>1, <2>1 DEF CallComplete
    <3>. QED
      BY <1>4, <3>1 DEF refill_dies, AllocatedPointer, Nothing, METADATACOUNT
  <2>4. DOMAIN k.dp.meta = MetadataName
    BY <1>1, <1>4, <2>3 DEF CallComplete
  <2>5. Sets(k) = Refilled(k.attrs) /\ Sets(k) \subseteq MetadataName
    BY <1>1, <2>1 DEF Sets, CallOK, Refilled
  <2>6. /\ DOMAIN meta = MetadataName
        /\ \A n \in Sets(k) : meta[n] = StoredValue(n, k.attrs[n])
        /\ \A n \in MetadataName \ Sets(k) : meta[n] = k.dp.meta[n]
    BY <2>4, <2>5 DEF refill_metadata
  <2>7. /\ k.oid \in DOMAIN bucket' /\ bucket'[k.oid] = meta
        /\ \A o \in DOMAIN bucket \ {k.oid} : o \in DOMAIN bucket' /\ bucket'[o] = bucket[o]
    BY <2>2 DEF Stored
  <2>. HIDE DEF meta
  <2>8. promised' \subseteq promised \cup Left(c)
    BY <1>2, TrackIs
  <2>9. \A p \in Left(c) :
          /\ p.oid = k.oid
          /\ p.name \in Sets(k) \ SetByOthers(c, k.oid)
          /\ p.value = StoredValue(p.name, k.attrs[p.name])
    BY DEF Left
  <2>10. ASSUME NEW p \in promised
         PROVE  p.oid \in DOMAIN bucket' /\ p.name \in DOMAIN bucket'[p.oid] /\ bucket'[p.oid][p.name] = p.value
    <3>1. p.oid \in DOMAIN bucket /\ p.name \in DOMAIN bucket[p.oid] /\ bucket[p.oid][p.name] = p.value
      BY <2>10 DEF KeptInv, SetattrsKept
    <3>2. CASE p.oid # k.oid
      BY <2>7, <3>1, <3>2
    <3>3. CASE p.oid = k.oid
      <4>1. p.name \notin Sets(k) /\ p.name \in DOMAIN k.dp.meta /\ k.dp.meta[p.name] = p.value
        BY <1>1, <1>4, <2>3, <3>3 DEF CallKeeps
      <4>. QED
        BY <2>4, <2>6, <2>7, <3>3, <4>1
    <3>. QED
      BY <3>2, <3>3
  <2>11. ASSUME NEW p \in Left(c)
         PROVE  p.oid \in DOMAIN bucket' /\ p.name \in DOMAIN bucket'[p.oid] /\ bucket'[p.oid][p.name] = p.value
    BY <2>5, <2>6, <2>7, <2>9
  <2>12. SetattrsKept'
    BY <2>8, <2>10, <2>11 DEF SetattrsKept
  <2>13. ASSUME NEW d \in Callers \ {c}, Busy(d)
         PROVE  CallKeeps(call[d], promised')
    <3>1. CallKeeps(call[d], promised) /\ CallOK(call[d])
      BY <2>13 DEF KeptInv, TypeOK
    <3>2. call[d].oid = k.oid => call[d].op # "setattrs"
      BY <2>1, <2>13 DEF Exclusive
    <3>3. call[d].oid = k.oid => call[d].step # "copy"
      BY <3>1, <3>2 DEF CallOK, StepOf, Operation
    <3>4. call[d].oid = k.oid => Sets(call[d]) \subseteq SetByOthers(c, k.oid)
      BY <2>13 DEF SetByOthers
    <3>5. CallKeeps(call[d], Left(c))
      BY <2>9, <3>3, <3>4 DEF CallKeeps
    <3>. QED
      BY <2>8, <3>1, <3>5 DEF CallKeeps
  <2>. QED
    BY <1>1, <2>12, <2>13, CallStepKept
<1>. QED
  BY <1>3, <1>4 DEF EndOfCall

LEMMA OthersKept ==
  ASSUME TypeOK, KeptInv, Track,
         \/ CreateExport
         \/ \E oid \in ForeignKeys, meta \in ForeignMeta : ForeignPut(oid, meta)
         \/ Restart
         \/ UNCHANGED vars
  PROVE  KeptInv'
<1>1. UNCHANGED call /\ \A o \in DOMAIN bucket : o \in DOMAIN bucket'
  BY OthersAre
<1>2. Ended = {}
  BY <1>1 DEF Ended, Busy
<1>3. \A p \in promised : ~EndedByOthers(p) =>
        (p.oid \in DOMAIN bucket' /\ bucket'[p.oid] = bucket[p.oid])
  BY <1>1 DEF EndedByOthers, KeptInv, SetattrsKept
<1>4. promised' \subseteq promised /\ SetattrsKept'
  BY <1>2, <1>3, KeptWithoutCopy
<1>5. \A d \in Callers : Busy(d) => CallKeeps(call[d], promised')
  BY <1>4, FewerPromises DEF KeptInv
<1>. QED
  BY <1>1, <1>4, <1>5 DEF KeptInv, Busy

\* What a setattrs left behind is not undone by a call that was to change
\* something else, where the server orders the setattrs of one object, no request
\* is refused and no other program writes.
THEOREM SetattrsStayKept ==
  ASSUME "setattrs" \in Ordered, Faults \subseteq {"lost_put", "lost_answer"}, ForeignKeys = {},
         \A attrs \in SetAttrs : Refilled(attrs) # {}
  PROVE  UpdateSpec => []SetattrsKept
<1>1. UpdateInit => KeptInv
  BY DEF UpdateInit, Init, KeptInv, SetattrsKept, Busy
<1>2. CompleteInv /\ BackedInv /\ Exclusive /\ KeptInv /\ [UpdateNext]_updateVars => KeptInv'
  <2>. SUFFICES ASSUME CompleteInv, BackedInv, Exclusive, KeptInv, [UpdateNext]_updateVars
                PROVE  KeptInv'
    OBVIOUS
  <2>1. TypeOK
    BY DEF CompleteInv
  <2>2. CASE UNCHANGED updateVars
    BY <2>2 DEF updateVars, KeptInv, SetattrsKept, Busy
  <2>3. ASSUME Dies, Track
        PROVE  KeptInv'
    <3>1. Ended = {} /\ UNCHANGED bucket /\ \A d \in Callers : ~Busy(d)'
      BY <2>3 DEF Dies, Ended, Busy
    <3>2. SetattrsKept'
      BY <2>3, <3>1, KeptWithoutCopy DEF KeptInv, SetattrsKept
    <3>. QED
      BY <3>1, <3>2 DEF KeptInv
  <2>4. ASSUME Track, NEW c \in Callers, Starts(c) \/ Continues(c)
        PROVE  KeptInv'
    <3>1. \/ Dies
          \/ \E k : NewCall(c, k)
          \/ Busy(c) /\ (EndOfCall(c) \/ \E step, dp : NextStep(c, step, dp))
      BY <2>1, <2>4, StartsAre, ContinuesAre
    <3>. QED
      BY <2>1, <2>3, <2>4, <3>1, NewCallKept, NextStepKept, EndOfCallKept
  <2>5. CASE UpdateNext
    BY <2>1, <2>4, <2>5, OthersKept DEF UpdateNext, Next
  <2>. QED
    BY <2>2, <2>5
<1>3. KeptInv => SetattrsKept
  BY DEF KeptInv
<1>4. "refused" \notin Faults
  OBVIOUS
<1>5. UpdateSpec => []CompleteInv
  BY UpdatesAreSpec, CompleteInvariant, PTL
<1>6. UpdateSpec => []BackedInv
  BY <1>4, UpdatesAreSpec, BackedInvariant, PTL
<1>7. UpdateSpec => []Exclusive
  BY ExclusiveInvariant
<1>. QED
  BY <1>1, <1>2, <1>3, <1>5, <1>6, <1>7, PTL DEF UpdateSpec

-----------------------------------------------------------------------------
(***************************************************************************)
(* Reads.  What a call has read, or put itself, is a version seen saw.     *)
(***************************************************************************)
IsFunction(f) == f = [n \in DOMAIN f |-> f[n]]

\* S is what was seen for a call k.
CallSeen(k, S, objs) ==
  /\ k.step = "put" => IsFunction(k.dp.meta)
  /\ Reports(k) =>
       /\ \A o \in DOMAIN objs \cap {k.oid} : objs[o] \in S
       /\ IF k.step = "fill" THEN fill_dies(k.dp) \/ k.dp.meta \in S
          ELSE k.dp = AllocatedPointer \/ k.dp.meta \in S

SeenInv ==
  /\ \A o \in DOMAIN bucket \ ForeignKeys : IsFunction(bucket[o])
  /\ \A o \in DOMAIN handles : CHGTIME \notin DOMAIN handles[o]
  /\ \A c \in Callers : \A meta \in seen[c] : DOMAIN meta = MetadataName
  /\ \A c \in Callers : Busy(c) => CallSeen(call[c], seen[c], bucket)

LEMMA NewMetadataFunction ==
  ASSUME NEW oid, NEW attrs
  PROVE  /\ IsFunction(new_metadata(oid, attrs))
         /\ IsFunction(default_metadata(DIRECTORY_T, oid))
         /\ \A meta : IsFunction(refill_metadata(attrs, meta))
BY DEF IsFunction, new_metadata, refill_metadata, default_metadata

\* The headers of a whole object leave nothing of what an array held before;
\* an answer without headers leaves all of it.
LEMMA ReceivedWhole ==
  ASSUME NEW dp, NEW headers, IsPointer(dp)
  PROVE  /\ DOMAIN headers = MetadataName /\ IsFunction(headers) => received(dp, headers).meta = headers
         /\ IsFunction(dp.meta) => received(dp, Nothing).meta = dp.meta
<1>1. Cardinality(MetadataName) = METADATACOUNT
  <2>1. MetadataName = 0 .. 12 /\ METADATACOUNT = 13
    BY DEF MetadataName, METADATACOUNT
  <2>2. Cardinality(0 .. 12) = IF 0 > 12 THEN 0 ELSE 12 - 0 + 1
    <3>1. 0 \in Int /\ 12 \in Int
      OBVIOUS
    <3>. QED
      BY <3>1, FS_Interval, Zenon
  <2>3. Cardinality(0 .. 12) = 13
    BY <2>2
  <2>. QED
    BY <2>1, <2>3
<1>2. DOMAIN dp.meta \subseteq MetadataName
  BY DEF IsPointer
<1>3. ASSUME DOMAIN headers = MetadataName, IsFunction(headers)
      PROVE  received(dp, headers).meta = headers
  <2>1. {n \in DOMAIN dp.meta : n >= METADATACOUNT} = {}
    BY <1>2 DEF MetadataName, METADATACOUNT
  <2>. QED
    BY <1>1, <1>3, <2>1 DEF received, IsFunction
<1>4. ASSUME IsFunction(dp.meta)
      PROVE  received(dp, Nothing).meta = dp.meta
  <2>1. Cardinality(DOMAIN Nothing) = 0 /\ DOMAIN Nothing = {}
    BY FS_EmptySet DEF Nothing
  <2>2. {n \in DOMAIN dp.meta : n >= 0} = DOMAIN dp.meta
    BY <1>2 DEF MetadataName
  <2>. QED
    BY <1>4, <2>1, <2>2 DEF received, IsFunction
<1>. QED
  BY <1>3, <1>4

\* Whole metadata replace every attribute a handle had.
LEMMA FilledWhole ==
  ASSUME NEW meta, NEW old, DOMAIN meta = MetadataName,
         DOMAIN old \subseteq MetadataName, CHGTIME \notin DOMAIN old
  PROVE  fill_attrlist(meta, old) = fill_attrlist(meta, Nothing)
<1>. DEFINE R == DOMAIN meta \ {SPACEUSED, CHGTIME}
            I == {n \in {SPACEUSED} : FILESIZE \in DOMAIN meta}
                   \cup {n \in {MTIME} : CHGTIME \in DOMAIN meta}
            K(o) == DOMAIN o \ (R \cup {n \in I : n = SPACEUSED})
            D(o) == DOMAIN o \cup R \cup I
<1>1. /\ FILESIZE \in MetadataName /\ CHGTIME \in MetadataName /\ MTIME \in R
      /\ SPACEUSED # MTIME
  BY DEF FILESIZE, CHGTIME, MTIME, SPACEUSED, MetadataName, METADATACOUNT
<1>2. DOMAIN Nothing = {}
  BY DEF Nothing
<1>3. SPACEUSED \in I
  BY <1>1
<1>4. K(old) = {} /\ K(Nothing) = {}
  BY <1>2, <1>3
<1>5. D(old) = D(Nothing)
  BY <1>2, <1>3
<1>6. \A o : fill_attrlist(meta, o) =
        [n \in D(o) |->
           CASE n \in R -> ReportedValue(n, meta[n])
             [] n \in K(o) -> o[n]
             [] n = SPACEUSED /\ n \notin K(o) -> meta[FILESIZE]
             [] n = MTIME /\ n \notin (R \cup K(o)) -> 0]
  BY DEF fill_attrlist
<1>. HIDE DEF R, I, K, D
<1>7. ASSUME NEW n \in D(old)
      PROVE  fill_attrlist(meta, old)[n] = fill_attrlist(meta, Nothing)[n]
  BY <1>4, <1>5, <1>6, <1>7
<1>. QED
  BY <1>4, <1>5, <1>6

LEMMA FilledNoChange ==
  ASSUME NEW meta, NEW old, CHGTIME \notin DOMAIN old
  PROVE  CHGTIME \notin DOMAIN fill_attrlist(meta, old)
BY DEF fill_attrlist, CHGTIME, SPACEUSED, MTIME

\* What is seen for a call grows while it runs.
LEMMA SeenGrows ==
  ASSUME Observe, BucketComplete', Observed \cap ForeignKeys = {},
         \A d \in Callers : \A meta \in seen[d] : DOMAIN meta = MetadataName,
         NEW c \in Callers
  PROVE  /\ \A meta \in seen'[c] : DOMAIN meta = MetadataName
         /\ Reports(call'[c]) =>
              /\ seen[c] \subseteq seen'[c]
              /\ \A o \in DOMAIN bucket' \cap {call'[c].oid} : bucket'[o] \in seen'[c]
<1>1. seen'[c] = IF ~Reports(call'[c]) THEN {}
                 ELSE seen[c] \cup {bucket'[o] : o \in DOMAIN bucket' \cap {call'[c].oid}}
  BY DEF Observe
<1>2. ASSUME Reports(call'[c]), NEW o \in DOMAIN bucket' \cap {call'[c].oid}
      PROVE  DOMAIN bucket'[o] = MetadataName
  BY <1>2 DEF Reports, BucketComplete
<1>. QED
  BY <1>1, <1>2

\* A call that waits has seen what there was to see.
LEMMA WaitsSeen ==
  ASSUME NEW k, NEW S, NEW T, NEW objs, NEW objects, CallSeen(k, S, objs),
         Reports(k) => S \subseteq T /\ \A o \in DOMAIN objects \cap {k.oid} : objects[o] \in T
  PROVE  CallSeen(k, T, objects)
BY DEF CallSeen

\* A step that changes only what one caller does.
LEMMA CallStepSeen ==
  ASSUME TypeOK, SeenInv, Observe, BucketComplete', Observed \cap ForeignKeys = {},
         \A o \in DOMAIN bucket' \ ForeignKeys : IsFunction(bucket'[o]),
         \A o \in DOMAIN handles' : CHGTIME \notin DOMAIN handles'[o],
         NEW c \in Callers, NEW k, call' = [call EXCEPT ![c] = k],
         k # Idle => CallSeen(k, seen'[c], bucket')
  PROVE  SeenInv'
<1>1. \A d \in Callers : \A meta \in seen'[d] : DOMAIN meta = MetadataName
  BY SeenGrows DEF SeenInv
<1>2. ASSUME NEW d \in Callers, Busy(d)' PROVE CallSeen(call'[d], seen'[d], bucket')
  <2>1. CASE d = c
    BY <1>2, <2>1 DEF TypeOK, Busy
  <2>2. CASE d # c
    <3>1. call'[d] = call[d] /\ Busy(d)
      BY <1>2, <2>2 DEF TypeOK, Busy
    <3>2. CallSeen(call[d], seen[d], bucket)
      BY <3>1 DEF SeenInv
    <3>3. Reports(call[d]) => /\ seen[d] \subseteq seen'[d]
                              /\ \A o \in DOMAIN bucket' \cap {call[d].oid} : bucket'[o] \in seen'[d]
      BY <3>1, SeenGrows DEF SeenInv
    <3>. QED
      BY <3>1, <3>2, <3>3, WaitsSeen
  <2>. QED
    BY <2>1, <2>2
<1>. QED
  BY <1>1, <1>2 DEF SeenInv

LEMMA StoredFunctions ==
  ASSUME SeenInv, NEW oid, NEW meta, bucket' = Stored(oid, meta), IsFunction(meta) \/ oid \in ForeignKeys
  PROVE  \A o \in DOMAIN bucket' \ ForeignKeys : IsFunction(bucket'[o])
<1>1. DOMAIN bucket' = DOMAIN bucket \cup {oid}
  BY DEF Stored
<1>2. \A o \in DOMAIN bucket' : bucket'[o] = IF o = oid THEN meta ELSE bucket[o]
  BY DEF Stored
<1>. QED
  BY <1>1, <1>2 DEF SeenInv

LEMMA BeginSeen ==
  ASSUME TypeOK, SeenInv, Observe, BucketComplete', Observed \cap ForeignKeys = {},
         NEW c \in Callers, NEW op, NEW step, NEW oid, NEW via, NEW attrs, NEW dp,
         Begin(c, op, step, oid, via, attrs, dp),
         \/ step \in {"get", "head"} /\ dp = AllocatedPointer
         \/ step = "put" /\ IsFunction(dp.meta)
  PROVE  SeenInv'
<1>. DEFINE k == [op |-> op, step |-> step, oid |-> oid, via |-> via, attrs |-> attrs, dp |-> dp]
<1>1. call' = [call EXCEPT ![c] = k] /\ UNCHANGED <<bucket, handles>>
  BY DEF Begin
<1>2. call'[c] = k
  BY <1>1 DEF TypeOK
<1>3. Reports(k) => \A o \in DOMAIN bucket' \cap {k.oid} : bucket'[o] \in seen'[c]
  BY <1>2, SeenGrows DEF SeenInv
<1>4. k.step = step /\ k.dp = dp
  OBVIOUS
<1>5. CallSeen(k, seen'[c], bucket')
  <2>. HIDE DEF k
  <2>. QED
    BY <1>3, <1>4 DEF CallSeen, Reports
<1>. HIDE DEF k
<1>. QED
  BY <1>1, <1>5, CallStepSeen DEF SeenInv

LEMMA StartsSeen ==
  ASSUME TypeOK, SeenInv, Observe, BucketComplete', Observed \cap ForeignKeys = {},
         NEW c \in Callers, Starts(c), ~Dies
  PROVE  SeenInv'
<1>1. \A oid, attrs : IsFunction(DefaultPointer(new_metadata(oid, attrs)).meta)
  BY NewMetadataFunction DEF DefaultPointer
<1>2. CASE LookupPath(c)
  BY <1>2, BeginSeen DEF LookupPath
<1>3. ASSUME NEW parent, NEW name, Lookup(c, parent, name)
      PROVE  SeenInv'
  BY <1>3, BeginSeen DEF Lookup
<1>4. ASSUME NEW parent, NEW name, NEW attrs, Create(c, parent, name, attrs)
      PROVE  SeenInv'
  BY <1>1, <1>4, BeginSeen DEF Create
<1>5. ASSUME NEW parent, NEW name, NEW attrs, Makedir(c, parent, name, attrs)
      PROVE  SeenInv'
  BY <1>1, <1>5, BeginSeen DEF Makedir
<1>6. ASSUME NEW oid, Getattrs(c, oid)
      PROVE  SeenInv'
  BY <1>6, BeginSeen DEF Getattrs
<1>7. ASSUME NEW oid, NEW attrs, Setattrs(c, oid, attrs)
      PROVE  SeenInv'
  BY <1>7, BeginSeen DEF Setattrs
<1>. QED
  BY <1>2, <1>3, <1>4, <1>5, <1>6, <1>7 DEF Starts, UnsupportedType

\* A request of c that leaves it at `step' with the array dp.
LEMMA MovesSeen ==
  ASSUME TypeOK, SeenInv, Observe, BucketComplete', Observed \cap ForeignKeys = {},
         NEW c \in Callers, Busy(c), NEW step, NEW dp, Moves(c, step, dp), step # "put",
         \A o \in DOMAIN bucket' \ ForeignKeys : IsFunction(bucket'[o]),
         Reports(MovedTo(call[c], step, dp)) /\ MovedTo(call[c], step, dp) = call'[c] =>
           IF step = "fill" THEN fill_dies(dp) \/ dp.meta \in seen'[c]
           ELSE dp = AllocatedPointer \/ dp.meta \in seen'[c]
  PROVE  SeenInv'
<1>. DEFINE k == MovedTo(call[c], step, dp)
<1>1. call' = [call EXCEPT ![c] = k] /\ UNCHANGED handles
  BY MovedCall DEF Moves, MovedTo
<1>2. call'[c] = k
  BY <1>1 DEF TypeOK
<1>3. Reports(k) => \A o \in DOMAIN bucket' \cap {k.oid} : bucket'[o] \in seen'[c]
  BY <1>2, SeenGrows DEF SeenInv
<1>4. k.step = step /\ k.dp = dp
  BY DEF MovedTo
<1>5. CallSeen(k, seen'[c], bucket')
  <2>. HIDE DEF k
  <2>1. Reports(k) => IF step = "fill" THEN fill_dies(dp) \/ dp.meta \in seen'[c]
                      ELSE dp = AllocatedPointer \/ dp.meta \in seen'[c]
    BY <1>2 DEF k
  <2>. QED
    BY <1>3, <1>4, <2>1 DEF CallSeen
<1>. HIDE DEF k
<1>. QED
  BY <1>1, <1>5, CallStepSeen DEF SeenInv

LEMMA PutSeen ==
  ASSUME TypeOK, CompleteInv, SeenInv, Observe, BucketComplete', Observed \cap ForeignKeys = {},
         "refused" \notin Faults, NEW c \in Callers, PutObject(c), ~Dies
  PROVE  SeenInv'
<1>. DEFINE dp  == call[c].dp
            oid == call[c].oid
<1>1. Busy(c) /\ call[c].step = "put" /\ IsPointer(dp) /\ IsFunction(dp.meta)
  BY DEF PutObject, At, TypeOK, CallOK, SeenInv, CallSeen
<1>2. received(dp, Nothing).meta = dp.meta
  BY <1>1, ReceivedWhole
<1>3. bucket' = Stored(oid, dp.meta) /\ \E p : Moves(c, "head", p) /\ p.meta = dp.meta
  BY <1>2 DEF PutObject, NoDetails
<1>4. PICK p : Moves(c, "head", p) /\ p.meta = dp.meta
  BY <1>3
<1>5. \A o \in DOMAIN bucket' \ ForeignKeys : IsFunction(bucket'[o])
  BY <1>1, <1>3 DEF Stored, SeenInv
<1>6. ASSUME Reports(call'[c]), MovedTo(call[c], "head", p) = call'[c]
      PROVE  p.meta \in seen'[c]
  <2>1. call'[c].oid = oid
    BY <1>6 DEF MovedTo
  <2>2. oid \in DOMAIN bucket' /\ bucket'[oid] = dp.meta
    BY <1>3 DEF Stored
  <2>3. \A o \in DOMAIN bucket' \cap {call'[c].oid} : bucket'[o] \in seen'[c]
    BY <1>6, SeenGrows DEF SeenInv
  <2>. QED
    BY <1>4, <2>1, <2>2, <2>3
<1>. HIDE DEF dp, oid
<1>. QED
  BY <1>1, <1>4, <1>5, <1>6, MovesSeen

LEMMA AnswersSeen ==
  ASSUME TypeOK, CompleteInv, SeenInv, Observe, BucketComplete', Observed \cap ForeignKeys = {},
         NEW c \in Callers, Busy(c), call[c].step \in {"get", "head"},
         NEW next \in {"fill", "copy"}, next = "copy" <=> call[c].op = "setattrs", Answers(c, next)
  PROVE  SeenInv'
<1>. DEFINE dp  == call[c].dp
            oid == call[c].oid
<1>1. IsPointer(dp) /\ CallSeen(call[c], seen[c], bucket)
  BY DEF TypeOK, CallOK, SeenInv
<1>2. UNCHANGED bucket
  BY DEF Answers
<1>3. \A o \in DOMAIN bucket' \ ForeignKeys : IsFunction(bucket'[o])
  BY <1>2 DEF SeenInv
<1>4. ASSUME NEW p, MovedTo(call[c], next, p) = call'[c], Reports(call'[c]),
             \/ p = dp
             \/ oid \in DOMAIN bucket /\ p = received(dp, bucket[oid])
      PROVE  next = "fill" /\ (fill_dies(p) \/ p.meta \in seen'[c])
  <2>1. call'[c].oid = oid /\ call'[c].op = call[c].op
    BY <1>4 DEF MovedTo
  <2>2. next = "fill" /\ Reports(call[c]) /\ oid \in Observed
    BY <1>4, <2>1 DEF Reports, Busy
  <2>3. /\ seen[c] \subseteq seen'[c]
        /\ \A o \in DOMAIN bucket' \cap {oid} : bucket'[o] \in seen'[c]
    BY <1>4, <2>1, SeenGrows DEF SeenInv
  <2>4. CASE p = dp
    <3>1. dp = AllocatedPointer \/ dp.meta \in seen[c]
      BY <1>1, <2>2 DEF CallSeen
    <3>2. fill_dies(AllocatedPointer)
      BY DEF fill_dies, AllocatedPointer, METADATACOUNT
    <3>. QED
      BY <2>2, <2>3, <2>4, <3>1, <3>2
  <2>5. CASE oid \in DOMAIN bucket /\ p = received(dp, bucket[oid])
    <3>1. oid \notin ForeignKeys
      BY <2>2
    <3>2. DOMAIN bucket[oid] = MetadataName /\ IsFunction(bucket[oid])
      BY <2>5, <3>1 DEF CompleteInv, BucketComplete, SeenInv
    <3>3. p.meta = bucket[oid]
      BY <1>1, <2>5, <3>2, ReceivedWhole
    <3>. QED
      BY <1>2, <2>2, <2>3, <2>5, <3>3
  <2>. QED
    BY <1>4, <2>4, <2>5
<1>5. PICK p :
        /\ Moves(c, next, p)
        /\ \/ p = dp
           \/ oid \in DOMAIN bucket /\ p = received(dp, bucket[oid])
  <2>1. CASE Moves(c, next, dp)
    BY <2>1
  <2>2. CASE oid \in DOMAIN bucket /\ Moves(c, next, received(dp, bucket[oid]))
    BY <2>2
  <2>. QED
    BY <2>1, <2>2 DEF Answers
<1>. HIDE DEF dp, oid
<1>. QED
  BY <1>3, <1>4, <1>5, MovesSeen

LEMMA EndSeen ==
  ASSUME TypeOK, CompleteInv, SeenInv, Observe, BucketComplete', Observed \cap ForeignKeys = {},
         NEW c \in Callers, CopyObject(c) \/ Return(c), ~Dies
  PROVE  SeenInv'
<1>1. call' = [call EXCEPT ![c] = Idle]
  BY DEF CopyObject, Return
<1>2. \A o \in DOMAIN bucket' \ ForeignKeys : IsFunction(bucket'[o])
  <2>1. CASE CopyObject(c)
    <3>1. \/ UNCHANGED bucket
          \/ bucket' = Stored(call[c].oid, refill_metadata(call[c].attrs, call[c].dp.meta))
      BY <2>1 DEF CopyObject, Copies
    <3>2. CASE UNCHANGED bucket
      BY <3>2 DEF SeenInv
    <3>. QED
      BY <3>1, <3>2, NewMetadataFunction, StoredFunctions
  <2>2. CASE Return(c)
    BY <2>2 DEF Return, SeenInv
  <2>. QED
    BY <2>1, <2>2
<1>3. \A o \in DOMAIN handles' : CHGTIME \notin DOMAIN handles'[o]
  <2>1. CASE CopyObject(c)
    BY <2>1 DEF CopyObject, SeenInv
  <2>2. CASE Return(c)
    <3>1. CHGTIME \notin DOMAIN FilledAttrs(c)
      <4>1. call[c].op = "getattrs" => call[c].oid \in DOMAIN handles
        BY <2>2 DEF Return, At, TypeOK, CallOK
      <4>2. CHGTIME \notin DOMAIN Nothing
        BY DEF Nothing
      <4>. QED
        BY <4>1, <4>2, FilledNoChange DEF FilledAttrs, SeenInv
    <3>. QED
      BY <2>2, <3>1 DEF Return, SeenInv
  <2>. QED
    BY <2>1, <2>2
<1>. QED
  BY <1>1, <1>2, <1>3, CallStepSeen

LEMMA SeenInvariant ==
  ASSUME Observed \cap ForeignKeys = {}, "refused" \notin Faults,
         \A attrs \in SetAttrs : Refilled(attrs) # {}
  PROVE  UpdateSpec => []SeenInv
<1>1. UpdateInit => SeenInv
  BY DEF UpdateInit, Init, SeenInv, Busy, Nothing
<1>2. CompleteInv /\ CompleteInv' /\ SeenInv /\ [UpdateNext]_updateVars => SeenInv'
  <2>. SUFFICES ASSUME CompleteInv, CompleteInv', SeenInv, [UpdateNext]_updateVars
                PROVE  SeenInv'
    OBVIOUS
  <2>1. TypeOK /\ BucketComplete'
    BY DEF CompleteInv
  <2>2. CASE UNCHANGED updateVars
    BY <2>2 DEF updateVars, SeenInv, Busy, CallSeen
  <2>3. ASSUME Observe, Dies
        PROVE  SeenInv'
    <3>1. /\ UNCHANGED bucket /\ handles' = Nothing /\ \A d \in Callers : call'[d] = Idle
      BY <2>3 DEF Dies
    <3>2. \A d \in Callers : \A meta \in seen'[d] : DOMAIN meta = MetadataName
      BY <2>1, <2>3, SeenGrows DEF SeenInv
    <3>. QED
      BY <3>1, <3>2 DEF SeenInv, Busy, Nothing
  <2>4. ASSUME Observe, NEW c \in Callers, Continues(c), ~Dies
        PROVE  SeenInv'
    <3>1. CASE GetObject(c)
      <4>1. Busy(c) /\ call[c].step = "get" /\ Answers(c, "fill")
        BY <2>4, <3>1 DEF GetObject, At, NoDetails
      <4>2. call[c].op # "setattrs"
        BY <2>1, <4>1 DEF TypeOK, CallOK, StepOf
      <4>. QED
        BY <2>1, <2>4, <4>1, <4>2, AnswersSeen
    <3>2. CASE HeadObject(c)
      <4>1. Busy(c) /\ call[c].step = "head"
            /\ Answers(c, IF call[c].op = "setattrs" THEN "copy" ELSE "fill")
        BY <2>4, <3>2 DEF HeadObject, At, NoDetails
      <4>. QED
        BY <2>1, <2>4, <4>1, AnswersSeen
    <3>. QED
      BY <2>1, <2>4, <3>1, <3>2, PutSeen, EndSeen DEF Continues
  <2>5. ASSUME Observe,
               \/ CreateExport
               \/ \E oid \in ForeignKeys, meta \in ForeignMeta : ForeignPut(oid, meta)
               \/ Restart
        PROVE  SeenInv'
    <3>1. UNCHANGED <<call, handles>>
      BY <2>5 DEF CreateExport, ForeignPut, Restart
    <3>2. \A o \in DOMAIN bucket' \ ForeignKeys : IsFunction(bucket'[o])
      <4>1. CASE CreateExport
        BY <4>1, NewMetadataFunction, StoredFunctions DEF CreateExport
      <4>2. ASSUME NEW oid \in ForeignKeys, NEW meta, ForeignPut(oid, meta)
            PROVE  \A o \in DOMAIN bucket' \ ForeignKeys : IsFunction(bucket'[o])
        BY <4>2, StoredFunctions DEF ForeignPut
      <4>3. CASE Restart
        BY <4>3 DEF Restart, SeenInv
      <4>. QED
        BY <2>5, <4>1, <4>2, <4>3
    <3>3. \A d \in Callers : \A meta \in seen'[d] : DOMAIN meta = MetadataName
      BY <2>1, <2>5, SeenGrows DEF SeenInv
    <3>4. ASSUME NEW d \in Callers, Busy(d) PROVE CallSeen(call[d], seen'[d], bucket')
      <4>1. CallSeen(call[d], seen[d], bucket)
        BY <3>4 DEF SeenInv
      <4>2. Reports(call[d]) => /\ seen[d] \subseteq seen'[d]
                                /\ \A o \in DOMAIN bucket' \cap {call[d].oid} : bucket'[o] \in seen'[d]
        BY <2>1, <2>5, <3>1, SeenGrows DEF SeenInv
      <4>. QED
        BY <4>1, <4>2, WaitsSeen
    <3>. QED
      BY <3>1, <3>2, <3>3, <3>4 DEF SeenInv, Busy
  <2>6. CASE UpdateNext
    BY <2>1, <2>3, <2>4, <2>5, <2>6, StartsSeen DEF UpdateNext, Next
  <2>. QED
    BY <2>2, <2>6
<1>. QED
  BY <1>1, <1>2, CompleteInvariant, UpdatesAreSpec, PTL DEF UpdateSpec

\* What a call hands back is one version of its object, of its own time: where
\* the store refuses nothing, for every object no other program writes, however
\* many answers are lost and whichever calls the server orders.
THEOREM ReadsAreCurrent ==
  ASSUME Observed \cap ForeignKeys = {}, "refused" \notin Faults,
         \A attrs \in SetAttrs : Refilled(attrs) # {}
  PROVE  UpdateSpec => ReadsCurrent
<1>. DEFINE Reads(c) ==
       Busy(c) /\ call[c].step = "fill" /\ call'[c] = Idle /\ alive' /\ call[c].oid \in Observed =>
         \E meta \in seen[c] : handles'[call[c].oid] = fill_attrlist(meta, Nothing)
<1>1. TypeOK /\ SeenInv /\ [UpdateNext]_updateVars => [\A c \in Callers : Reads(c)]_updateVars
  <2>. SUFFICES ASSUME TypeOK, SeenInv, UpdateNext, NEW c \in Callers,
                       Busy(c), call[c].step = "fill", call'[c] = Idle, alive', call[c].oid \in Observed
                PROVE  \E meta \in seen[c] : handles'[call[c].oid] = fill_attrlist(meta, Nothing)
    OBVIOUS
  <2>1. Return(c) /\ ~Dies
    <3>1. ~Dies
      BY DEF Dies
    <3>2. ASSUME NEW d \in Callers, d # c, Starts(d) \/ Continues(d) PROVE FALSE
      <4>1. Dies \/ call'[c] = call[c]
        <5>1. CASE Starts(d)
          BY <3>2, <5>1, StartsAre DEF NewCall, TypeOK
        <5>2. CASE Continues(d)
          BY <3>2, <5>2, ContinuesAre DEF EndOfCall, NextStep, TypeOK
        <5>. QED
          BY <3>2, <5>1, <5>2
      <4>. QED
        BY <3>1, <4>1 DEF Busy
    <3>3. ~Starts(c)
      BY <3>1, StartsAre DEF NewCall
    <3>4. ~(CreateExport \/ (\E oid \in ForeignKeys, meta \in ForeignMeta : ForeignPut(oid, meta)) \/ Restart)
      BY DEF CreateExport, ForeignPut, Restart, Busy
    <3>5. Continues(c)
      BY <3>2, <3>3, <3>4 DEF UpdateNext, Next
    <3>. QED
      BY <3>1, <3>5 DEF Continues, PutObject, GetObject, HeadObject, CopyObject, At
  <2>2. /\ ~fill_dies(call[c].dp)
        /\ handles'[call[c].oid] = FilledAttrs(c)
    BY <2>1 DEF Return
  <2>3. call[c].op # "setattrs" /\ CallOK(call[c])
    BY DEF TypeOK, CallOK, StepOf
  <2>4. call[c].dp.meta \in seen[c]
    BY <2>2, <2>3 DEF SeenInv, CallSeen, Reports, Busy
  <2>5. DOMAIN call[c].dp.meta = MetadataName
    BY <2>4 DEF SeenInv
  <2>6. FilledAttrs(c) = fill_attrlist(call[c].dp.meta, Nothing)
    <3>1. CASE call[c].op = "getattrs"
      <4>1. call[c].oid \in DOMAIN handles
        BY <2>3, <3>1 DEF CallOK
      <4>2. DOMAIN handles[call[c].oid] \subseteq MetadataName /\ CHGTIME \notin DOMAIN handles[call[c].oid]
        BY <4>1 DEF TypeOK, SeenInv
      <4>. QED
        BY <2>5, <3>1, <4>2, FilledWhole DEF FilledAttrs
    <3>2. CASE call[c].op # "getattrs"
      BY <3>2 DEF FilledAttrs
    <3>. QED
      BY <3>1, <3>2
  <2>. QED
    BY <2>2, <2>4, <2>6
<1>. HIDE DEF Reads
<1>2. UpdateSpec => [](TypeOK /\ SeenInv)
  BY SeenInvariant, UpdatesAreSpec, TypeCorrect, PTL
<1>3. UpdateSpec => [][\A c \in Callers : Reads(c)]_updateVars
  BY <1>1, <1>2, PTL DEF UpdateSpec
<1>. QED
  BY <1>3 DEF ReadsCurrent, Reads
=============================================================================
