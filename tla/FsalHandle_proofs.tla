-------------------------- MODULE FsalHandle_proofs --------------------------
(***************************************************************************)
(* Theorems about FsalHandle, for every value of its constants.            *)
(***************************************************************************)
EXTENDS FsalHandle, SequenceTheorems, FiniteSetTheorems, TLAPS

-----------------------------------------------------------------------------
(***************************************************************************)
(* What the operators return.                                              *)
(***************************************************************************)

\* The root's id, and an id built from that of a directory and a name, are ids.
LEMMA RootIsOid == ROOTOID \in Oid
BY DEF Oid, Token, ROOTOID

LEMMA KeysAreOids ==
  ASSUME NEW parent \in Oid, NEW name \in Names
  PROVE  file_key(parent, name) \in Oid /\ dir_key(parent, name) \in Oid
<1>1. <<Slash>> \in Oid
  BY DEF Oid, Token
<1>2. name \in Oid
  <2>1. name \in Seq(Letters)
    BY NamesAssumption
  <2>. QED
    BY <2>1, SeqMonotonic DEF Oid, Token
<1>3. parent \o name \in Oid
  BY <1>2, ConcatProperties DEF Oid
<1>4. (parent \o name) \o <<Slash>> \in Oid
  BY <1>1, <1>3, ConcatProperties DEF Oid
<1>. QED
  BY <1>3, <1>4 DEF file_key, dir_key

\* Default metadata are complete, and refilling leaves the names as they are.
LEMMA NewMetadataComplete ==
  ASSUME NEW oid, NEW attrs
  PROVE  /\ DOMAIN new_metadata(oid, attrs) = MetadataName
         /\ DOMAIN default_metadata(DIRECTORY_T, oid) = MetadataName
BY DEF new_metadata, refill_metadata, default_metadata

\* Metadata arrays hold only the names this code knows.
LEMMA Pointers ==
  /\ IsPointer(AllocatedPointer)
  /\ \A oid, attrs : IsPointer(DefaultPointer(new_metadata(oid, attrs)))
  /\ \A dp, headers : IsPointer(dp) /\ DOMAIN headers \subseteq MetadataName =>
       IsPointer(received(dp, headers))
<1>1. IsPointer(AllocatedPointer)
  BY DEF IsPointer, AllocatedPointer, Nothing
<1>2. ASSUME NEW oid, NEW attrs
      PROVE  IsPointer(DefaultPointer(new_metadata(oid, attrs)))
  BY NewMetadataComplete DEF IsPointer, DefaultPointer
<1>3. ASSUME NEW dp, NEW headers, IsPointer(dp), DOMAIN headers \subseteq MetadataName
      PROVE  IsPointer(received(dp, headers))
  BY <1>3 DEF IsPointer, received
<1>. QED
  BY <1>1, <1>2, <1>3

\* Attributes of a handle have the names of the metadata they come from.
LEMMA FilledNames ==
  ASSUME NEW meta, NEW old,
         DOMAIN meta \subseteq MetadataName, DOMAIN old \subseteq MetadataName
  PROVE  DOMAIN fill_attrlist(meta, old) \subseteq MetadataName
BY DEF fill_attrlist, MetadataName, METADATACOUNT, SPACEUSED, MTIME

-----------------------------------------------------------------------------
(***************************************************************************)
(* Type correctness.                                                       *)
(***************************************************************************)

\* A started call is well formed, and nothing else changes.
LEMMA BeginTypeOK ==
  ASSUME TypeOK, NEW c \in Callers, NEW op \in Operation, NEW step \in StepOf[op],
         NEW oid \in Oid, NEW via, NEW attrs, NEW dp,
         DOMAIN attrs \subseteq MetadataName, IsPointer(dp),
         op \in {"getattrs", "setattrs"} => oid \in DOMAIN handles,
         Begin(c, op, step, oid, via, attrs, dp)
  PROVE  TypeOK'
<1>. DEFINE k == [op |-> op, step |-> step, oid |-> oid, via |-> via, attrs |-> attrs, dp |-> dp]
<1>1. CallOK(k)'
  BY DEF CallOK, Begin
<1>2. call' = [call EXCEPT ![c] = k] /\ alive /\ UNCHANGED <<bucket, alive, handles>>
  BY DEF Begin
<1>3. \A d \in Callers : Busy(d)' => CallOK(call[d])'
  <2>. SUFFICES ASSUME NEW d \in Callers, Busy(d)'
                PROVE  CallOK(call[d])'
    OBVIOUS
  <2>1. CASE d = c
    BY <1>1, <1>2, <2>1 DEF TypeOK
  <2>2. CASE d # c
    BY <1>2, <2>2 DEF TypeOK, Busy, CallOK
  <2>. QED
    BY <2>1, <2>2
<1>. HIDE DEF k
<1>. QED
  BY <1>2, <1>3 DEF TypeOK

\* A call that goes to its next step is well formed; the bucket may change.
LEMMA MovesTypeOK ==
  ASSUME TypeOK, NEW c \in Callers, NEW step, NEW dp, Busy(c), alive,
         step \in StepOf[call[c].op], IsPointer(dp),
         Moves(c, step, dp),
         \A o \in DOMAIN bucket' : o \in Oid /\ DOMAIN bucket'[o] \subseteq MetadataName
  PROVE  TypeOK'
<1>1. call' = [call EXCEPT ![c] = [@ EXCEPT !.step = step, !.dp = dp]] /\ UNCHANGED <<alive, handles>>
  BY DEF Moves
<1>2. CallOK(call[c]) /\ DOMAIN call = Callers
  BY DEF TypeOK
<1>3. call'[c] = [op |-> call[c].op, step |-> step, oid |-> call[c].oid,
                  via |-> call[c].via, attrs |-> call[c].attrs, dp |-> dp]
  BY <1>1, <1>2 DEF CallOK
<1>4. CallOK(call[c])'
  BY <1>1, <1>2, <1>3 DEF CallOK
<1>5. \A d \in Callers : Busy(d)' => CallOK(call[d])'
  BY <1>1, <1>2, <1>4 DEF TypeOK, Busy, CallOK
<1>. QED
  BY <1>1, <1>5 DEF TypeOK

\* The end of the process leaves nothing of it.
LEMMA DiesTypeOK ==
  ASSUME TypeOK, Dies
  PROVE  TypeOK'
BY DEF TypeOK, Dies, Busy, Idle, Nothing

\* Storing metadata with known names keeps the bucket's type.
LEMMA StoredType ==
  ASSUME TypeOK, NEW oid \in Oid, NEW meta, DOMAIN meta \subseteq MetadataName,
         bucket' = Stored(oid, meta)
  PROVE  \A o \in DOMAIN bucket' : o \in Oid /\ DOMAIN bucket'[o] \subseteq MetadataName
BY DEF TypeOK, Stored

\* The actions that begin an operation.
LEMMA StartsTypeOK ==
  ASSUME TypeOK, NEW c \in Callers, Starts(c)
  PROVE  TypeOK'
<1>. USE DEF Operation, StepOf, Oid
<1>1. \A o \in DOMAIN handles : o \in Oid
  BY DEF TypeOK
<1>2. DOMAIN Nothing \subseteq MetadataName
  BY DEF Nothing
<1>3. CASE LookupPath(c)
  BY <1>2, <1>3, BeginTypeOK, RootIsOid, Pointers DEF LookupPath
<1>4. ASSUME NEW parent \in DOMAIN handles, NEW name \in Names, Lookup(c, parent, name)
      PROVE  TypeOK'
  BY <1>1, <1>2, <1>4, BeginTypeOK, KeysAreOids, Pointers DEF Lookup
<1>5. ASSUME NEW parent \in DOMAIN handles, NEW name \in Names, NEW attrs \in CreateAttrs,
             Create(c, parent, name, attrs)
      PROVE  TypeOK'
  BY <1>1, <1>5, BeginTypeOK, KeysAreOids, Pointers, AttrsAssumption DEF Create
<1>6. ASSUME NEW parent \in DOMAIN handles, NEW name \in Names, NEW attrs \in MakedirAttrs,
             Makedir(c, parent, name, attrs)
      PROVE  TypeOK'
  BY <1>1, <1>6, BeginTypeOK, KeysAreOids, Pointers, AttrsAssumption DEF Makedir
<1>7. ASSUME NEW parent, NEW attrs, UnsupportedType(c, parent, attrs)
      PROVE  TypeOK'
  BY <1>7, DiesTypeOK DEF UnsupportedType
<1>8. ASSUME NEW oid \in DOMAIN handles, Getattrs(c, oid)
      PROVE  TypeOK'
  BY <1>1, <1>2, <1>8, BeginTypeOK, Pointers DEF Getattrs
<1>9. ASSUME NEW oid \in DOMAIN handles, NEW attrs \in SetAttrs, Setattrs(c, oid, attrs)
      PROVE  TypeOK'
  BY <1>1, <1>9, BeginTypeOK, Pointers, AttrsAssumption DEF Setattrs
<1>. QED
  BY <1>3, <1>4, <1>5, <1>6, <1>7, <1>8, <1>9 DEF Starts

\* An answer to a GET or a HEAD.
LEMMA AnswersTypeOK ==
  ASSUME TypeOK, NEW c \in Callers, Busy(c), alive, NEW next \in StepOf[call[c].op],
         Answers(c, next)
  PROVE  TypeOK'
<1>. DEFINE oid == call[c].oid
            dp  == call[c].dp
<1>1. IsPointer(dp) /\ \A o \in DOMAIN bucket : o \in Oid /\ DOMAIN bucket[o] \subseteq MetadataName
  BY DEF TypeOK, CallOK
<1>2. UNCHANGED bucket
  BY DEF Answers
<1>3. CASE oid \in DOMAIN bucket /\ Moves(c, next, received(dp, bucket[oid]))
  BY <1>1, <1>2, <1>3, Pointers, MovesTypeOK
<1>4. CASE Moves(c, next, dp)
  BY <1>1, <1>2, <1>4, MovesTypeOK
<1>. QED
  BY <1>3, <1>4 DEF Answers

\* The actions that go on with an operation.
LEMMA ContinuesTypeOK ==
  ASSUME TypeOK, NEW c \in Callers, Continues(c)
  PROVE  TypeOK'
<1>. DEFINE oid == call[c].oid
            dp  == call[c].dp
<1>1. Busy(c) /\ alive
  BY DEF Continues, PutObject, GetObject, HeadObject, CopyObject, Return, At
<1>2. CallOK(call[c]) /\ oid \in Oid /\ IsPointer(dp) /\ DOMAIN dp.meta \subseteq MetadataName
  BY <1>1 DEF TypeOK, CallOK, IsPointer
<1>3. CASE PutObject(c)
  <2>1. "head" \in StepOf[call[c].op]
    BY <1>2, <1>3 DEF PutObject, At, CallOK, StepOf, Operation
  <2>2. \A o \in DOMAIN bucket : o \in Oid /\ DOMAIN bucket[o] \subseteq MetadataName
    BY DEF TypeOK
  <2>3. IsPointer(received(dp, Nothing))
    BY <1>2, Pointers DEF Nothing
  <2>4. ASSUME bucket' = Stored(oid, dp.meta)
        PROVE  \A o \in DOMAIN bucket' : o \in Oid /\ DOMAIN bucket'[o] \subseteq MetadataName
    BY <1>2, <2>4, StoredType
  <2>5. CASE bucket' = Stored(oid, dp.meta) /\ Moves(c, "head", received(dp, Nothing))
    BY <1>1, <2>1, <2>3, <2>4, <2>5, MovesTypeOK
  <2>6. CASE bucket' = Stored(oid, dp.meta) /\ Moves(c, "head", dp)
    BY <1>1, <1>2, <2>1, <2>4, <2>6, MovesTypeOK
  <2>7. CASE UNCHANGED bucket /\ Moves(c, "head", dp)
    BY <1>1, <1>2, <2>1, <2>2, <2>7, MovesTypeOK
  <2>8. CASE Dies
    BY <2>8, DiesTypeOK
  <2>. QED
    BY <1>3, <2>5, <2>6, <2>7, <2>8 DEF PutObject, NoDetails
<1>4. CASE GetObject(c)
  <2>1. "fill" \in StepOf[call[c].op]
    BY <1>2, <1>4 DEF GetObject, At, CallOK, StepOf, Operation
  <2>. QED
    BY <1>1, <1>4, <2>1, AnswersTypeOK, DiesTypeOK DEF GetObject, NoDetails
<1>5. CASE HeadObject(c)
  <2>1. (IF call[c].op = "setattrs" THEN "copy" ELSE "fill") \in StepOf[call[c].op]
    BY <1>2, <1>5 DEF HeadObject, At, CallOK, StepOf, Operation
  <2>. QED
    BY <1>1, <1>5, <2>1, AnswersTypeOK, DiesTypeOK DEF HeadObject, NoDetails
<1>6. CASE CopyObject(c)
  <2>1. CASE Dies
    BY <2>1, DiesTypeOK
  <2>. DEFINE meta == refill_metadata(call[c].attrs, dp.meta)
  <2>2. CASE /\ Copies(oid, meta)
             /\ call' = [call EXCEPT ![c] = Idle]
             /\ UNCHANGED <<alive, handles>>
    <3>1. DOMAIN meta \subseteq MetadataName
      BY <1>2 DEF refill_metadata
    <3>2. \A o \in DOMAIN bucket' : o \in Oid /\ DOMAIN bucket'[o] \subseteq MetadataName
      BY <1>2, <2>2, <3>1, StoredType DEF Copies, TypeOK
    <3>. HIDE DEF meta
    <3>. QED
      BY <1>1, <2>2, <3>2 DEF TypeOK, Busy, CallOK
  <2>. QED
    BY <1>6, <2>1, <2>2 DEF CopyObject
<1>7. CASE Return(c)
  <2>1. CASE Dies
    BY <2>1, DiesTypeOK
  <2>2. CASE /\ handles' = [o \in DOMAIN handles \cup {oid} |->
                              IF o = oid THEN FilledAttrs(c) ELSE handles[o]]
             /\ call' = [call EXCEPT ![c] = Idle]
             /\ UNCHANGED <<bucket, alive>>
    <3>1. DOMAIN FilledAttrs(c) \subseteq MetadataName
      <4>. DEFINE old == IF call[c].op = "getattrs" THEN handles[oid] ELSE Nothing
      <4>1. DOMAIN old \subseteq MetadataName
        BY <1>2 DEF TypeOK, CallOK, Nothing
      <4>. QED
        BY <1>2, <4>1, FilledNames DEF FilledAttrs
    <3>2. \A o \in DOMAIN handles' : o \in Oid /\ DOMAIN handles'[o] \subseteq MetadataName
      BY <1>2, <2>2, <3>1 DEF TypeOK
    <3>. QED
      BY <1>1, <2>2, <3>2 DEF TypeOK, Busy, CallOK
  <2>. QED
    BY <1>7, <2>1, <2>2 DEF Return
<1>. QED
  BY <1>3, <1>4, <1>5, <1>6, <1>7 DEF Continues

\* Writes of other processes, and a restart.
LEMMA OthersTypeOK ==
  ASSUME TypeOK,
         \/ CreateExport
         \/ \E oid \in ForeignKeys, meta \in ForeignMeta : ForeignPut(oid, meta)
         \/ Restart
  PROVE  TypeOK'
<1>1. ASSUME NEW oid \in Oid, NEW meta, DOMAIN meta \subseteq MetadataName,
             bucket' = Stored(oid, meta), UNCHANGED <<alive, handles, call>>
      PROVE  TypeOK'
  BY <1>1, StoredType DEF TypeOK, Busy, CallOK
<1>2. CASE CreateExport
  BY <1>1, <1>2, RootIsOid, NewMetadataComplete DEF CreateExport
<1>3. ASSUME NEW oid \in ForeignKeys, NEW meta \in ForeignMeta, ForeignPut(oid, meta)
      PROVE  TypeOK'
  BY <1>1, <1>3, AttrsAssumption, ParametersAssumption DEF ForeignPut
<1>4. CASE Restart
  BY <1>4 DEF Restart, TypeOK, Busy, CallOK
<1>. QED
  BY <1>2, <1>3, <1>4

\* The type invariant holds of every behaviour, whatever requests fail.
THEOREM TypeCorrect == Spec => []TypeOK
<1>1. Init => TypeOK
  BY DEF Init, TypeOK, Nothing, Busy
<1>2. TypeOK /\ [Next]_vars => TypeOK'
  <2>. SUFFICES ASSUME TypeOK, [Next]_vars PROVE TypeOK'
    OBVIOUS
  <2>1. CASE UNCHANGED vars
    BY <2>1 DEF vars, TypeOK, Busy, CallOK
  <2>. QED
    BY <2>1, StartsTypeOK, ContinuesTypeOK, OthersTypeOK DEF Next
<1>. QED
  BY <1>1, <1>2, PTL DEF Spec

-----------------------------------------------------------------------------
(***************************************************************************)
(* Complete objects.  The invariant is not inductive by itself: what a     *)
(* running call will put or copy must be complete already, unless the call *)
(* will die of what it lacks.                                              *)
(***************************************************************************)
CallComplete(k) ==
  /\ k.step = "put" => DOMAIN k.dp.meta = MetadataName
  /\ k.op = "setattrs" => k.attrs \in SetAttrs
  /\ k.op = "setattrs" /\ k.step = "head" => k.dp = AllocatedPointer
  /\ k.step = "copy" /\ k.oid \notin ForeignKeys =>
       DOMAIN k.dp.meta = MetadataName \/ k.dp = AllocatedPointer

CompleteInv ==
  /\ TypeOK
  /\ BucketComplete
  /\ \A c \in Callers : Busy(c) => CallComplete(call[c])

\* A call that changes, in a bucket that stays, if the call is as it should be.
LEMMA CallStepComplete ==
  ASSUME CompleteInv, TypeOK', NEW c \in Callers, NEW k, CallComplete(k),
         call' = [call EXCEPT ![c] = k], BucketComplete'
  PROVE  CompleteInv'
BY DEF CompleteInv, TypeOK, CallComplete, Busy

LEMMA DiesComplete ==
  ASSUME CompleteInv, TypeOK', Dies
  PROVE  CompleteInv'
BY DEF CompleteInv, Dies, BucketComplete, Busy

LEMMA StartsComplete ==
  ASSUME CompleteInv, TypeOK', NEW c \in Callers, Starts(c)
  PROVE  CompleteInv'
<1>1. ASSUME NEW op, NEW step, NEW oid, NEW via, NEW attrs, NEW dp,
             step \in {"get", "put", "head"},
             step = "put" => DOMAIN dp.meta = MetadataName,
             op = "setattrs" => attrs \in SetAttrs /\ dp = AllocatedPointer,
             Begin(c, op, step, oid, via, attrs, dp)
      PROVE  CompleteInv'
  <2>. DEFINE k == [op |-> op, step |-> step, oid |-> oid, via |-> via, attrs |-> attrs, dp |-> dp]
  <2>1. CallComplete(k)
    BY <1>1 DEF CallComplete
  <2>2. call' = [call EXCEPT ![c] = k] /\ BucketComplete'
    BY <1>1 DEF Begin, CompleteInv, BucketComplete
  <2>. HIDE DEF k
  <2>. QED
    BY <2>1, <2>2, CallStepComplete
<1>2. ASSUME NEW oid, NEW attrs
      PROVE  DOMAIN DefaultPointer(new_metadata(oid, attrs)).meta = MetadataName
  BY NewMetadataComplete DEF DefaultPointer
<1>3. CASE LookupPath(c)
  BY <1>1, <1>3 DEF LookupPath
<1>4. ASSUME NEW parent, NEW name, Lookup(c, parent, name)
      PROVE  CompleteInv'
  BY <1>1, <1>4 DEF Lookup
<1>5. ASSUME NEW parent, NEW name, NEW attrs, Create(c, parent, name, attrs)
      PROVE  CompleteInv'
  BY <1>1, <1>2, <1>5 DEF Create
<1>6. ASSUME NEW parent, NEW name, NEW attrs, Makedir(c, parent, name, attrs)
      PROVE  CompleteInv'
  BY <1>1, <1>2, <1>6 DEF Makedir
<1>7. ASSUME NEW parent, NEW attrs, UnsupportedType(c, parent, attrs)
      PROVE  CompleteInv'
  BY <1>7, DiesComplete DEF UnsupportedType
<1>8. ASSUME NEW oid, Getattrs(c, oid)
      PROVE  CompleteInv'
  BY <1>1, <1>8 DEF Getattrs
<1>9. ASSUME NEW oid, NEW attrs \in SetAttrs, Setattrs(c, oid, attrs)
      PROVE  CompleteInv'
  BY <1>1, <1>9 DEF Setattrs
<1>. QED
  BY <1>3, <1>4, <1>5, <1>6, <1>7, <1>8, <1>9 DEF Starts

\* Storing complete metadata, or any metadata under a foreign key.
LEMMA StoredComplete ==
  ASSUME BucketComplete, NEW oid, NEW meta, bucket' = Stored(oid, meta),
         DOMAIN meta = MetadataName \/ oid \in ForeignKeys
  PROVE  BucketComplete'
BY DEF BucketComplete, Stored

\* What Moves makes of a call.
LEMMA MovedCall ==
  ASSUME TypeOK, NEW c \in Callers, Busy(c), NEW step, NEW dp, Moves(c, step, dp)
  PROVE  call' = [call EXCEPT ![c] =
                    [op |-> call[c].op, step |-> step, oid |-> call[c].oid,
                     via |-> call[c].via, attrs |-> call[c].attrs, dp |-> dp]]
<1>. DEFINE moved == [op |-> call[c].op, step |-> step, oid |-> call[c].oid,
                     via |-> call[c].via, attrs |-> call[c].attrs, dp |-> dp]
<1>1. CallOK(call[c]) /\ DOMAIN call = Callers
  BY DEF TypeOK
<1>2. call'[c] = moved
  BY <1>1 DEF CallOK, Moves
<1>3. call' = [call EXCEPT ![c] = call'[c]]
  BY <1>1 DEF Moves
<1>. HIDE DEF moved
<1>4. call' = [call EXCEPT ![c] = moved]
  BY <1>2, <1>3
<1>. QED
  BY <1>4 DEF moved

LEMMA ContinuesComplete ==
  ASSUME CompleteInv, TypeOK', NEW c \in Callers, Continues(c),
         \A attrs \in SetAttrs : Refilled(attrs) # {}
  PROVE  CompleteInv'
<1>. DEFINE k   == call[c]
            oid == k.oid
            dp  == k.dp
            moved(step, ptr) == [op |-> k.op, step |-> step, oid |-> oid, via |-> k.via,
                                 attrs |-> k.attrs, dp |-> ptr]
<1>1. Busy(c) /\ alive /\ TypeOK /\ BucketComplete
  BY DEF CompleteInv, Continues, PutObject, GetObject, HeadObject, CopyObject, Return, At
<1>2. CallComplete(k) /\ CallOK(k)
  BY <1>1 DEF CompleteInv, TypeOK
<1>3. CASE PutObject(c)
  <2>1. k.step = "put" /\ k.op # "setattrs" /\ DOMAIN dp.meta = MetadataName
    BY <1>2, <1>3 DEF PutObject, At, CallOK, CallComplete, StepOf
  <2>2. CASE Dies
    BY <2>2, DiesComplete
  <2>3. ASSUME NEW ptr, Moves(c, "head", ptr),
               bucket' = Stored(oid, dp.meta) \/ UNCHANGED bucket
        PROVE  CompleteInv'
    <3>1. BucketComplete'
      BY <1>1, <2>1, <2>3, StoredComplete DEF BucketComplete
    <3>2. CallComplete(moved("head", ptr))
      BY <2>1 DEF CallComplete
    <3>3. call' = [call EXCEPT ![c] = moved("head", ptr)]
      BY <1>1, <2>3, MovedCall
    <3>. HIDE DEF moved
    <3>. QED
      BY <3>1, <3>2, <3>3, CallStepComplete
  <2>. QED
    BY <1>3, <2>2, <2>3 DEF PutObject, NoDetails
<1>4. ASSUME NEW next \in {"fill", "copy"}, Answers(c, next),
             next = "fill" => k.op # "setattrs",
             next = "copy" => dp = AllocatedPointer
      PROVE  CompleteInv'
  <2>1. BucketComplete'
    BY <1>1, <1>4 DEF Answers, BucketComplete
  <2>2. CASE oid \in DOMAIN bucket /\ Moves(c, next, received(dp, bucket[oid]))
    <3>1. next = "copy" => DOMAIN received(dp, bucket[oid]).meta = DOMAIN bucket[oid]
      BY <1>4 DEF received, AllocatedPointer, Nothing
    <3>2. CallComplete(moved(next, received(dp, bucket[oid])))
      BY <1>1, <1>2, <1>4, <2>2, <3>1 DEF CallComplete, BucketComplete
    <3>3. call' = [call EXCEPT ![c] = moved(next, received(dp, bucket[oid]))]
      BY <1>1, <2>2, MovedCall
    <3>. HIDE DEF moved
    <3>. QED
      BY <2>1, <3>2, <3>3, CallStepComplete
  <2>3. CASE Moves(c, next, dp)
    <3>1. CallComplete(moved(next, dp))
      BY <1>2, <1>4 DEF CallComplete
    <3>2. call' = [call EXCEPT ![c] = moved(next, dp)]
      BY <1>1, <2>3, MovedCall
    <3>. HIDE DEF moved
    <3>. QED
      BY <2>1, <3>1, <3>2, CallStepComplete
  <2>. QED
    BY <1>4, <2>2, <2>3 DEF Answers
<1>5. CASE GetObject(c)
  <2>1. k.op # "setattrs"
    BY <1>2, <1>5 DEF GetObject, At, CallOK, StepOf
  <2>. QED
    BY <1>4, <1>5, <2>1, DiesComplete DEF GetObject, NoDetails
<1>6. CASE HeadObject(c)
  <2>1. k.op = "setattrs" => dp = AllocatedPointer
    BY <1>2, <1>6 DEF HeadObject, At, CallComplete
  <2>. QED
    BY <1>4, <1>6, <2>1, DiesComplete DEF HeadObject, NoDetails
<1>7. CASE CopyObject(c)
  <2>1. CASE Dies
    BY <2>1, DiesComplete
  <2>. DEFINE meta == refill_metadata(k.attrs, dp.meta)
  <2>2. CASE /\ ~refill_dies(k.attrs, dp)
             /\ Copies(oid, meta)
             /\ call' = [call EXCEPT ![c] = Idle]
    <3>1. k.op = "setattrs" /\ k.step = "copy"
      BY <1>2, <1>7 DEF CopyObject, At, CallOK, StepOf, Operation
    <3>2. DOMAIN meta = MetadataName \/ oid \in ForeignKeys
      <4>1. DOMAIN meta = DOMAIN dp.meta
        BY DEF refill_metadata
      <4>2. dp # AllocatedPointer
        <5>1. Refilled(k.attrs) # {}
          BY <1>2, <3>1 DEF CallComplete
        <5>. QED
          BY <2>2, <5>1 DEF refill_dies, AllocatedPointer, Nothing, METADATACOUNT
      <4>. HIDE DEF meta
      <4>. QED
        BY <1>2, <3>1, <4>1, <4>2 DEF CallComplete
    <3>. HIDE DEF meta
    <3>3. BucketComplete'
      BY <1>1, <2>2, <3>2, StoredComplete DEF Copies, BucketComplete
    <3>. QED
      BY <2>2, <3>3 DEF CompleteInv, Busy, TypeOK
  <2>. QED
    BY <1>7, <2>1, <2>2 DEF CopyObject
<1>8. CASE Return(c)
  BY <1>8, DiesComplete DEF Return, CompleteInv, BucketComplete, Busy, TypeOK
<1>. QED
  BY <1>3, <1>5, <1>6, <1>7, <1>8 DEF Continues

LEMMA CompleteInvariant ==
  ASSUME \A attrs \in SetAttrs : Refilled(attrs) # {}
  PROVE  Spec => []CompleteInv
<1>1. Init => CompleteInv
  BY DEF Init, CompleteInv, TypeOK, BucketComplete, Nothing, Busy
<1>2. CompleteInv /\ TypeOK' /\ [Next]_vars => CompleteInv'
  <2>. SUFFICES ASSUME CompleteInv, TypeOK', [Next]_vars PROVE CompleteInv'
    OBVIOUS
  <2>1. CASE UNCHANGED vars
    BY <2>1 DEF vars, CompleteInv, BucketComplete, Busy, CallComplete
  <2>2. CASE CreateExport
    BY <2>2, StoredComplete, NewMetadataComplete DEF CreateExport, CompleteInv, Busy, CallComplete
  <2>3. ASSUME NEW oid \in ForeignKeys, NEW meta \in ForeignMeta, ForeignPut(oid, meta)
        PROVE  CompleteInv'
    BY <2>3, StoredComplete DEF ForeignPut, CompleteInv, Busy, CallComplete
  <2>4. CASE Restart
    BY <2>4 DEF Restart, CompleteInv, BucketComplete, Busy, CallComplete
  <2>. QED
    BY <2>1, <2>2, <2>3, <2>4, StartsComplete, ContinuesComplete DEF Next
<1>. QED
  BY <1>1, <1>2, TypeCorrect, PTL DEF Spec

\* An object that no other program writes is complete, whatever requests fail
\* and however calls interleave, if every setattrs has something to refill.
THEOREM ObjectsStayComplete ==
  ASSUME \A attrs \in SetAttrs : Refilled(attrs) # {}
  PROVE  Spec => []BucketComplete
<1>1. CompleteInv => BucketComplete
  BY DEF CompleteInv
<1>. QED
  BY <1>1, CompleteInvariant, PTL

-----------------------------------------------------------------------------
(***************************************************************************)
(* Handles stand for objects.  A call that is about to return a handle has *)
(* stored or seen its object, or dies of the empty array a failed lookup   *)
(* leaves; and no object ever leaves the bucket.                           *)
(***************************************************************************)
CallBacked(k, objects) ==
  /\ k.op \in {"create", "makedir"} /\ k.step \in {"head", "fill"} => k.oid \in objects
  /\ k.step = "get" => k.dp = AllocatedPointer
  /\ k.op \in {"lookup", "lookup_path"} /\ k.step = "fill" =>
       k.oid \in objects \/ fill_dies(k.dp)

BackedInv ==
  /\ TypeOK
  /\ HandlesBacked
  /\ \A c \in Callers : Busy(c) => CallBacked(call[c], DOMAIN bucket)

\* Nothing is ever deleted from the bucket.
LEMMA BucketGrows ==
  ASSUME [Next]_vars
  PROVE  DOMAIN bucket \subseteq DOMAIN bucket'
<1>1. \A oid, meta : bucket' = Stored(oid, meta) => DOMAIN bucket \subseteq DOMAIN bucket'
  BY DEF Stored
<1>. USE <1>1
<1>2. CASE UNCHANGED bucket
  BY <1>2
<1>3. ASSUME NEW c \in Callers, Starts(c)
      PROVE  UNCHANGED bucket
  BY <1>3 DEF Starts, LookupPath, Lookup, Create, Makedir, UnsupportedType, Getattrs,
              Setattrs, Begin, Dies
<1>4. ASSUME NEW c \in Callers, Continues(c)
      PROVE  UNCHANGED bucket \/ \E oid, meta : bucket' = Stored(oid, meta)
  BY <1>4 DEF Continues, PutObject, GetObject, HeadObject, CopyObject, Return, Answers,
              Copies, NoDetails, Dies
<1>. QED
  BY <1>2, <1>3, <1>4 DEF Next, CreateExport, ForeignPut, Restart, vars

\* A call that changes while no handle is added.
LEMMA CallStepBacked ==
  ASSUME BackedInv, TypeOK', NEW c \in Callers, NEW k, CallBacked(k, DOMAIN bucket'),
         call' = [call EXCEPT ![c] = k],
         DOMAIN bucket \subseteq DOMAIN bucket', handles' = handles
  PROVE  BackedInv'
BY DEF BackedInv, TypeOK, HandlesBacked, CallBacked, Busy

LEMMA DiesBacked ==
  ASSUME BackedInv, TypeOK', Dies
  PROVE  BackedInv'
BY DEF BackedInv, Dies, HandlesBacked, Nothing, Busy

LEMMA StartsBacked ==
  ASSUME BackedInv, TypeOK', NEW c \in Callers, Starts(c)
  PROVE  BackedInv'
<1>1. ASSUME NEW op, NEW step, NEW oid, NEW via, NEW attrs, NEW dp,
             step = "get" => dp = AllocatedPointer,
             \/ step = "get"
             \/ step = "put"
             \/ op \in {"getattrs", "setattrs"},
             Begin(c, op, step, oid, via, attrs, dp)
      PROVE  BackedInv'
  <2>. DEFINE k == [op |-> op, step |-> step, oid |-> oid, via |-> via, attrs |-> attrs, dp |-> dp]
  <2>1. CallBacked(k, DOMAIN bucket')
    BY <1>1 DEF CallBacked
  <2>2. call' = [call EXCEPT ![c] = k] /\ UNCHANGED <<bucket, handles>>
    BY <1>1 DEF Begin
  <2>. HIDE DEF k
  <2>. QED
    BY <2>1, <2>2, CallStepBacked
<1>2. CASE LookupPath(c)
  BY <1>1, <1>2 DEF LookupPath
<1>3. ASSUME NEW parent, NEW name, Lookup(c, parent, name)
      PROVE  BackedInv'
  BY <1>1, <1>3 DEF Lookup
<1>4. ASSUME NEW parent, NEW name, NEW attrs, Create(c, parent, name, attrs)
      PROVE  BackedInv'
  BY <1>1, <1>4 DEF Create
<1>5. ASSUME NEW parent, NEW name, NEW attrs, Makedir(c, parent, name, attrs)
      PROVE  BackedInv'
  BY <1>1, <1>5 DEF Makedir
<1>6. ASSUME NEW parent, NEW attrs, UnsupportedType(c, parent, attrs)
      PROVE  BackedInv'
  BY <1>6, DiesBacked DEF UnsupportedType
<1>7. ASSUME NEW oid, Getattrs(c, oid)
      PROVE  BackedInv'
  BY <1>1, <1>7 DEF Getattrs
<1>8. ASSUME NEW oid, NEW attrs, Setattrs(c, oid, attrs)
      PROVE  BackedInv'
  BY <1>1, <1>8 DEF Setattrs
<1>. QED
  BY <1>2, <1>3, <1>4, <1>5, <1>6, <1>7, <1>8 DEF Starts

LEMMA ContinuesBacked ==
  ASSUME BackedInv, TypeOK', NEW c \in Callers, Continues(c), "refused" \notin Faults,
         DOMAIN bucket \subseteq DOMAIN bucket'
  PROVE  BackedInv'
<1>. DEFINE k   == call[c]
            oid == k.oid
            dp  == k.dp
            moved(step, ptr) == [op |-> k.op, step |-> step, oid |-> oid, via |-> k.via,
                                 attrs |-> k.attrs, dp |-> ptr]
<1>1. Busy(c) /\ TypeOK
  BY DEF BackedInv, Continues, PutObject, GetObject, HeadObject, CopyObject, Return, At
<1>2. CallBacked(k, DOMAIN bucket) /\ CallOK(k)
  BY <1>1 DEF BackedInv, TypeOK
<1>3. ASSUME NEW step, NEW ptr, Moves(c, step, ptr), CallBacked(moved(step, ptr), DOMAIN bucket')
      PROVE  BackedInv'
  <2>1. call' = [call EXCEPT ![c] = moved(step, ptr)] /\ handles' = handles
    BY <1>1, <1>3, MovedCall DEF Moves
  <2>. HIDE DEF moved
  <2>. QED
    BY <1>3, <2>1, CallStepBacked
<1>4. CASE PutObject(c)
  <2>1. CASE Dies
    BY <2>1, DiesBacked
  <2>2. ASSUME NEW ptr, Moves(c, "head", ptr), bucket' = Stored(oid, dp.meta)
        PROVE  BackedInv'
    <3>1. oid \in DOMAIN bucket'
      BY <2>2 DEF Stored
    <3>2. CallBacked(moved("head", ptr), DOMAIN bucket')
      BY <3>1 DEF CallBacked
    <3>. QED
      BY <1>3, <2>2, <3>2
  <2>. QED
    BY <1>4, <2>1, <2>2 DEF PutObject, NoDetails
<1>5. ASSUME NEW next \in {"fill", "copy"}, Answers(c, next),
             \/ k.step = "get"
             \/ k.step = "head" /\ k.op \notin {"lookup", "lookup_path"}
      PROVE  BackedInv'
  <2>1. UNCHANGED bucket
    BY <1>5 DEF Answers
  <2>2. ASSUME NEW ptr, Moves(c, next, ptr), oid \in DOMAIN bucket \/ ptr = dp
        PROVE  BackedInv'
    <3>1. k.step = "get" /\ ptr = dp => fill_dies(ptr)
      BY <1>2 DEF CallBacked, fill_dies, AllocatedPointer, METADATACOUNT
    <3>2. k.step = "get" => k.op \notin {"create", "makedir"}
      BY <1>2 DEF CallOK, StepOf
    <3>3. CallBacked(moved(next, ptr), DOMAIN bucket)
      BY <1>2, <1>5, <2>2, <3>1, <3>2 DEF CallBacked
    <3>4. CallBacked(moved(next, ptr), DOMAIN bucket')
      BY <2>1, <3>3 DEF CallBacked
    <3>. QED
      BY <1>3, <2>2, <3>4
  <2>. QED
    BY <1>5, <2>2 DEF Answers
<1>6. CASE GetObject(c)
  BY <1>5, <1>6, DiesBacked DEF GetObject, NoDetails, At
<1>7. CASE HeadObject(c)
  <2>1. k.op \notin {"lookup", "lookup_path"} /\ k.step = "head"
    BY <1>2, <1>7 DEF HeadObject, At, CallOK, StepOf
  <2>. QED
    BY <1>5, <1>7, <2>1, DiesBacked DEF HeadObject, NoDetails
<1>8. ASSUME call' = [call EXCEPT ![c] = Idle], DOMAIN handles' \subseteq DOMAIN bucket'
      PROVE  BackedInv'
  BY <1>8 DEF BackedInv, HandlesBacked, TypeOK, CallBacked, Busy
<1>9. CASE CopyObject(c)
  BY <1>8, <1>9, DiesBacked DEF CopyObject, BackedInv, HandlesBacked
<1>10. CASE Return(c)
  <2>1. CASE Dies
    BY <2>1, DiesBacked
  <2>2. CASE /\ ~fill_dies(dp)
             /\ handles' = [o \in DOMAIN handles \cup {oid} |->
                              IF o = oid THEN FilledAttrs(c) ELSE handles[o]]
             /\ call' = [call EXCEPT ![c] = Idle]
    <3>1. oid \in DOMAIN bucket
      <4>1. k.step = "fill" /\ k.op # "setattrs"
        BY <1>2, <1>10 DEF Return, At, CallOK, StepOf
      <4>2. CASE k.op = "getattrs"
        BY <1>2, <4>2 DEF CallOK, BackedInv, HandlesBacked
      <4>3. CASE k.op # "getattrs"
        BY <1>2, <2>2, <4>1, <4>3 DEF CallOK, Operation, CallBacked
      <4>. QED
        BY <4>2, <4>3
    <3>. QED
      BY <1>8, <2>2, <3>1 DEF BackedInv, HandlesBacked
  <2>. QED
    BY <1>10, <2>1, <2>2 DEF Return
<1>. QED
  BY <1>4, <1>6, <1>7, <1>9, <1>10 DEF Continues

LEMMA BackedInvariant ==
  ASSUME "refused" \notin Faults
  PROVE  Spec => []BackedInv
<1>1. Init => BackedInv
  BY DEF Init, BackedInv, TypeOK, HandlesBacked, Nothing, Busy
<1>2. BackedInv /\ TypeOK' /\ [Next]_vars => BackedInv'
  <2>. SUFFICES ASSUME BackedInv, TypeOK', [Next]_vars PROVE BackedInv'
    OBVIOUS
  <2>1. DOMAIN bucket \subseteq DOMAIN bucket'
    BY BucketGrows
  <2>2. ASSUME UNCHANGED <<handles, call>>
        PROVE  BackedInv'
    BY <2>1, <2>2 DEF BackedInv, HandlesBacked, Busy, CallBacked
  <2>3. CASE UNCHANGED vars \/ Restart
    BY <2>2, <2>3 DEF vars, Restart
  <2>4. CASE CreateExport \/ \E oid \in ForeignKeys, meta \in ForeignMeta : ForeignPut(oid, meta)
    BY <2>2, <2>4 DEF CreateExport, ForeignPut
  <2>. QED
    BY <2>1, <2>3, <2>4, StartsBacked, ContinuesBacked DEF Next
<1>. QED
  BY <1>1, <1>2, TypeCorrect, PTL DEF Spec

\* A server never holds a handle without an object, if the store refuses no
\* request: lost answers and requests that could not be sent do no harm, and
\* neither do other programs.
THEOREM HandlesStayBacked ==
  ASSUME "refused" \notin Faults
  PROVE  Spec => []HandlesBacked
<1>1. BackedInv => HandlesBacked
  BY DEF BackedInv
<1>. QED
  BY <1>1, BackedInvariant, PTL

-----------------------------------------------------------------------------
(***************************************************************************)
(* What ends in a slash is a directory, where callers of mkdir and of      *)
(* setattrs and other programs do not say otherwise.                       *)
(***************************************************************************)
TypesKept ==
  /\ \A attrs \in MakedirAttrs : FILETYPE \in DOMAIN attrs => attrs[FILETYPE] # "REGULAR_FILE"
  /\ \A attrs \in SetAttrs : FILETYPE \notin DOMAIN attrs
  /\ ForeignKeys # {} => \A meta \in ForeignMeta : FILETYPE \notin DOMAIN meta

IsOfKind(isDirectory, oid) == EndsInSlash(oid) => isDirectory

MetaKind(meta, oid) == FILETYPE \in DOMAIN meta => IsOfKind(meta[FILETYPE] = DIRECTORY_T, oid)

HandleKind(attrs, oid) == FILETYPE \in DOMAIN attrs => IsOfKind(attrs[FILETYPE] = "DIRECTORY", oid)

CallKind(k) ==
  /\ MetaKind(k.dp.meta, k.oid)
  /\ k.op = "setattrs" => k.attrs \in SetAttrs

KindInv ==
  /\ TypeOK
  /\ \A o \in DOMAIN bucket : MetaKind(bucket[o], o)
  /\ \A o \in DOMAIN handles : HandleKind(handles[o], o)
  /\ \A c \in Callers : Busy(c) => CallKind(call[c])

\* A name has no slash, so a file's id does not end in one; a directory's does.
LEMMA KeyKinds ==
  ASSUME NEW parent \in Oid, NEW name \in Names
  PROVE  /\ ~EndsInSlash(file_key(parent, name))
         /\ EndsInSlash(dir_key(parent, name))
<1>1. name \in Seq(Letters) /\ name # <<>> /\ Slash \notin Letters
  BY NamesAssumption
<1>2. Len(name) \in Nat \ {0} /\ name[Len(name)] \in Letters
  BY <1>1, LenProperties, EmptySeq, ElementOfSeq
<1>3. name \in Oid /\ <<Slash>> \in Oid
  BY <1>1, SeqMonotonic DEF Oid, Token
<1>4. parent \o name \in Oid /\ Len(parent \o name) = Len(parent) + Len(name)
      /\ (parent \o name)[Len(parent) + Len(name)] = name[Len(name)]
  BY <1>2, <1>3, ConcatProperties, LenProperties DEF Oid
<1>5. ~EndsInSlash(file_key(parent, name))
  BY <1>1, <1>2, <1>4 DEF EndsInSlash, file_key
<1>6. EndsInSlash(dir_key(parent, name))
  <2>. DEFINE prefix == parent \o name
  <2>1. prefix \in Oid /\ Len(prefix) \in Nat
    BY <1>4, LenProperties DEF Oid
  <2>. HIDE DEF prefix
  <2>2. Len(prefix \o <<Slash>>) = Len(prefix) + 1
        /\ (prefix \o <<Slash>>)[Len(prefix) + 1] = Slash
        /\ prefix \o <<Slash>> \in Oid
    BY <1>3, <2>1, ConcatProperties, LenProperties DEF Oid
  <2>3. prefix \o <<Slash>> # <<>>
    BY <2>1, <2>2
  <2>. QED
    BY <2>2, <2>3 DEF EndsInSlash, dir_key, prefix
<1>. QED
  BY <1>5, <1>6

\* The metadata create and mkdir put, where refilling did not end the process.
LEMMA NewKinds ==
  ASSUME NEW oid, NEW attrs, ~unsupported_type(attrs)
  PROVE  /\ (FILETYPE \in DOMAIN attrs => attrs[FILETYPE] # "REGULAR_FILE")
              => new_metadata(oid, attrs)[FILETYPE] = DIRECTORY_T
         /\ default_metadata(DIRECTORY_T, oid)[FILETYPE] = DIRECTORY_T
<1>. USE DEF FILETYPE, DIRECTORY_T, REGULARFILE_T, METADATACOUNT, MetadataName, FSID, NUMLINKS
<1>1. default_metadata(DIRECTORY_T, oid)[FILETYPE] = DIRECTORY_T
  BY DEF default_metadata, FILEID, MODE, OWNER, GROUP
<1>2. FILETYPE \in DOMAIN default_metadata(DIRECTORY_T, oid)
  BY NewMetadataComplete
<1>3. new_metadata(oid, attrs)[FILETYPE] =
        IF FILETYPE \in DOMAIN attrs THEN StoredValue(FILETYPE, attrs[FILETYPE]) ELSE DIRECTORY_T
  BY <1>1, <1>2 DEF new_metadata, refill_metadata, Refilled
<1>4. FILETYPE \in DOMAIN attrs => attrs[FILETYPE] \in {"DIRECTORY", "REGULAR_FILE"}
  BY DEF unsupported_type
<1>5. StoredValue(FILETYPE, "DIRECTORY") = DIRECTORY_T /\ StoredValue(FILETYPE, "REGULAR_FILE") = REGULARFILE_T
  BY DEF StoredValue
<1>. QED
  BY <1>1, <1>3, <1>4, <1>5

\* An answer, and filling a handle, keep the kind.
LEMMA ReceivedKind ==
  ASSUME NEW dp, NEW headers, NEW oid, MetaKind(dp.meta, oid), MetaKind(headers, oid)
  PROVE  MetaKind(received(dp, headers).meta, oid)
BY DEF MetaKind, received

LEMMA FilledKind ==
  ASSUME NEW meta, NEW old, NEW oid, MetaKind(meta, oid), HandleKind(old, oid)
  PROVE  HandleKind(fill_attrlist(meta, old), oid)
<1>. USE DEF FILETYPE, SPACEUSED, CHGTIME, MTIME
<1>. DEFINE filled == fill_attrlist(meta, old)
<1>1. CASE FILETYPE \in DOMAIN meta
  <2>1. filled[FILETYPE] = ReportedValue(FILETYPE, meta[FILETYPE])
    BY <1>1 DEF fill_attrlist
  <2>2. ReportedValue(FILETYPE, meta[FILETYPE]) =
          IF meta[FILETYPE] = DIRECTORY_T THEN "DIRECTORY" ELSE "REGULAR_FILE"
    BY DEF ReportedValue, FSID, FILEID
  <2>. QED
    BY <1>1, <2>1, <2>2 DEF HandleKind, MetaKind
<1>2. CASE FILETYPE \notin DOMAIN meta
  <2>1. FILETYPE \in DOMAIN filled => FILETYPE \in DOMAIN old /\ filled[FILETYPE] = old[FILETYPE]
    BY <1>2 DEF fill_attrlist
  <2>. QED
    BY <2>1 DEF HandleKind
<1>. QED
  BY <1>1, <1>2

LEMMA StoredKind ==
  ASSUME KindInv, NEW oid, NEW meta, MetaKind(meta, oid), bucket' = Stored(oid, meta)
  PROVE  \A o \in DOMAIN bucket' : MetaKind(bucket'[o], o)
BY DEF KindInv, Stored

\* A call that changes, with a bucket of the right kind, while no handle does.
LEMMA CallStepKind ==
  ASSUME KindInv, TypeOK', NEW c \in Callers, NEW k, CallKind(k),
         call' = [call EXCEPT ![c] = k], handles' = handles,
         \A o \in DOMAIN bucket' : MetaKind(bucket'[o], o)
  PROVE  KindInv'
BY DEF KindInv, TypeOK, Busy

LEMMA DiesKind ==
  ASSUME KindInv, TypeOK', Dies
  PROVE  KindInv'
BY DEF KindInv, Dies, Nothing, Busy

LEMMA StartsKind ==
  ASSUME KindInv, TypeOK', NEW c \in Callers, Starts(c), TypesKept
  PROVE  KindInv'
<1>0. TypeOK /\ \A o \in DOMAIN handles : o \in Oid
  BY DEF KindInv, TypeOK
<1>1. ASSUME NEW op, NEW step, NEW oid, NEW via, NEW attrs, NEW dp,
             MetaKind(dp.meta, oid), op = "setattrs" => attrs \in SetAttrs,
             Begin(c, op, step, oid, via, attrs, dp)
      PROVE  KindInv'
  <2>. DEFINE k == [op |-> op, step |-> step, oid |-> oid, via |-> via, attrs |-> attrs, dp |-> dp]
  <2>1. CallKind(k)
    BY <1>1 DEF CallKind
  <2>2. call' = [call EXCEPT ![c] = k] /\ UNCHANGED <<bucket, handles>>
    BY <1>1 DEF Begin
  <2>3. \A o \in DOMAIN bucket' : MetaKind(bucket'[o], o)
    BY <2>2 DEF KindInv
  <2>. HIDE DEF k
  <2>. QED
    BY <2>1, <2>2, <2>3, CallStepKind
<1>2. \A oid : MetaKind(AllocatedPointer.meta, oid)
  BY DEF MetaKind, AllocatedPointer, Nothing
<1>3. CASE LookupPath(c)
  BY <1>1, <1>2, <1>3 DEF LookupPath
<1>4. ASSUME NEW parent, NEW name, Lookup(c, parent, name)
      PROVE  KindInv'
  BY <1>1, <1>2, <1>4 DEF Lookup
<1>5. ASSUME NEW parent \in DOMAIN handles, NEW name \in Names, NEW attrs \in CreateAttrs,
             Create(c, parent, name, attrs)
      PROVE  KindInv'
  <2>. DEFINE oid == file_key(parent, name)
              dp  == DefaultPointer(new_metadata(oid, attrs))
  <2>1. ~unsupported_type(attrs) /\ Begin(c, "create", "put", oid, <<parent, name>>, attrs, dp)
    BY <1>5 DEF Create, refill_dies
  <2>2. MetaKind(dp.meta, oid)
    BY <1>0, <2>1, KeyKinds, NewKinds DEF MetaKind, IsOfKind, DefaultPointer, TypesKept
  <2>. QED
    BY <1>1, <2>1, <2>2
<1>6. ASSUME NEW parent \in DOMAIN handles, NEW name \in Names, NEW attrs \in MakedirAttrs,
             Makedir(c, parent, name, attrs)
      PROVE  KindInv'
  <2>. DEFINE oid == dir_key(parent, name)
              dp  == DefaultPointer(new_metadata(oid, attrs))
  <2>1. ~unsupported_type(attrs) /\ Begin(c, "makedir", "put", oid, <<parent, name>>, attrs, dp)
    BY <1>6 DEF Makedir, refill_dies
  <2>2. MetaKind(dp.meta, oid)
    BY <1>0, <2>1, KeyKinds, NewKinds DEF MetaKind, IsOfKind, DefaultPointer, TypesKept
  <2>. QED
    BY <1>1, <2>1, <2>2
<1>7. ASSUME NEW parent, NEW attrs, UnsupportedType(c, parent, attrs)
      PROVE  KindInv'
  BY <1>7, DiesKind DEF UnsupportedType
<1>8. ASSUME NEW oid, Getattrs(c, oid)
      PROVE  KindInv'
  BY <1>1, <1>2, <1>8 DEF Getattrs
<1>9. ASSUME NEW oid, NEW attrs \in SetAttrs, Setattrs(c, oid, attrs)
      PROVE  KindInv'
  BY <1>1, <1>2, <1>9 DEF Setattrs
<1>. QED
  BY <1>3, <1>4, <1>5, <1>6, <1>7, <1>8, <1>9 DEF Starts

LEMMA ContinuesKind ==
  ASSUME KindInv, TypeOK', NEW c \in Callers, Continues(c), TypesKept
  PROVE  KindInv'
<1>. DEFINE k   == call[c]
            oid == k.oid
            dp  == k.dp
<1>1. Busy(c) /\ TypeOK /\ \A o \in DOMAIN bucket : MetaKind(bucket[o], o)
  BY DEF KindInv, Continues, PutObject, GetObject, HeadObject, CopyObject, Return, At
<1>2. CallKind(k) /\ CallOK(k)
  BY <1>1 DEF KindInv, TypeOK
<1>3. ASSUME NEW step, NEW ptr, Moves(c, step, ptr), MetaKind(ptr.meta, oid),
             \A o \in DOMAIN bucket' : MetaKind(bucket'[o], o)
      PROVE  KindInv'
  <2>. DEFINE moved == [op |-> k.op, step |-> step, oid |-> oid, via |-> k.via,
                        attrs |-> k.attrs, dp |-> ptr]
  <2>1. call' = [call EXCEPT ![c] = moved] /\ handles' = handles
    BY <1>1, <1>3, MovedCall DEF Moves
  <2>2. CallKind(moved)
    BY <1>2, <1>3 DEF CallKind
  <2>. HIDE DEF moved
  <2>. QED
    BY <1>3, <2>1, <2>2, CallStepKind
<1>4. CASE PutObject(c)
  <2>1. MetaKind(received(dp, Nothing).meta, oid)
    BY <1>2, ReceivedKind DEF CallKind, MetaKind, Nothing
  <2>2. bucket' = Stored(oid, dp.meta) \/ UNCHANGED bucket
        => \A o \in DOMAIN bucket' : MetaKind(bucket'[o], o)
    BY <1>1, <1>2, StoredKind DEF CallKind
  <2>. QED
    BY <1>2, <1>3, <1>4, <2>1, <2>2, DiesKind DEF PutObject, NoDetails, CallKind
<1>5. ASSUME NEW next, Answers(c, next)
      PROVE  KindInv'
  <2>1. \A o \in DOMAIN bucket' : MetaKind(bucket'[o], o)
    BY <1>1, <1>5 DEF Answers
  <2>2. oid \in DOMAIN bucket => MetaKind(received(dp, bucket[oid]).meta, oid)
    BY <1>1, <1>2, ReceivedKind DEF CallKind
  <2>. QED
    BY <1>2, <1>3, <1>5, <2>1, <2>2 DEF Answers, CallKind
<1>6. CASE GetObject(c) \/ HeadObject(c)
  BY <1>5, <1>6, DiesKind DEF GetObject, HeadObject, NoDetails
<1>7. CASE CopyObject(c)
  <2>. DEFINE meta == refill_metadata(k.attrs, dp.meta)
  <2>1. CASE Dies
    BY <2>1, DiesKind
  <2>2. CASE /\ Copies(oid, meta)
             /\ call' = [call EXCEPT ![c] = Idle]
             /\ UNCHANGED handles
    <3>1. k.attrs \in SetAttrs
      BY <1>2, <1>7 DEF CopyObject, At, CallOK, CallKind, StepOf, Operation
    <3>2. MetaKind(meta, oid)
      BY <1>2, <3>1 DEF CallKind, MetaKind, refill_metadata, Refilled, TypesKept
    <3>. HIDE DEF meta
    <3>3. \A o \in DOMAIN bucket' : MetaKind(bucket'[o], o)
      BY <1>1, <2>2, <3>2, StoredKind DEF Copies
    <3>. QED
      BY <1>1, <2>2, <3>3 DEF KindInv, TypeOK, Busy
  <2>. QED
    BY <1>7, <2>1, <2>2 DEF CopyObject
<1>8. CASE Return(c)
  <2>1. CASE Dies
    BY <2>1, DiesKind
  <2>2. CASE /\ handles' = [o \in DOMAIN handles \cup {oid} |->
                              IF o = oid THEN FilledAttrs(c) ELSE handles[o]]
             /\ call' = [call EXCEPT ![c] = Idle]
             /\ UNCHANGED <<bucket, alive>>
    <3>1. HandleKind(FilledAttrs(c), oid)
      <4>. DEFINE old == IF k.op = "getattrs" THEN handles[oid] ELSE Nothing
      <4>1. HandleKind(old, oid)
        BY <1>2 DEF KindInv, CallOK, HandleKind, Nothing
      <4>. QED
        BY <1>2, <4>1, FilledKind DEF FilledAttrs, CallKind
    <3>. QED
      BY <1>1, <2>2, <3>1 DEF KindInv, TypeOK, Busy
  <2>. QED
    BY <1>8, <2>1, <2>2 DEF Return
<1>. QED
  BY <1>4, <1>6, <1>7, <1>8 DEF Continues

LEMMA KindInvariant ==
  ASSUME TypesKept
  PROVE  Spec => []KindInv
<1>1. Init => KindInv
  BY DEF Init, KindInv, TypeOK, Nothing, Busy
<1>2. KindInv /\ TypeOK' /\ [Next]_vars => KindInv'
  <2>. SUFFICES ASSUME KindInv, TypeOK', [Next]_vars PROVE KindInv'
    OBVIOUS
  <2>1. CASE UNCHANGED vars \/ Restart
    BY <2>1 DEF vars, Restart, KindInv, Busy
  <2>2. CASE CreateExport
    <3>1. MetaKind(default_metadata(DIRECTORY_T, ROOTOID), ROOTOID)
      <4>1. EndsInSlash(ROOTOID)
        BY DEF EndsInSlash, ROOTOID
      <4>2. ~unsupported_type(Nothing)
        BY DEF unsupported_type, Nothing
      <4>. QED
        BY <4>1, <4>2, NewKinds DEF MetaKind, IsOfKind
    <3>. QED
      BY <2>2, <3>1, StoredKind DEF CreateExport, KindInv, Busy
  <2>3. ASSUME NEW oid \in ForeignKeys, NEW meta \in ForeignMeta, ForeignPut(oid, meta)
        PROVE  KindInv'
    <3>1. MetaKind(meta, oid)
      BY DEF TypesKept, MetaKind
    <3>. QED
      BY <2>3, <3>1, StoredKind DEF ForeignPut, KindInv, Busy
  <2>. QED
    BY <2>1, <2>2, <2>3, StartsKind, ContinuesKind DEF Next
<1>. QED
  BY <1>1, <1>2, TypeCorrect, PTL DEF Spec

\* What has an id that ends in a slash is a directory, whatever types callers pass to
\* create or leave to its default (cloud_create, cloud_makedir, create_export).
THEOREM DirectoriesStayTyped ==
  ASSUME TypesKept
  PROVE  Spec => []DirectoriesTyped
<1>1. KindInv => DirectoriesTyped
  BY DEF KindInv, DirectoriesTyped, MetaKind, HandleKind, IsOfKind
<1>. QED
  BY <1>1, KindInvariant, PTL

-----------------------------------------------------------------------------
(***************************************************************************)
(* The process outlives every operation but a lookup, while the store      *)
(* answers GETs and HEADs and no other program writes: the arrays of       *)
(* running calls are full by the time somebody reads all of their slots.   *)
(***************************************************************************)
Undisturbed ==
  /\ Faults \subseteq {"lost_put"}
  /\ ForeignKeys = {}
  /\ \A attrs \in SetAttrs : Refilled(attrs) # {} /\ ~unsupported_type(attrs)

CallFull(k) ==
  /\ k.op \in {"create", "makedir"} => k.dp.filled = METADATACOUNT
  /\ k.op = "getattrs" /\ k.step = "fill" => k.dp.filled = METADATACOUNT
  /\ k.step = "copy" => /\ k.dp.filled = METADATACOUNT
                        /\ k.dp.count = METADATACOUNT
                        /\ DOMAIN k.dp.meta = MetadataName
  /\ k.step = "head" /\ k.op \in {"getattrs", "setattrs"} => k.dp = AllocatedPointer

FullInv == \A c \in Callers : Busy(c) => CallFull(call[c])

\* The headers of a complete object fill all slots; those of a PUT fill none.
LEMMA ReceivedFull ==
  ASSUME NEW dp, NEW headers
  PROVE  /\ DOMAIN headers = MetadataName /\ dp.filled \in {0, METADATACOUNT} =>
              /\ received(dp, headers).filled = METADATACOUNT
              /\ received(dp, headers).count = METADATACOUNT
         /\ DOMAIN headers = MetadataName /\ dp.meta = Nothing =>
              DOMAIN received(dp, headers).meta = MetadataName
         /\ dp.filled = METADATACOUNT => received(dp, Nothing).filled = METADATACOUNT
<1>1. Cardinality(MetadataName) = METADATACOUNT
  <2>1. MetadataName = 0 .. 12 /\ METADATACOUNT = 13
    BY DEF MetadataName, METADATACOUNT
  <2>2. Cardinality(0 .. 12) = IF 0 > 12 THEN 0 ELSE 12 - 0 + 1
    <3>1. 0 \in Int /\ 12 \in Int
      OBVIOUS
    <3>. QED
      BY <3>1, FS_Interval, Zenon
  <2>3. Cardinality(0 .. 12) = 13
    BY <2>2
  <2>. QED
    BY <2>1, <2>3
<1>2. Cardinality(DOMAIN Nothing) = 0
  BY FS_EmptySet DEF Nothing
<1>3. METADATACOUNT = 13
  BY DEF METADATACOUNT
<1>. QED
  BY <1>1, <1>2, <1>3 DEF received, Nothing

LEMMA CallStepFull ==
  ASSUME TypeOK, FullInv, NEW c \in Callers, NEW k, CallFull(k),
         call' = [call EXCEPT ![c] = k]
  PROVE  FullInv'
BY DEF TypeOK, FullInv, Busy

LEMMA StartsFull ==
  ASSUME TypeOK, FullInv, NEW c \in Callers, Starts(c)
  PROVE  FullInv'
<1>1. ASSUME NEW op, NEW step, NEW oid, NEW via, NEW attrs, NEW dp,
             step \in {"get", "put", "head"},
             op \in {"create", "makedir"} => dp.filled = METADATACOUNT,
             op \in {"getattrs", "setattrs"} => dp = AllocatedPointer,
             Begin(c, op, step, oid, via, attrs, dp)
      PROVE  FullInv'
  <2>. DEFINE k == [op |-> op, step |-> step, oid |-> oid, via |-> via, attrs |-> attrs, dp |-> dp]
  <2>1. CallFull(k)
    BY <1>1 DEF CallFull
  <2>2. call' = [call EXCEPT ![c] = k]
    BY <1>1 DEF Begin
  <2>. HIDE DEF k
  <2>. QED
    BY <2>1, <2>2, CallStepFull
<1>2. \A meta : DefaultPointer(meta).filled = METADATACOUNT
  BY DEF DefaultPointer
<1>3. CASE LookupPath(c)
  BY <1>1, <1>3 DEF LookupPath
<1>4. ASSUME NEW parent, NEW name, Lookup(c, parent, name)
      PROVE  FullInv'
  BY <1>1, <1>4 DEF Lookup
<1>5. ASSUME NEW parent, NEW name, NEW attrs, Create(c, parent, name, attrs)
      PROVE  FullInv'
  BY <1>1, <1>2, <1>5 DEF Create
<1>6. ASSUME NEW parent, NEW name, NEW attrs, Makedir(c, parent, name, attrs)
      PROVE  FullInv'
  BY <1>1, <1>2, <1>6 DEF Makedir
<1>7. ASSUME NEW parent, NEW attrs, UnsupportedType(c, parent, attrs)
      PROVE  FullInv'
  BY <1>7 DEF UnsupportedType, Dies, FullInv, Busy
<1>8. ASSUME NEW oid, Getattrs(c, oid)
      PROVE  FullInv'
  BY <1>1, <1>8 DEF Getattrs
<1>9. ASSUME NEW oid, NEW attrs, Setattrs(c, oid, attrs)
      PROVE  FullInv'
  BY <1>1, <1>9 DEF Setattrs
<1>. QED
  BY <1>3, <1>4, <1>5, <1>6, <1>7, <1>8, <1>9 DEF Starts

LEMMA ContinuesFull ==
  ASSUME CompleteInv, BackedInv, FullInv, NEW c \in Callers, Continues(c), Undisturbed
  PROVE  FullInv'
<1>. DEFINE k   == call[c]
            oid == k.oid
            dp  == k.dp
<1>1. Busy(c) /\ TypeOK
  BY DEF BackedInv, Continues, PutObject, GetObject, HeadObject, CopyObject, Return, At
<1>2. CallFull(k) /\ CallOK(k) /\ CallBacked(k, DOMAIN bucket)
  BY <1>1 DEF FullInv, BackedInv, TypeOK
<1>3. CASE Dies \/ call' = [call EXCEPT ![c] = Idle]
  BY <1>1, <1>3 DEF Dies, FullInv, Busy, TypeOK
<1>4. ASSUME NEW step, NEW ptr, Moves(c, step, ptr),
             CallFull([op |-> k.op, step |-> step, oid |-> oid, via |-> k.via,
                       attrs |-> k.attrs, dp |-> ptr])
      PROVE  FullInv'
  BY <1>1, <1>4, MovedCall, CallStepFull
<1>5. CASE PutObject(c)
  <2>1. k.op \in {"create", "makedir"}
    BY <1>2, <1>5 DEF PutObject, At, CallOK, StepOf, Operation
  <2>2. Moves(c, "head", received(dp, Nothing)) \/ Moves(c, "head", dp) \/ Dies
    BY <1>5 DEF PutObject, NoDetails
  <2>3. received(dp, Nothing).filled = METADATACOUNT
    BY <1>2, <2>1, ReceivedFull DEF CallFull
  <2>. QED
    BY <1>2, <1>3, <1>4, <2>1, <2>2, <2>3 DEF CallFull
<1>6. CASE GetObject(c)
  <2>1. k.op \in {"lookup", "lookup_path"}
    BY <1>2, <1>6 DEF GetObject, At, CallOK, StepOf, Operation
  <2>2. (\E ptr : Moves(c, "fill", ptr)) \/ Dies
    BY <1>6 DEF GetObject, Answers, NoDetails
  <2>. QED
    BY <1>3, <1>4, <2>1, <2>2 DEF CallFull
<1>7. CASE HeadObject(c)
  <2>. DEFINE next == IF k.op = "setattrs" THEN "copy" ELSE "fill"
              ptr  == received(dp, bucket[oid])
  <2>1. k.step = "head" /\ k.op \in {"create", "makedir", "getattrs", "setattrs"}
    BY <1>2, <1>7 DEF HeadObject, At, CallOK, StepOf, Operation
  <2>2. oid \in DOMAIN bucket /\ DOMAIN bucket[oid] = MetadataName
    BY <1>2, <2>1 DEF CallBacked, CallOK, BackedInv, HandlesBacked, CompleteInv, BucketComplete, Undisturbed
  <2>3. Moves(c, next, ptr)
    BY <1>7, <2>2 DEF HeadObject, Answers, NoDetails, Undisturbed
  <2>4. /\ dp.filled \in {0, METADATACOUNT}
        /\ k.op = "setattrs" => dp.meta = Nothing
    BY <1>2, <2>1 DEF CallFull, AllocatedPointer
  <2>5. /\ ptr.filled = METADATACOUNT
        /\ ptr.count = METADATACOUNT
        /\ k.op = "setattrs" => DOMAIN ptr.meta = MetadataName
    BY <2>2, <2>4, ReceivedFull
  <2>. HIDE DEF ptr
  <2>. QED
    BY <1>4, <2>1, <2>3, <2>5 DEF CallFull
<1>8. CASE CopyObject(c) \/ Return(c)
  BY <1>3, <1>8 DEF CopyObject, Return
<1>. QED
  BY <1>5, <1>6, <1>7, <1>8 DEF Continues

\* Only a lookup ends the process, while the store answers.
THEOREM OperationsSurvive ==
  ASSUME Undisturbed
  PROVE  Spec => OnlyLookupsDie
<1>1. Init => FullInv
  BY DEF Init, FullInv, Busy
<1>2. CompleteInv /\ BackedInv /\ FullInv /\ [Next]_vars => FullInv'
  <2>. SUFFICES ASSUME CompleteInv, BackedInv, FullInv, [Next]_vars PROVE FullInv'
    OBVIOUS
  <2>1. CASE UNCHANGED call
    BY <2>1 DEF FullInv, Busy
  <2>2. TypeOK
    BY DEF BackedInv
  <2>. QED
    BY <2>1, <2>2, StartsFull, ContinuesFull DEF Next, CreateExport, ForeignPut, Restart, vars
<1>3. CompleteInv /\ BackedInv /\ FullInv /\ [Next]_vars =>
        [\A c \in Callers :
           Continues(c) /\ ~alive' => call[c].op \in {"lookup", "lookup_path"}]_vars
  <2>. SUFFICES ASSUME CompleteInv, BackedInv, FullInv, NEW c \in Callers, Continues(c), ~alive'
                PROVE  call[c].op \in {"lookup", "lookup_path"}
    OBVIOUS
  <2>1. Busy(c) /\ alive /\ TypeOK
    BY DEF BackedInv, Continues, PutObject, GetObject, HeadObject, CopyObject, Return, At
  <2>2. CallFull(call[c]) /\ CallOK(call[c]) /\ CallComplete(call[c])
    BY <2>1 DEF FullInv, CompleteInv, TypeOK
  <2>3. ~PutObject(c) /\ ~GetObject(c) /\ ~HeadObject(c)
    BY <2>1 DEF PutObject, GetObject, HeadObject, Answers, NoDetails, Undisturbed, Moves
  <2>4. ~CopyObject(c)
    <3>. SUFFICES ASSUME CopyObject(c) PROVE FALSE
      OBVIOUS
    <3>1. call[c].step = "copy" /\ call[c].op = "setattrs"
      BY <2>2 DEF CopyObject, At, CallOK, StepOf, Operation
    <3>2. call[c].dp.filled = METADATACOUNT /\ call[c].dp.count = METADATACOUNT
      BY <2>2, <3>1 DEF CallFull
    <3>3. ~refill_dies(call[c].attrs, call[c].dp)
      BY <2>2, <3>1, <3>2 DEF refill_dies, CallComplete, Undisturbed, METADATACOUNT
    <3>4. ~(call[c].dp.filled < call[c].dp.count)
      BY <3>2 DEF METADATACOUNT
    <3>. QED
      BY <2>1, <3>3, <3>4 DEF CopyObject
  <2>5. CASE Return(c)
    <3>1. call[c].step = "fill" /\ call[c].dp.filled < METADATACOUNT
      BY <2>1, <2>5 DEF Return, At, fill_dies
    <3>. QED
      BY <2>2, <3>1 DEF CallFull, CallOK, StepOf, Operation, METADATACOUNT
  <2>. QED
    BY <2>3, <2>4, <2>5 DEF Continues
<1>4. /\ \A attrs \in SetAttrs : Refilled(attrs) # {}
      /\ "refused" \notin Faults
  BY DEF Undisturbed
<1>5. Spec => []CompleteInv
  BY <1>4, CompleteInvariant
<1>6. Spec => []BackedInv
  BY <1>4, BackedInvariant
<1>. QED
  BY <1>1, <1>2, <1>3, <1>5, <1>6, PTL DEF Spec, OnlyLookupsDie

-----------------------------------------------------------------------------
(***************************************************************************)
(* From the attributes of a setattrs to those of the next getattrs.        *)
(***************************************************************************)
\* Of a complete array, what _refill_metadata wrote is what _fill_attrlist reports, but
\* for the id of the file, whose digits are read as a number, for the space used, which
\* is the size, and for the time of the last change, which is never reported.
THEOREM SetIsReported ==
  ASSUME NEW attrs, NEW meta, NEW old, DOMAIN meta = MetadataName,
         DOMAIN attrs \subseteq MetadataName, ~unsupported_type(attrs)
  PROVE  LET reported == fill_attrlist(refill_metadata(attrs, meta), old) IN
         /\ \A n \in Refilled(attrs) \ {FILEID, SPACEUSED, CHGTIME} :
              n \in DOMAIN reported /\ reported[n] = attrs[n]
         /\ reported[SPACEUSED] = IF FILESIZE \in DOMAIN attrs THEN attrs[FILESIZE] ELSE meta[FILESIZE]
         /\ CHGTIME \in DOMAIN reported <=> CHGTIME \in DOMAIN old
<1>. DEFINE written  == refill_metadata(attrs, meta)
            reported == fill_attrlist(written, old)
<1>. USE DEF FILETYPE, FILESIZE, FSID, FILEID, NUMLINKS, CHGTIME, MTIME, SPACEUSED
<1>1. /\ DOMAIN written = MetadataName
      /\ \A n \in MetadataName :
           written[n] = IF n \in Refilled(attrs) THEN StoredValue(n, attrs[n]) ELSE meta[n]
  BY DEF refill_metadata
<1>2. {FILETYPE, FILESIZE, FSID, FILEID, NUMLINKS, CHGTIME, MTIME, SPACEUSED} \subseteq MetadataName
  BY DEF MetadataName, METADATACOUNT
<1>. HIDE DEF written
<1>3. DOMAIN reported = DOMAIN old \cup (MetadataName \ {CHGTIME})
  BY <1>1, <1>2 DEF fill_attrlist
<1>4. ASSUME NEW n \in MetadataName \ {SPACEUSED, CHGTIME}
      PROVE  n \in DOMAIN reported /\ reported[n] = ReportedValue(n, written[n])
  BY <1>1, <1>2, <1>4 DEF fill_attrlist
<1>5. reported[SPACEUSED] = written[FILESIZE]
  BY <1>1, <1>2 DEF fill_attrlist
<1>6. ASSUME NEW n \in Refilled(attrs) \ {FILEID, SPACEUSED, CHGTIME}
      PROVE  n \in DOMAIN reported /\ reported[n] = attrs[n]
  <2>1. n \in MetadataName \ {SPACEUSED, CHGTIME} /\ n # FSID /\ n # FILEID
    BY <1>6 DEF Refilled
  <2>2. ReportedValue(n, StoredValue(n, attrs[n])) = attrs[n]
    <3>1. CASE n = FILETYPE
      <4>1. attrs[n] = "DIRECTORY" \/ attrs[n] = "REGULAR_FILE"
        BY <1>6, <3>1 DEF unsupported_type, Refilled
      <4>. QED
        BY <3>1, <4>1 DEF ReportedValue, StoredValue, DIRECTORY_T, REGULARFILE_T
    <3>2. CASE n # FILETYPE
      BY <2>1, <3>2 DEF ReportedValue, StoredValue
    <3>. QED
      BY <3>1, <3>2
  <2>. QED
    BY <1>1, <1>4, <1>6, <2>1, <2>2
<1>7. written[FILESIZE] = IF FILESIZE \in DOMAIN attrs THEN attrs[FILESIZE] ELSE meta[FILESIZE]
  BY <1>1, <1>2 DEF Refilled, StoredValue
<1>8. CHGTIME \in DOMAIN reported <=> CHGTIME \in DOMAIN old
  BY <1>3
<1>. QED
  BY <1>5, <1>6, <1>7, <1>8 DEF written
=============================================================================
