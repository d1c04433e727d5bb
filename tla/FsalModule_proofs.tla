-------------------------- MODULE FsalModule_proofs --------------------------
(***************************************************************************)
(* Proofs about FsalModule, for any number of threads and exports.         *)
(***************************************************************************)
EXTENDS FsalModule, TLAPS

ThreadState ==
  {Idle} \cup [step : {"attach"}, export : Exports]
         \cup [step : {"call", "send", "libs3", "skipped"}, export : Exports, request : Requests]

ModuleState == {"absent", "connected", "registered", "refused", "unregistered", "deinit", "gone"}

ThreadsTyped == thread \in [Threads -> ThreadState] /\ inUse \subseteq Exports

\* What is done by threads of the server is done while the module is registered.
UsedWhenRegistered == Busy # {} \/ inUse # {} => module = "registered"

\* Before the connector stops, it is ready if it was found at all.
ReadyIfFound ==
  /\ module = "absent" => ~cops
  /\ alive /\ module \in {"connected", "registered"} /\ cops
       => libs3 /\ current_state = "INITIALIZED"

\* A request that is on its way went through the table.
SentThroughTable == \A t \in Threads : thread[t].step \in {"send", "libs3"} => cops

NeverSkipped == \A t \in Threads : thread[t].step # "skipped"

ReadyInv == ThreadsTyped /\ UsedWhenRegistered /\ ReadyIfFound /\ SentThroughTable /\ NeverSkipped

-----------------------------------------------------------------------------
LEMMA ReadyInit == ModuleInit => ReadyInv
<1> SUFFICES ASSUME ModuleInit PROVE ReadyInv
  OBVIOUS
<1>1. ThreadsTyped
  BY DEF ModuleInit, ThreadsTyped, ThreadState
<1>2. \A t \in Threads : thread[t] = Idle
  BY DEF ModuleInit
<1>3. Busy = {}
  BY <1>2 DEF Busy
<1>4. UsedWhenRegistered
  BY <1>3 DEF ModuleInit, UsedWhenRegistered
<1>5. ReadyIfFound
  BY DEF ModuleInit, ReadyIfFound
<1>6. SentThroughTable /\ NeverSkipped
  BY <1>2 DEF SentThroughTable, NeverSkipped, Idle
<1> QED
  BY <1>1, <1>4, <1>5, <1>6 DEF ReadyInv

\* A thread that moves on is in use of the module, and the others are as they were.
LEMMA ThreadMoves ==
  ASSUME ReadyInv, NEW t \in Threads, NEW state \in ThreadState,
         thread' = [thread EXCEPT ![t] = state],
         UNCHANGED connector, module' = module, alive' = alive,
         module = "registered",
         state.step \in {"send", "libs3"} => cops,
         state.step # "skipped", inUse' \subseteq Exports
  PROVE  ReadyInv'
<1>1. ThreadsTyped'
  BY DEF ReadyInv, ThreadsTyped
<1>2. UsedWhenRegistered'
  BY DEF UsedWhenRegistered
<1>3. ReadyIfFound'
  BY DEF ReadyInv, ReadyIfFound, connector
<1>4. \A u \in Threads : thread'[u] = IF u = t THEN state ELSE thread[u]
  BY DEF ReadyInv, ThreadsTyped
<1>5. SentThroughTable'
  BY <1>4 DEF ReadyInv, SentThroughTable, connector
<1>6. NeverSkipped'
  BY <1>4 DEF ReadyInv, NeverSkipped
<1> QED
  BY <1>1, <1>2, <1>3, <1>5, <1>6 DEF ReadyInv

\* Steps that leave the threads alone.
LEMMA ThreadsStay ==
  ASSUME ReadyInv, thread' = thread, cops => cops', inUse' \subseteq Exports,
         UsedWhenRegistered', ReadyIfFound'
  PROVE  ReadyInv'
BY DEF ReadyInv, ThreadsTyped, SentThroughTable, NeverSkipped

LEMMA ReadyNext ==
  ASSUME HoldsModule, ReadyInv, [ModuleNext]_vars PROVE ReadyInv'
<1> USE DEF ReadyInv
<1>0. inUse \subseteq Exports
  BY DEF ThreadsTyped
<1>1. CASE UNCHANGED vars
  BY <1>1 DEF vars, connector, exports, ThreadsTyped, UsedWhenRegistered, Busy, ReadyIfFound,
     SentThroughTable, NeverSkipped
<1>2. CASE Connect
  <2>1. ~cops /\ thread' = thread /\ module' = "connected"
    BY <1>2 DEF Connect, ReadyIfFound
  <2>2. UsedWhenRegistered'
    BY <1>2 DEF Connect, exports, UsedWhenRegistered, Busy
  <2>3. ReadyIfFound'
    <3>1. cops' /\ alive' => libs3' /\ current_state' = "INITIALIZED"
      BY <1>2, <2>1 DEF Connect, cloud_init, s3_init_connector, connector
    <3> QED
      BY <2>1, <3>1 DEF ReadyIfFound
  <2> QED
    BY <1>2, <2>1, <2>2, <2>3, ThreadsStay DEF Connect, exports, ThreadsTyped
<1>3. CASE Register
  BY <1>0, <1>3, ThreadsStay DEF Register, connector, exports, UsedWhenRegistered, Busy, ReadyIfFound
<1>4. CASE Unregister
  <2>1. Busy = {} /\ inUse = {}
    BY <1>4 DEF Unregister, Held
  <2> QED
    BY <1>0, <1>4, <2>1, ThreadsStay DEF Unregister, connector, exports, UsedWhenRegistered, Busy, ReadyIfFound
<1>5. CASE Deinit
  BY <1>0, <1>5, ThreadsStay DEF Deinit, exports, UsedWhenRegistered, Busy, ReadyIfFound
<1>6. CASE DeinitState
  BY <1>0, <1>6, ThreadsStay DEF DeinitState, exports, UsedWhenRegistered, Busy, ReadyIfFound
<1>7. CASE DeinitNull
  BY <1>0, <1>7, ThreadsStay DEF DeinitNull, Dies, connector, exports, UsedWhenRegistered, Busy, ReadyIfFound
<1>8. CASE RestartServer
  <2>1. \A t \in Threads : thread'[t] = Idle
    BY <1>8 DEF RestartServer
  <2>2. Busy' = {}
    BY <2>1 DEF Busy
  <2>3. ThreadsTyped'
    BY <1>8 DEF RestartServer, ThreadsTyped, ThreadState
  <2>4. SentThroughTable' /\ NeverSkipped'
    BY <2>1 DEF SentThroughTable, NeverSkipped, Idle
  <2> QED
    BY <1>8, <2>2, <2>3, <2>4 DEF RestartServer, UsedWhenRegistered, ReadyIfFound
<1>9. ASSUME NEW e \in Exports, DropExport(e) PROVE ReadyInv'
  BY <1>0, <1>9, ThreadsStay DEF DropExport, connector, UsedWhenRegistered, Busy, ReadyIfFound
<1>10. ASSUME NEW t \in Threads, ThreadStep(t) PROVE ReadyInv'
  <2>1. CASE CreateExport(t)
    <3>1. CASE UNCHANGED thread
      BY <1>0, <3>1, <2>1, ThreadsStay DEF CreateExport, exports, connector, UsedWhenRegistered, Busy, ReadyIfFound
    <3>2. ASSUME NEW e \in Exports, thread' = [thread EXCEPT ![t] = [step |-> "attach", export |-> e]]
          PROVE  ReadyInv'
      <4> DEFINE new == [step |-> "attach", export |-> e]
      <4>1. new \in ThreadState /\ new.step = "attach"
        BY DEF ThreadState
      <4> QED
        BY <2>1, <3>2, <4>1, <1>0, ThreadMoves DEF CreateExport
    <3> QED
      BY <2>1, <3>1, <3>2 DEF CreateExport
  <2>2. ASSUME thread[t] # Idle PROVE module = "registered"
    BY <2>2 DEF UsedWhenRegistered, Busy
  <2>3. Idle \in ThreadState /\ Idle.step = "idle"
    BY DEF ThreadState, Idle
  <2>4. CASE AttachExport(t)
    <3>1. thread[t] # Idle
      BY <2>4 DEF AttachExport, At, Idle
    <3>2. inUse' \subseteq Exports
      <4>1. thread[t].export \in Exports
        BY <2>4 DEF AttachExport, At, ThreadsTyped, ThreadState, Idle
      <4> QED
        BY <1>0, <2>4, <4>1 DEF AttachExport
    <3> QED
      BY <2>2, <2>3, <2>4, <3>1, <3>2, ThreadMoves DEF AttachExport
  <2>5. CASE BeginRequest(t)
    <3>1. PICK e \in inUse : \E r \in Requests :
            thread' = [thread EXCEPT ![t] = [step |-> "call", export |-> e, request |-> r]]
      BY <2>5 DEF BeginRequest
    <3>2. module = "registered"
      BY DEF UsedWhenRegistered
    <3>3. PICK r \in Requests :
            thread' = [thread EXCEPT ![t] = [step |-> "call", export |-> e, request |-> r]]
      BY <3>1
    <3> DEFINE new == [step |-> "call", export |-> e, request |-> r]
    <3>4. new \in ThreadState /\ new.step = "call"
      BY <1>0 DEF ThreadState
    <3> QED
      BY <1>0, <2>5, <3>2, <3>3, <3>4, ThreadMoves DEF BeginRequest, exports
  <2>6. CASE CallConnector(t)
    <3> DEFINE to  == IF thread[t].request = "get" \/ current_state = "INITIALIZED" THEN "send" ELSE "skipped"
               new == [thread[t] EXCEPT !.step = to]
    <3>1. thread[t] # Idle /\ alive /\ cops
      BY <2>6 DEF CallConnector, At, Idle
    <3>2. to = "send"
      BY <2>2, <3>1 DEF ReadyIfFound
    <3>3. thread[t] \in [step : {"call", "send", "libs3", "skipped"}, export : Exports, request : Requests]
      BY <2>6 DEF CallConnector, At, ThreadsTyped, ThreadState, Idle
    <3>4. new \in ThreadState /\ new.step = "send"
      BY <3>2, <3>3 DEF ThreadState
    <3>5. thread' = [thread EXCEPT ![t] = new]
      BY <2>6 DEF CallConnector
    <3> HIDE DEF new
    <3> QED
      BY <1>0, <2>2, <2>6, <3>1, <3>4, <3>5, ThreadMoves DEF CallConnector, exports
  <2>7. CASE CallNull(t)
    BY <1>0, <2>7, ThreadsStay DEF CallNull, Dies, connector, exports, UsedWhenRegistered, Busy, ReadyIfFound
  <2>8. CASE SendRequest(t)
    <3> DEFINE new == [thread[t] EXCEPT !.step = "libs3"]
    <3>1. thread[t] # Idle /\ cops
      BY <2>8 DEF SendRequest, At, Idle, SentThroughTable
    <3>2. thread[t] \in [step : {"call", "send", "libs3", "skipped"}, export : Exports, request : Requests]
      BY <2>8 DEF SendRequest, At, ThreadsTyped, ThreadState, Idle
    <3>3. new \in ThreadState /\ new.step = "libs3"
      BY <3>2 DEF ThreadState
    <3>4. thread' = [thread EXCEPT ![t] = new]
      BY <2>8 DEF SendRequest
    <3> HIDE DEF new
    <3> QED
      BY <1>0, <2>2, <2>8, <3>1, <3>3, <3>4, ThreadMoves DEF SendRequest, exports
  <2>9. CASE Returns(t)
    <3>1. thread[t] # Idle
      BY <2>9 DEF Returns, Idle
    <3> QED
      BY <1>0, <2>2, <2>3, <2>9, <3>1, ThreadMoves DEF Returns, exports
  <2> QED
    BY <1>10, <2>1, <2>4, <2>5, <2>6, <2>7, <2>8, <2>9 DEF ThreadStep
<1> QED
  BY <1>1, <1>2, <1>3, <1>4, <1>5, <1>6, <1>7, <1>8, <1>9, <1>10 DEF ModuleNext

\* What the properties say follows: a request that is on its way is of a thread
\* at work, while which the module is registered and the connector ready.
LEMMA ReadyImplies == ReadyInv => RequestsFindLibrary /\ NoneSkipped
<1> SUFFICES ASSUME ReadyInv PROVE RequestsFindLibrary /\ NoneSkipped
  OBVIOUS
<1>1. NoneSkipped
  BY DEF ReadyInv, NeverSkipped, NoneSkipped, At
<1>2. ASSUME NEW t \in Threads, At(t, "send") \/ At(t, "libs3") PROVE libs3
  <2>1. cops /\ alive
    BY <1>2 DEF At, ReadyInv, SentThroughTable
  <2>2. module = "registered"
    BY <1>2 DEF At, ReadyInv, UsedWhenRegistered, Busy, Idle
  <2> QED
    BY <2>1, <2>2 DEF ReadyInv, ReadyIfFound
<1> QED
  BY <1>1, <1>2 DEF RequestsFindLibrary

\* If the server counts its uses of the module, no request meets a libs3 that is
\* not initialised, for any number of threads and exports, whatever of the start
\* failed: fsal_unload goes on only when nobody uses the module.
THEOREM LibraryIsFound == ASSUME HoldsModule PROVE ModuleSpec => []RequestsFindLibrary
<1>1. ReadyInv /\ [ModuleNext]_vars => ReadyInv'
  BY ReadyNext
<1> QED
  BY ReadyInit, ReadyImplies, <1>1, PTL DEF ModuleSpec

\* Under the same assumption no operation is told of success for a request that
\* the check of current_state kept back.
THEOREM RequestsAreSent == ASSUME HoldsModule PROVE ModuleSpec => []NoneSkipped
<1>1. ReadyInv /\ [ModuleNext]_vars => ReadyInv'
  BY ReadyNext
<1> QED
  BY ReadyInit, ReadyImplies, <1>1, PTL DEF ModuleSpec

-----------------------------------------------------------------------------
(***************************************************************************)
(* Exports.  Who makes an export has it alone, and nobody else has it yet. *)
(***************************************************************************)
Makes(t, e) == thread[t].step = "attach" /\ thread[t].export = e

Accounted ==
  \A e : e \in allocated <=> (e \in attached \/ e \in rejected \/ \E t \in Threads : Makes(t, e))

MadeApart ==
  \A t \in Threads : \A e :
    Makes(t, e) => e \notin attached /\ e \notin rejected /\ \A u \in Threads : Makes(u, e) => u = t

AccountInv == ThreadsTyped /\ Accounted /\ MadeApart

LEMMA AccountInit == ModuleInit => AccountInv
BY DEF ModuleInit, AccountInv, ThreadsTyped, ThreadState, Accounted, MadeApart, Makes, Idle

\* Steps of which the exports see nothing.
LEMMA MakersStay ==
  ASSUME AccountInv, ThreadsTyped', allocated' = allocated, attached' = attached, rejected' = rejected,
         \A t \in Threads : \A e : Makes(t, e)' <=> Makes(t, e)
  PROVE  AccountInv'
BY DEF AccountInv, Accounted, MadeApart

\* A thread that makes no export goes on to another thing than making one.
LEMMA OthersMove ==
  ASSUME AccountInv, NEW t \in Threads, NEW state \in ThreadState,
         thread[t].step # "attach", state.step # "attach",
         thread' = [thread EXCEPT ![t] = state], UNCHANGED exports
  PROVE  AccountInv'
<1>1. ThreadsTyped'
  BY DEF AccountInv, ThreadsTyped, exports
<1>2. \A u \in Threads : \A e : Makes(u, e)' <=> Makes(u, e)
  BY DEF AccountInv, ThreadsTyped, Makes
<1> QED
  BY <1>1, <1>2, MakersStay DEF exports

LEMMA AccountNext == AccountInv /\ [ModuleNext]_vars => AccountInv'
<1> SUFFICES ASSUME AccountInv, [ModuleNext]_vars PROVE AccountInv'
  OBVIOUS
<1>0. inUse \subseteq Exports /\ thread \in [Threads -> ThreadState]
  BY DEF AccountInv, ThreadsTyped
<1>1. ASSUME thread' = thread, allocated' = allocated, attached' = attached, rejected' = rejected,
             inUse' \subseteq inUse
      PROVE  AccountInv'
  BY <1>0, <1>1, MakersStay DEF AccountInv, ThreadsTyped, Makes
<1>2. CASE \/ UNCHANGED vars \/ Connect \/ Register \/ Unregister \/ Deinit \/ DeinitState \/ DeinitNull
  BY <1>1, <1>2 DEF vars, Connect, Register, Unregister, Deinit, DeinitState, DeinitNull, Dies, exports
<1>3. ASSUME NEW e \in Exports, DropExport(e) PROVE AccountInv'
  BY <1>1, <1>3 DEF DropExport
<1>4. CASE RestartServer
  <2>1. /\ \A t \in Threads : thread'[t] = Idle
        /\ allocated' = {} /\ attached' = {} /\ rejected' = {} /\ inUse' = {}
        /\ thread' \in [Threads -> ThreadState]
    BY <1>4 DEF RestartServer, ThreadState
  <2> QED
    BY <2>1 DEF AccountInv, ThreadsTyped, Accounted, MadeApart, Makes, Idle
<1>5. ASSUME NEW t \in Threads, ThreadStep(t) PROVE AccountInv'
  <2>1. CASE CreateExport(t)
    <3>1. PICK e \in Exports \ allocated :
            /\ allocated' = allocated \cup {e}
            /\ \/ rejected' = rejected \cup {e} /\ thread' = thread
               \/ thread' = [thread EXCEPT ![t] = [step |-> "attach", export |-> e]] /\ rejected' = rejected
      BY <2>1 DEF CreateExport
    <3>2. attached' = attached /\ inUse' = inUse /\ ~\E u \in Threads : Makes(u, e)
      BY <2>1, <3>1 DEF CreateExport, AccountInv, Accounted
    <3>3. CASE rejected' = rejected \cup {e} /\ thread' = thread
      BY <3>1, <3>2, <3>3 DEF AccountInv, ThreadsTyped, Accounted, MadeApart, Makes
    <3>4. CASE thread' = [thread EXCEPT ![t] = [step |-> "attach", export |-> e]] /\ rejected' = rejected
      <4>1. ThreadsTyped'
        BY <1>0, <3>2, <3>4 DEF ThreadsTyped, ThreadState
      <4>2. thread[t].step # "attach"
        BY <2>1 DEF CreateExport, At
      <4>3. \A u \in Threads : \A f : Makes(u, f)' <=> (Makes(u, f) \/ (u = t /\ f = e))
        BY <1>0, <3>4, <4>2 DEF Makes
      <4>4. e \notin attached /\ e \notin rejected
        BY <3>1 DEF AccountInv, Accounted
      <4> QED
        BY <3>1, <3>2, <3>4, <4>1, <4>3, <4>4 DEF AccountInv, Accounted, MadeApart
    <3> QED
      BY <3>1, <3>3, <3>4
  <2>2. CASE AttachExport(t)
    <3> DEFINE e == thread[t].export
    <3>1. Makes(t, e) /\ e \in Exports
      BY <1>0, <2>2 DEF AttachExport, At, Makes, ThreadState, Idle
    <3>2. ThreadsTyped'
      BY <1>0, <2>2, <3>1 DEF AttachExport, ThreadsTyped, ThreadState
    <3>3. \A u \in Threads : \A f : Makes(u, f)' <=> (Makes(u, f) /\ u # t)
      BY <1>0, <2>2 DEF AttachExport, Makes, Idle
    <3>4. \A f : Makes(t, f) <=> f = e
      BY <3>1 DEF Makes
    <3>5. /\ rejected' = rejected
          /\ \/ attached' = attached \cup {e} /\ allocated' = allocated
             \/ attached' = attached /\ allocated' = allocated \ {e}
      BY <2>2 DEF AttachExport
    <3> HIDE DEF e
    <3> QED
      BY <3>1, <3>2, <3>3, <3>4, <3>5 DEF AccountInv, Accounted, MadeApart
  <2>3. CASE BeginRequest(t)
    <3>1. PICK e \in inUse, r \in Requests :
            thread' = [thread EXCEPT ![t] = [step |-> "call", export |-> e, request |-> r]]
      BY <2>3 DEF BeginRequest
    <3> DEFINE new == [step |-> "call", export |-> e, request |-> r]
    <3>2. new \in ThreadState /\ new.step # "attach"
      BY <1>0 DEF ThreadState
    <3> QED
      BY <2>3, <3>1, <3>2, OthersMove DEF BeginRequest, At
  <2>4. ASSUME NEW to \in {"send", "libs3", "skipped"}, thread[t].step \in {"call", "send"},
               thread' = [thread EXCEPT ![t].step = to], UNCHANGED exports
        PROVE  AccountInv'
    <3> DEFINE new == [thread[t] EXCEPT !.step = to]
    <3>1. thread[t] \in [step : {"call", "send", "libs3", "skipped"}, export : Exports, request : Requests]
      BY <1>0, <2>4 DEF ThreadState, Idle
    <3>2. new \in ThreadState /\ new.step = to
      BY <3>1 DEF ThreadState
    <3>3. thread' = [thread EXCEPT ![t] = new]
      BY <2>4
    <3> HIDE DEF new
    <3> QED
      BY <2>4, <3>2, <3>3, OthersMove
  <2>5. CASE CallConnector(t)
    BY <2>4, <2>5 DEF CallConnector, At
  <2>6. CASE CallNull(t)
    BY <1>1, <2>6 DEF CallNull, Dies, exports
  <2>7. CASE SendRequest(t)
    BY <2>4, <2>7 DEF SendRequest, At
  <2>8. CASE Returns(t)
    <3>1. Idle \in ThreadState /\ Idle.step # "attach"
      BY DEF ThreadState, Idle
    <3> QED
      BY <2>8, <3>1, OthersMove DEF Returns
  <2> QED
    BY <1>5, <2>1, <2>2, <2>3, <2>5, <2>6, <2>7, <2>8 DEF ThreadStep
<1> QED
  BY <1>2, <1>3, <1>4, <1>5 DEF ModuleNext

\* Every export that has memory is on the list of the module, is being made or had
\* its configuration rejected, and none of those was freed, for any number of
\* threads that create exports at once (cloud_create_export).
THEOREM ExportsStayAccounted == ModuleSpec => []ExportsAccounted
<1>1. AccountInv => ExportsAccounted
  BY DEF AccountInv, Accounted, Makes, ExportsAccounted, At
<1> QED
  BY AccountInit, AccountNext, <1>1, PTL DEF ModuleSpec
=============================================================================
