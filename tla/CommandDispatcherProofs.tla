----------------------- MODULE CommandDispatcherProofs -----------------------
(***************************************************************************)
(* Theorems about the dispatching of commands, for any packs, actions,     *)
(* owners and callers.                                                     *)
(***************************************************************************)
EXTENDS CommandDispatcher, TLAPS

Serving == {"has", "get", "fire", "call", "sub", "answer"}
Closing == {"clear", "deinit", "waitEmpty", "join"}

\* The thread has a pack exactly while it serves one; a scheduler is in the map
\* until it is closed.
Busy ==
    /\ job # NoPack <=> worker \in Serving
    /\ worker # "off" => das_map # 0 \/ registrar \in Closing
    /\ registrar \in {"waitEmpty", "join"} => in_deinit
    /\ \A t \in Threads : caller[t] = "idle" <=> pack[t] = NoPack
    /\ caller[Worker] # "idle" => worker = "sub"
    /\ registrar \in {"add", "schedule", "dispatcher"} =>
            owner \in Owners /\ registered[owner] = "new"

\* What an owner loses while it is deregistered stays lost.
Disabled ==
    /\ \A a \in Actions : ~enabled[a] => ~Holds(a)
    /\ \A o \in Owners : registered[o] = "gone" => \A a \in Owned[o] : ~enabled[a]
    /\ registrar = "idle" => owner = NoOwner
    /\ owner # NoOwner /\ registrar \in {"disable", "erase"} =>
            \A a \in Owned[owner] \ todo : ~enabled[a]
    /\ owner # NoOwner /\ registrar \in {"unschedule"} \cup Closing =>
            \A a \in Owned[owner] : ~enabled[a]

Calling(t) == Dispatch(t) \/ (t \in Callers /\ \E p \in Packs : Request(t, p))

Managing == Registering \/ Deinit \/ \E o \in Owners : Register(o) \/ Deregister(o)

LEMMA NextSplit ==
  ASSUME Next
  PROVE  Work \/ Managing \/ \E t \in Threads : Calling(t)
  BY DEF Next, Managing, Calling, Threads

\* What each of the threads leaves alone.
LEMMA CallingKeeps ==
  ASSUME NEW t \in Threads, Calling(t)
  PROVE  UNCHANGED <<mapVars, dasVars, job, registrarVars, answers>>
  BY DEF Calling, Dispatch, Request, CountDomain, IndexDomain, push, Refused,
      workerVars, packVars

LEMMA WorkKeeps ==
  ASSUME Work
  PROVE  UNCHANGED <<mapVars, dasVars, target, owner, todo, registered, serverUp>>
  BY DEF Work, TestDeinit, waitAndPop, hasActionName, getActionDescriptor, setFired, Call,
      SubDispatched, Answer, callVars, registrarVars

LEMMA ManagingKeeps ==
  ASSUME Managing
  PROVE  UNCHANGED <<job, callVars, answers, crashed>>
  BY DEF Managing, Register, Deregister, Registering, addActionDescriptor, setEnabled,
      eraseActionDescriptor, AddScheduler, setDispatcher, RemoveScheduler, clear, deinit,
      Join, Deinit, workerVars, packVars

LEMMA CallingTypes ==
  ASSUME TypeOK, Busy, NEW t \in Threads, Calling(t)
  PROVE  TypeOK'
  <1> USE PackAssumption
  <1>1. MapTypes' /\ SchedulerTypes' /\ RegistrarTypes'
    BY CallingKeeps DEF TypeOK, MapTypes, SchedulerTypes, RegistrarTypes, mapVars, dasVars,
        registrarVars
  <1>2. caller[t] # "idle" => pack[t] \in Packs
    BY DEF TypeOK, CallTypes, Busy
  <1>3. CallTypes'
    <2>1. CASE CountDomain(t) \/ \E p \in Packs : Request(t, p)
      BY <2>1 DEF TypeOK, CallTypes, CountDomain, Request, Refused
    <2>2. CASE IndexDomain(t) \/ push(t)
      BY <2>2 DEF TypeOK, CallTypes, SchedulerTypes, IndexDomain, push, Refused
    <2> QED BY <2>1, <2>2 DEF Calling, Dispatch
  <1>4. WorkerTypes'
    <2>1. bufferQueue' \in Seq(Packs)
      <3>1. CASE UNCHANGED bufferQueue
        BY <3>1 DEF TypeOK, WorkerTypes
      <3>2. CASE push(t)
        BY <1>2, <3>1, <3>2 DEF TypeOK, WorkerTypes, push
      <3> QED
        BY <3>1, <3>2 DEF Calling, Dispatch, Request, CountDomain, IndexDomain
    <2>2. worker' \in WorkerStates
      BY DEF TypeOK, WorkerTypes, WorkerStates, Calling, Dispatch, Request, CountDomain,
          IndexDomain, push, WakeWorker, workerVars
    <2> QED BY <2>1, <2>2, CallingKeeps DEF TypeOK, WorkerTypes
  <1>5. PackTypes'
    BY <1>2 DEF TypeOK, PackTypes, Calling, Dispatch, Request, CountDomain, IndexDomain, push,
        Refused, packVars
  <1> QED BY <1>1, <1>3, <1>4, <1>5 DEF TypeOK

LEMMA WorkTypes ==
  ASSUME TypeOK, Busy, Work
  PROVE  TypeOK'
  <1> USE PackAssumption
  <1>1. MapTypes' /\ SchedulerTypes'
    BY WorkKeeps DEF TypeOK, MapTypes, SchedulerTypes, mapVars, dasVars
  <1>2. RegistrarTypes'
    <2>1. registrar' \in {registrar, "deinit"}
      BY DEF Work, TestDeinit, waitAndPop, hasActionName, getActionDescriptor, setFired, Call,
          SubDispatched, Answer, registrarVars
    <2> QED BY <2>1, WorkKeeps DEF TypeOK, RegistrarTypes, RegistrarStates
  <1>3. CallTypes'
    <2>1. CASE UNCHANGED callVars
      BY <2>1 DEF TypeOK, CallTypes, callVars
    <2>2. CASE Call
      BY <2>2, WorkKeeps DEF TypeOK, CallTypes, WorkerTypes, Call, HasSubCommand, Busy, Serving
    <2> QED BY <2>1, <2>2 DEF Work, TestDeinit, waitAndPop, hasActionName,
              getActionDescriptor, setFired, SubDispatched, Answer
  <1>4. WorkerTypes'
    <2> USE DEF TypeOK, WorkerTypes
    <2>1. bufferQueue' \in Seq(Packs) /\ job' \in Packs \cup {NoPack}
      <3>1. CASE UNCHANGED bufferQueue /\ job' \in {job, NoPack}
        BY <3>1
      <3>2. CASE bufferQueue # <<>> /\ pop
        BY <3>2 DEF pop
      <3> QED
        BY <3>1, <3>2 DEF Work, TestDeinit, waitAndPop, hasActionName, getActionDescriptor,
            setFired, Call, SubDispatched, Answer, Ends
    <2>2. worker' \in WorkerStates
      BY DEF WorkerStates, Running, Work, TestDeinit, waitAndPop, hasActionName,
          getActionDescriptor, setFired, Call, SubDispatched, Answer, Ends
    <2> QED BY <2>1, <2>2
  <1>5. PackTypes'
    <2>1. CASE UNCHANGED packVars
      BY <2>1 DEF TypeOK, PackTypes, packVars, Work, TestDeinit, waitAndPop, hasActionName,
          getActionDescriptor, setFired, Call, SubDispatched, Answer
    <2>2. CASE hasActionName \/ setFired \/ Answer
      <3>1. ended' = ended \/ \E how \in {"skipped", "served"} : ended' = [ended EXCEPT ![job] = how]
        BY <2>2 DEF hasActionName, setFired, Answer, Ends, packVars
      <3>2. answers' = answers \/ answers' = [answers EXCEPT ![job] = @ + 1]
        BY <2>2 DEF hasActionName, setFired, Answer, packVars
      <3>3. crashed' \in {crashed, TRUE}
        BY <2>2 DEF hasActionName, setFired, Answer
      <3>4. crashed' \in BOOLEAN
        BY <3>3, Zenon DEF TypeOK, PackTypes
      <3> QED BY <3>1, <3>2, <3>4 DEF TypeOK, PackTypes
    <2> QED BY <2>1, <2>2 DEF Work, TestDeinit, waitAndPop, getActionDescriptor, Call,
              SubDispatched
  <1> QED BY <1>1, <1>2, <1>3, <1>4, <1>5 DEF TypeOK

LEMMA SchedulerStays ==
  ASSUME TypeOK, das' \in {das, das + 1}, das_map' \in {das_map, das', 0},
         alive' \in {alive, TRUE, FALSE}, armed' \in {armed, TRUE, FALSE},
         in_deinit' \in {in_deinit, TRUE, FALSE}, dispatcher' \in {dispatcher, TRUE, FALSE}
  PROVE  SchedulerTypes'
  <1>1. das' \in Nat /\ das_map' \in Nat
    BY DEF TypeOK, SchedulerTypes
  <1>2. alive' \in BOOLEAN /\ armed' \in BOOLEAN /\ in_deinit' \in BOOLEAN
        /\ dispatcher' \in BOOLEAN
    BY Zenon DEF TypeOK, SchedulerTypes
  <1> QED BY <1>1, <1>2 DEF SchedulerTypes

LEMMA WorkerStays ==
  ASSUME TypeOK, bufferQueue' \in {bufferQueue, <<>>}, worker' \in {worker, "loop", "pop", "off"},
         UNCHANGED job
  PROVE  WorkerTypes'
  <1>1. worker' \in WorkerStates
    BY DEF TypeOK, WorkerTypes, WorkerStates
  <1>2. <<>> \in Seq(Packs)
    OBVIOUS
  <1> QED BY <1>1, <1>2 DEF TypeOK, WorkerTypes

LEMMA ManagingTypes ==
  ASSUME TypeOK, Managing
  PROVE  TypeOK'
  <1> USE PackAssumption, OwnerAssumption
  <1> USE DEF Managing, Register, Deregister, Registering, addActionDescriptor, setEnabled,
      eraseActionDescriptor, AddScheduler, setDispatcher, RemoveScheduler, clear, deinit,
      Join, Deinit
  <1>1. MapTypes'
    BY DEF TypeOK, MapTypes, mapVars
  <1>2. SchedulerTypes'
    <2>1. das' \in {das, das + 1} /\ das_map' \in {das_map, das', 0}
      BY DEF dasVars
    <2>2. alive' \in {alive, TRUE, FALSE} /\ armed' \in {armed, TRUE, FALSE}
      BY DEF dasVars
    <2>3. in_deinit' \in {in_deinit, TRUE, FALSE} /\ dispatcher' \in {dispatcher, TRUE, FALSE}
      BY DEF dasVars
    <2> QED BY <2>1, <2>2, <2>3, SchedulerStays
  <1>3. WorkerTypes'
    <2>1. bufferQueue' \in {bufferQueue, <<>>}
      OBVIOUS
    <2>2. worker' \in {worker, "loop", "pop", "off"}
      BY DEF WakeWorker, workerVars
    <2> QED BY <2>1, <2>2, ManagingKeeps, WorkerStays
  <1>4. CallTypes'
    BY ManagingKeeps DEF TypeOK, CallTypes, callVars
  <1>5. RegistrarTypes'
    BY DEF TypeOK, RegistrarTypes, RegistrarStates, Return, registrarVars
  <1>6. PackTypes'
    BY ManagingKeeps DEF TypeOK, PackTypes, packVars
  <1> QED BY <1>1, <1>2, <1>3, <1>4, <1>5, <1>6 DEF TypeOK

-----------------------------------------------------------------------------
\* A caller wakes the thread of the scheduler, and does nothing else to it.
LEMMA CallingWakes ==
  ASSUME NEW t \in Threads, Calling(t)
  PROVE  /\ worker' = worker \/ (worker = "wait" /\ worker' = "pop")
         /\ bufferQueue' # bufferQueue => push(t) /\ worker' # "wait"
  BY DEF Calling, Dispatch, Request, CountDomain, IndexDomain, push, WakeWorker, workerVars

LEMMA CallingBusy ==
  ASSUME TypeOK, Busy, NEW t \in Threads, Calling(t)
  PROVE  Busy'
  <1>1. /\ \A u \in Threads \ {t} : caller'[u] = caller[u] /\ pack'[u] = pack[u]
        /\ caller'[t] = "idle" <=> pack'[t] = NoPack
    BY PackAssumption DEF TypeOK, CallTypes, Busy, Calling, Dispatch, Request, CountDomain,
        IndexDomain, push, Refused
  <1>2. caller'[Worker] # "idle" => worker' = "sub"
    <2>1. CASE t = Worker
      <3>1. caller[Worker] # "idle"
        BY <2>1, ThreadAssumption DEF Calling, Dispatch, CountDomain, IndexDomain, push
      <3> QED BY <3>1, CallingWakes DEF Busy
    <2>2. CASE t # Worker
      BY <1>1, <2>2, CallingWakes DEF Busy, Threads
    <2> QED BY <2>1, <2>2
  <1> QED BY <1>1, <1>2, CallingWakes, CallingKeeps DEF Busy, Serving, dasVars, registrarVars

LEMMA WorkBusy ==
  ASSUME TypeOK, Busy, Work
  PROVE  Busy'
  <1>1. job' # NoPack <=> worker' \in Serving
    <2>1. CASE waitAndPop
      <3>1. bufferQueue # <<>> => Head(bufferQueue) # NoPack
        BY PackAssumption DEF TypeOK, WorkerTypes
      <3> QED BY <2>1, <3>1 DEF Busy, Serving, waitAndPop, pop
    <2>2. CASE TestDeinit \/ hasActionName \/ getActionDescriptor \/ setFired
      <3>1. \/ worker' \in Serving /\ worker \in Serving /\ UNCHANGED job
            \/ worker' = "loop" /\ job' = NoPack
            \/ worker' \in {"pop", "left"} /\ worker = "loop" /\ UNCHANGED job
        BY <2>2 DEF Serving, TestDeinit, hasActionName, getActionDescriptor, setFired, Ends
      <3> QED BY <3>1 DEF Busy, Serving
    <2>3. CASE Call \/ SubDispatched \/ Answer
      BY <2>3 DEF Busy, Serving, Call, SubDispatched, Answer, Ends
    <2> QED BY <2>1, <2>2, <2>3 DEF Work
  <1>2. /\ worker # "off" /\ UNCHANGED <<das_map, in_deinit, owner, registered>>
        /\ registrar' = registrar \/ (registrar = "waitEmpty" /\ registrar' = "deinit")
    BY DEF Work, TestDeinit, waitAndPop, hasActionName, getActionDescriptor, setFired, Call,
        SubDispatched, Answer, dasVars, registrarVars
  <1>3. CASE UNCHANGED <<caller, pack>> /\ worker # "sub"
    BY <1>1, <1>2, <1>3 DEF Busy, Closing
  <1>4. CASE Call
    BY <1>1, <1>2, <1>4, PackAssumption DEF Busy, Closing, Call, HasSubCommand, TypeOK, CallTypes, Threads
  <1>5. CASE SubDispatched
    BY <1>1, <1>2, <1>5 DEF Busy, Closing, SubDispatched, callVars
  <1> QED
    BY <1>3, <1>4, <1>5 DEF Work, TestDeinit, waitAndPop, hasActionName, getActionDescriptor,
        setFired, Answer, callVars

LEMMA AddsScheduler ==
  ASSUME TypeOK, AddScheduler
  PROVE  das_map' # 0
  BY DEF AddScheduler, TypeOK, SchedulerTypes, dasVars

LEMMA ManagingBusy ==
  ASSUME TypeOK, Busy, Managing
  PROVE  Busy'
  <1> USE DEF Managing, Register, Deregister, Registering, addActionDescriptor, setEnabled,
      eraseActionDescriptor, AddScheduler, setDispatcher, RemoveScheduler, clear, deinit,
      Join, Deinit
  <1>1. UNCHANGED <<job, caller, pack>>
    BY ManagingKeeps DEF callVars
  <1>2. \/ worker' = worker
        \/ worker = "wait" /\ worker' = "pop"
        \/ worker = "off" /\ worker' = "loop"
        \/ worker = "left" /\ worker' = "off"
    BY DEF WakeWorker, Busy, Closing, workerVars
  <1>3. worker' # "off" => das_map' # 0 \/ registrar' \in Closing
    <2>1. CASE AddScheduler
      <3> HIDE DEF AddScheduler
      <3> QED BY <2>1, AddsScheduler
    <2>2. CASE ~AddScheduler
      <3> HIDE DEF AddScheduler
      <3> QED BY <2>2 DEF WakeWorker, Busy, Closing, workerVars, dasVars
    <2> QED BY <2>1, <2>2
  <1>4. registrar' \in {"waitEmpty", "join"} => in_deinit'
    BY DEF Busy, dasVars, Return
  <1>5. registrar' \in {"add", "schedule", "dispatcher"} =>
            owner' \in Owners /\ registered'[owner'] = "new"
    BY DEF Busy, Return, registrarVars
  <1>6. caller'[Worker] # "idle" => worker' = "sub"
    BY <1>1, <1>2 DEF Busy
  <1>7. job' # NoPack <=> worker' \in Serving
    BY <1>1, <1>2 DEF Busy, Serving
  <1> QED BY <1>1, <1>3, <1>4, <1>5, <1>6, <1>7 DEF Busy

LEMMA Inductive ==
  /\ Init => TypeOK /\ Busy
  /\ TypeOK /\ Busy /\ [Next]_vars => (TypeOK /\ Busy)'
  <1>1. Init => TypeOK /\ Busy
    <2> SUFFICES ASSUME Init PROVE TypeOK /\ Busy
      OBVIOUS
    <2> USE DEF Init
    <2>1. MapTypes /\ SchedulerTypes /\ PackTypes
      BY DEF MapTypes, SchedulerTypes, PackTypes
    <2>2. WorkerTypes /\ CallTypes /\ RegistrarTypes
      BY OwnerAssumption DEF WorkerTypes, CallTypes, RegistrarTypes, WorkerStates, RegistrarStates
    <2>3. Busy
      BY DEF Busy, Serving, Threads
    <2> QED BY <2>1, <2>2, <2>3 DEF TypeOK
  <1>2. ASSUME TypeOK, Busy, [Next]_vars PROVE (TypeOK /\ Busy)'
    <2>1. CASE UNCHANGED vars
      <3>1. UNCHANGED <<mapVars, dasVars, bufferQueue, workerVars, callVars, registrarVars,
                        packVars, crashed>>
        BY <2>1 DEF vars
      <3>2. MapTypes' /\ SchedulerTypes' /\ PackTypes'
        BY <1>2, <3>1 DEF TypeOK, MapTypes, SchedulerTypes, PackTypes, mapVars, dasVars, packVars
      <3>3. WorkerTypes' /\ CallTypes' /\ RegistrarTypes'
        BY <1>2, <3>1 DEF TypeOK, WorkerTypes, CallTypes, RegistrarTypes, workerVars, callVars,
            registrarVars
      <3>4. Busy'
        BY <1>2, <3>1 DEF Busy, dasVars, workerVars, callVars, registrarVars
      <3> QED BY <3>2, <3>3, <3>4 DEF TypeOK
    <2> QED
      BY <1>2, <2>1, NextSplit, CallingTypes, WorkTypes, ManagingTypes, CallingBusy, WorkBusy,
          ManagingBusy
  <1> QED BY <1>1, <1>2

\* Every variable keeps its type.
THEOREM TypeCorrect == Spec => []TypeOK
  BY Inductive, PTL DEF Spec

-----------------------------------------------------------------------------
\* The queue takes one pack more than its constant says, and its thread does not
\* sleep over a pack or over the end.
Line == QueueBounded /\ WorkerAwake

LEMMA LineStep ==
  ASSUME TypeOK, Busy, Line, [Next]_vars
  PROVE  Line'
  <1> USE QueueAssumption
  <1>1. CASE UNCHANGED vars
    BY <1>1 DEF Line, QueueBounded, WorkerAwake, vars, workerVars, registrarVars
  <1>2. ASSUME NEW t \in Threads, Calling(t) PROVE Line'
    <2>1. CASE UNCHANGED bufferQueue
      BY <1>2, <2>1, CallingWakes, CallingKeeps DEF Line, QueueBounded, WorkerAwake, registrarVars
    <2>2. CASE bufferQueue' # bufferQueue
      <3>1. push(t) /\ worker' # "wait"
        BY <1>2, <2>2, CallingWakes
      <3>2. ~Full /\ bufferQueue' = Append(bufferQueue, pack[t])
        BY <2>2, <3>1 DEF push
      <3>3. Len(bufferQueue') = Len(bufferQueue) + 1 /\ Len(bufferQueue) \in Nat
        BY <3>2 DEF TypeOK, WorkerTypes
      <3> QED BY <3>1, <3>2, <3>3 DEF Full, Line, QueueBounded, WorkerAwake
    <2> QED BY <2>1, <2>2
  <1>3. CASE Work
    <2>1. CASE UNCHANGED bufferQueue /\ worker' # "wait"
      BY <2>1 DEF Line, QueueBounded, WorkerAwake
    <2>2. CASE waitAndPop /\ worker' = "wait"
      BY <2>2 DEF waitAndPop, Busy, Line, QueueBounded, WorkerAwake
    <2>3. CASE bufferQueue # <<>> /\ pop /\ worker' = "has"
      <3>1. Len(bufferQueue') <= Len(bufferQueue) /\ Len(bufferQueue') \in Nat
                /\ Len(bufferQueue) \in Nat
        BY <2>3 DEF pop, TypeOK, WorkerTypes
      <3> QED BY <2>3, <3>1 DEF Line, QueueBounded, WorkerAwake
    <2> QED
      BY <1>3, <2>1, <2>2, <2>3 DEF Work, TestDeinit, waitAndPop, hasActionName,
          getActionDescriptor, setFired, Call, SubDispatched, Answer, Ends
  <1>4. CASE Managing
    <2>1. bufferQueue' \in {bufferQueue, <<>>}
      BY <1>4 DEF Managing, Register, Deregister, Registering, addActionDescriptor, setEnabled,
          eraseActionDescriptor, AddScheduler, setDispatcher, RemoveScheduler, clear, deinit,
          Join, Deinit
    <2>2. worker' = "wait" => worker = "wait" /\ registrar' # "join"
      BY <1>4 DEF Line, WorkerAwake, WakeWorker, workerVars, Managing, Register, Deregister,
          Registering, addActionDescriptor, setEnabled, eraseActionDescriptor, AddScheduler,
          setDispatcher, RemoveScheduler, clear, deinit, Join, Deinit, Return
    <2>3. Len(<<>>) = 0
      OBVIOUS
    <2> QED BY <2>1, <2>2, <2>3 DEF Line, QueueBounded, WorkerAwake
  <1> QED BY <1>1, <1>2, <1>3, <1>4, NextSplit

\* The queue is bounded, and nobody sleeps over it.
THEOREM QueueServed == Spec => [](QueueBounded /\ WorkerAwake)
  <1>1. Init => Line
    BY QueueAssumption DEF Init, Line, QueueBounded, WorkerAwake
  <1>2. Line => QueueBounded /\ WorkerAwake
    BY DEF Line
  <1> QED BY <1>1, <1>2, LineStep, Inductive, PTL DEF Spec

-----------------------------------------------------------------------------
LEMMA DisabledStep ==
  ASSUME TypeOK, Busy, Disabled, [Next]_vars
  PROVE  Disabled'
  <1> USE OwnerAssumption
  <1>1. CASE UNCHANGED vars
    BY <1>1 DEF Disabled, Holds, Running, Closing, vars, mapVars, workerVars, registrarVars
  <1>2. ASSUME NEW t \in Threads, Calling(t) PROVE Disabled'
    <2>1. \A a \in Actions : Holds(a)' => Holds(a)
      BY <1>2, CallingWakes, CallingKeeps DEF Holds, Running
    <2> QED BY <1>2, <2>1, CallingKeeps DEF Disabled, mapVars, registrarVars
  <1>3. CASE Work
    <2>1. \A a \in Actions : Holds(a)' => Holds(a) \/ enabled[a]
      BY <1>3 DEF Holds, Running, Work, TestDeinit, waitAndPop, hasActionName,
          getActionDescriptor, setFired, CanFire, Call, SubDispatched, Answer, Ends
    <2>2. registrar' = registrar \/ (registrar = "waitEmpty" /\ registrar' = "deinit")
      BY <1>3 DEF Work, TestDeinit, waitAndPop, hasActionName, getActionDescriptor, setFired,
          Call, SubDispatched, Answer, registrarVars
    <2> QED BY <1>3, <2>1, <2>2, WorkKeeps DEF Disabled, Closing, mapVars
  <1>4. CASE Managing
    <2>1. \A a \in Actions : Holds(a)' => Holds(a)
      BY <1>4, ManagingKeeps DEF Holds, Running, WakeWorker, workerVars, Managing, Register,
          Deregister, Registering, addActionDescriptor, setEnabled, eraseActionDescriptor,
          AddScheduler, setDispatcher, RemoveScheduler, clear, deinit, Join, Deinit
    <2>2. ASSUME NEW a \in Actions, setEnabled(a) PROVE Disabled'
      <3>1. ~Holds(a) /\ enabled' = [enabled EXCEPT ![a] = FALSE]
            /\ registrar = "disable" /\ registrar' = "erase" /\ UNCHANGED <<owner, todo, registered>>
        BY <2>2 DEF setEnabled
      <3>2. \A b \in Actions : ~enabled'[b] <=> ~enabled[b] \/ b = a
        BY <3>1 DEF TypeOK, MapTypes
      <3> QED BY <2>1, <3>1, <3>2 DEF Disabled, Closing, TypeOK, RegistrarTypes
    <2>3. ASSUME UNCHANGED enabled PROVE Disabled'
      <3>1. \A a \in Actions : ~enabled'[a] => ~Holds(a)'
        BY <2>1, <2>3 DEF Disabled
      <3>2. /\ \A o \in Owners : registered'[o] = "gone" => \A a \in Owned[o] : ~enabled[a]
            /\ registrar' = "idle" => owner' = NoOwner
        BY <1>4 DEF Disabled, Closing, TypeOK, RegistrarTypes, Return, registrarVars, Managing,
          Register, Deregister, Registering, addActionDescriptor, setEnabled,
          eraseActionDescriptor, AddScheduler, setDispatcher, RemoveScheduler, clear, deinit,
          Join, Deinit
      <3>3. /\ owner' # NoOwner /\ registrar' \in {"disable", "erase"} =>
                \A a \in Owned[owner'] \ todo' : ~enabled[a]
            /\ owner' # NoOwner /\ registrar' \in {"unschedule"} \cup Closing =>
                \A a \in Owned[owner'] : ~enabled[a]
        BY <1>4, <2>3 DEF Disabled, Closing, TypeOK, RegistrarTypes, Return, registrarVars,
          Managing, Register, Deregister, Registering, addActionDescriptor, setEnabled,
          eraseActionDescriptor, AddScheduler, setDispatcher, RemoveScheduler, clear, deinit,
          Join, Deinit
      <3> QED BY <2>3, <3>1, <3>2, <3>3 DEF Disabled
    <2> QED
      BY <1>4, <2>2, <2>3 DEF mapVars, Managing, Register, Deregister, Registering,
          addActionDescriptor, eraseActionDescriptor, AddScheduler, setDispatcher,
          RemoveScheduler, clear, deinit, Join, Deinit
  <1> QED BY <1>1, <1>2, <1>3, <1>4, NextSplit

\* No action of an owner runs once its deregistration has returned.
THEOREM DeregisteredQuiet == Spec => []QuietAfterDeregister
  <1>1. Init => Disabled
    BY DEF Init, Disabled, Closing
  <1>2. Disabled => QuietAfterDeregister
    BY OwnerAssumption DEF Disabled, QuietAfterDeregister
  <1> QED BY <1>1, <1>2, DisabledStep, Inductive, PTL DEF Spec

-----------------------------------------------------------------------------
(* What is registered is served *)

Offered == UNION {Owned[o] : o \in {q \in Owners : registered[q] = "yes"}}

\* What the container holds of the owner that the registrar is at.
Pending ==
    CASE registrar = "add" -> Owned[owner] \ todo
      [] registrar \in {"schedule", "dispatcher"} -> Owned[owner]
      [] registrar \in {"disable", "erase"} -> todo
      [] OTHER -> {}

SchedulerUp ==
    /\ das_map = das /\ alive /\ armed /\ ~in_deinit
    /\ dispatcher \/ registrar = "dispatcher"
    /\ worker \notin {"off", "left"}

\* The registrar between its steps, as long as the server is up.
Managed ==
    /\ registrar # "idle" => owner \in Owners
    /\ registrar \in {"disable", "erase", "unschedule"} \cup Closing =>
            registered[owner] = "leaving"
    /\ registrar \in {"add", "disable", "erase"} => todo \subseteq Owned[owner]
    /\ actionDescriptionsMap = Offered \cup Pending
    /\ registrar \in {"idle", "add", "schedule"} => (das_map # 0 <=> Offered # {})
    /\ registrar \in {"dispatcher", "disable", "erase", "unschedule"} => das_map # 0
    /\ registrar \in Closing => das_map = 0 /\ Offered = {}
    /\ das_map # 0 => SchedulerUp

\* The container is there while it holds something, nobody disables what is
\* registered, and nothing is registered without the server.
Offers ==
    /\ actionDomainExecutorMap <=> actionDescriptionsMap # {}
    /\ \A o \in Owners : registered[o] \in {"new", "yes"} =>
            \A a \in Owned[o] : enabled[a]
    /\ ~serverUp => registrar \in {"idle"} \cup Closing
    /\ serverUp => Managed

\* What an owner adds to the offer, and takes from it.
LEMMA OfferedChange ==
  ASSUME TypeOK, NEW o \in Owners, NEW how,
         registered' = [registered EXCEPT ![o] = how]
  PROVE  /\ how = "yes" => Offered' = Offered \cup Owned[o]
         /\ how # "yes" => Offered' = Offered \ Owned[o]
         /\ how # "yes" /\ registered[o] # "yes" => Offered' = Offered
         /\ registered[o] = "yes" => Owned[o] \subseteq Offered
         /\ \A q \in Owners \ {o} : registered'[q] = registered[q]
         /\ registered'[o] = how
  <1>1. registered'[o] = how /\ \A q \in Owners \ {o} : registered'[q] = registered[q]
    BY DEF TypeOK, RegistrarTypes
  <1>2. \A q \in Owners \ {o} : Owned[q] \cap Owned[o] = {}
    BY OwnerAssumption
  <1> QED BY <1>1, <1>2 DEF Offered

\* The callers and the scheduler's thread leave what is served as it is.
LEMMA OffersKept ==
  ASSUME Offers,
         UNCHANGED <<mapVars, dasVars, owner, todo, registered, serverUp>>,
         registrar' = registrar \/ (registrar = "waitEmpty" /\ registrar' = "deinit"),
         worker' \in {"off", "left"} => worker \in {"off", "left"} \/ in_deinit
  PROVE  Offers'
  <1>1. Offered' = Offered
    BY DEF Offered
  <1>2. Pending' = Pending
    BY DEF Pending
  <1>3. das_map # 0 /\ SchedulerUp => SchedulerUp' \/ registrar # registrar'
    BY DEF SchedulerUp, dasVars
  <1> QED BY <1>1, <1>2, <1>3 DEF Offers, Managed, Closing, mapVars, dasVars

\* registerAction.
LEMMA RegisterOffers ==
  ASSUME TypeOK, Busy, Offers,
         \/ \E o \in Owners : Register(o)
         \/ \E a \in Actions : addActionDescriptor(a)
         \/ AddScheduler \/ setDispatcher
  PROVE  Offers'
  <1> USE OwnerAssumption
  <1>1. ASSUME NEW o \in Owners, Register(o) PROVE Offers'
    <2>1. /\ serverUp /\ registrar = "idle" /\ registrar' = "add" /\ owner' = o /\ todo' = Owned[o]
          /\ UNCHANGED <<mapVars, dasVars, worker, registered, serverUp>>
      BY <1>1 DEF Register, workerVars
    <2>2. Offered' = Offered /\ Pending = {} /\ Pending' = {}
      BY <2>1 DEF Offered, Pending
    <2>3. SchedulerUp => SchedulerUp'
      BY <2>1 DEF SchedulerUp, dasVars
    <2>4. Managed => Managed'
      BY <2>1, <2>2, <2>3 DEF Managed, Closing, mapVars, dasVars
    <2> QED BY <2>1, <2>4 DEF Offers, mapVars
  <1>2. ASSUME NEW a \in Actions, addActionDescriptor(a) PROVE Offers'
    <2>1. /\ registrar = "add" /\ a \in todo
          /\ registrar' = IF todo' = {} THEN "schedule" ELSE "add"
          /\ actionDomainExecutorMap' = TRUE
          /\ actionDescriptionsMap' = actionDescriptionsMap \cup {a}
          /\ todo' = todo \ {a}
          /\ UNCHANGED <<enabled, dasVars, worker, owner, registered, serverUp>>
      BY <1>2 DEF addActionDescriptor, workerVars
    <2>2. Offered' = Offered
      BY <2>1 DEF Offered
    <2>3. ASSUME Managed
          PROVE  Offered' \cup Pending' = (Offered \cup Pending) \cup {a}
                 /\ registrar' \in {"add", "schedule"} /\ todo' \subseteq Owned[owner]
      BY <2>1, <2>2, <2>3 DEF Managed, Pending
    <2>4. SchedulerUp => SchedulerUp'
      BY <2>1 DEF SchedulerUp, dasVars
    <2> QED BY <2>1, <2>2, <2>3, <2>4 DEF Offers, Managed, Closing, dasVars
  <1>3. CASE AddScheduler
    <2>1. registrar = "schedule" /\ UNCHANGED <<mapVars, todo, serverUp>>
      BY <1>3 DEF AddScheduler
    <2>2. owner \in Owners /\ registered[owner] = "new" /\ Pending = Owned[owner]
      BY <2>1 DEF Busy, Pending
    <2>3. CASE das_map # 0
      <3>1. /\ registrar' = "idle" /\ UNCHANGED <<dasVars, worker>>
            /\ registered' = [registered EXCEPT ![owner] = "yes"]
        BY <1>3, <2>3 DEF AddScheduler, Return
      <3>2. Offered' = Offered \cup Owned[owner] /\ Pending' = {}
        BY <2>2, <3>1, OfferedChange DEF Pending
      <3>3. \A q \in Owners : registered'[q] \in {"new", "yes"} => registered[q] \in {"new", "yes"}
        BY <2>2, <3>1, OfferedChange
      <3>4. SchedulerUp => SchedulerUp'
        BY <2>1, <3>1 DEF SchedulerUp, dasVars
      <3> QED BY <2>1, <2>2, <2>3, <3>1, <3>2, <3>3, <3>4
              DEF Offers, Managed, Closing, mapVars, dasVars
    <2>4. CASE das_map = 0
      <3>1. /\ das_map' = das' /\ alive' = TRUE /\ armed' = TRUE /\ in_deinit' = FALSE
            /\ worker' = "loop" /\ registrar' = "dispatcher"
            /\ UNCHANGED <<owner, registered>>
        BY <1>3, <2>4 DEF AddScheduler
      <3>2. das_map' # 0
        BY <1>3, AddsScheduler
      <3>3. Offered' = Offered /\ Pending' = Pending
        BY <2>1, <3>1 DEF Offered, Pending
      <3>4. SchedulerUp'
        BY <3>1 DEF SchedulerUp
      <3> QED BY <2>1, <2>2, <3>1, <3>2, <3>3, <3>4 DEF Offers, Managed, Closing, mapVars
    <2> QED BY <2>3, <2>4
  <1>4. CASE setDispatcher
    <2>1. /\ registrar = "dispatcher" /\ registrar' = "idle" /\ dispatcher' = TRUE
          /\ registered' = [registered EXCEPT ![owner] = "yes"]
          /\ UNCHANGED <<mapVars, das_map, das, alive, armed, in_deinit, worker, serverUp>>
      BY <1>4 DEF setDispatcher, Return, workerVars
    <2>2. owner \in Owners /\ registered[owner] = "new" /\ Pending = Owned[owner]
      BY <2>1 DEF Busy, Pending
    <2>3. Offered' = Offered \cup Owned[owner] /\ Pending' = {}
      BY <2>1, <2>2, OfferedChange DEF Pending
    <2>4. \A q \in Owners : registered'[q] \in {"new", "yes"} => registered[q] \in {"new", "yes"}
      BY <2>1, <2>2, OfferedChange
    <2>5. SchedulerUp => SchedulerUp'
      BY <2>1 DEF SchedulerUp
    <2>6. Owned[owner] # {}
      BY <2>2
    <2> QED BY <2>1, <2>2, <2>3, <2>4, <2>5, <2>6 DEF Offers, Managed, Closing, mapVars
  <1> QED BY <1>1, <1>2, <1>3, <1>4

\* deregisterAction, up to the end of the scheduler.
LEMMA DeregisterOffers ==
  ASSUME TypeOK, Busy, Offers,
         \/ \E o \in Owners : Deregister(o)
         \/ \E a \in Actions : setEnabled(a) \/ eraseActionDescriptor(a)
         \/ RemoveScheduler
  PROVE  Offers'
  <1> USE OwnerAssumption
  <1>1. ASSUME NEW o \in Owners, Deregister(o) PROVE Offers'
    <2>1. /\ serverUp /\ registrar = "idle" /\ registered[o] = "yes" /\ registrar' = "disable"
          /\ owner' = o /\ todo' = Owned[o]
          /\ registered' = [registered EXCEPT ![o] = "leaving"]
          /\ UNCHANGED <<mapVars, dasVars, worker, serverUp>>
      BY <1>1 DEF Deregister, workerVars
    <2>2. /\ Offered' = Offered \ Owned[o] /\ Owned[o] \subseteq Offered
          /\ Pending = {} /\ Pending' = Owned[o] /\ Owned[o] # {}
      BY <2>1, OfferedChange DEF Pending
    <2>3. \A q \in Owners : registered'[q] \in {"new", "yes"} => registered[q] \in {"new", "yes"}
      BY <2>1, OfferedChange
    <2>4. registered'[o] = "leaving"
      BY <2>1, OfferedChange
    <2>5. SchedulerUp => SchedulerUp'
      BY <2>1 DEF SchedulerUp, dasVars
    <2>6. Managed => Managed'
      BY <2>1, <2>2, <2>4, <2>5 DEF Managed, Closing, mapVars, dasVars
    <2> QED BY <2>1, <2>3, <2>6 DEF Offers, mapVars
  <1>2. ASSUME NEW a \in Actions, setEnabled(a) PROVE Offers'
    <2>1. /\ registrar = "disable" /\ registrar' = "erase" /\ a \in todo
          /\ enabled' = [enabled EXCEPT ![a] = FALSE]
          /\ UNCHANGED <<actionDomainExecutorMap, actionDescriptionsMap, dasVars, worker,
                         owner, todo, registered, serverUp>>
      BY <1>2 DEF setEnabled, workerVars
    <2>2. Offered' = Offered /\ Pending' = Pending
      BY <2>1 DEF Offered, Pending
    <2>3. SchedulerUp => SchedulerUp'
      BY <2>1 DEF SchedulerUp, dasVars
    <2>4. ASSUME NEW o \in Owners, registered[o] \in {"new", "yes"}, NEW b \in Owned[o]
          PROVE  enabled'[b]
      <3>1. owner \in Owners /\ registered[owner] = "leaving" /\ a \in Owned[owner]
        BY <2>1 DEF Offers, Managed, Closing
      <3>2. b # a
        BY <2>4, <3>1
      <3> QED BY <2>1, <2>4, <3>2 DEF Offers, TypeOK, MapTypes
    <2> QED BY <2>1, <2>2, <2>3, <2>4 DEF Offers, Managed, Closing, dasVars
  <1>3. ASSUME NEW a \in Actions, eraseActionDescriptor(a) PROVE Offers'
    <2>1. /\ registrar = "erase" /\ a \in todo
          /\ registrar' = IF todo' = {} THEN "unschedule" ELSE "disable"
          /\ actionDescriptionsMap' = actionDescriptionsMap \ {a}
          /\ todo' = todo \ {a}
          /\ UNCHANGED <<enabled, dasVars, worker, owner, registered, serverUp>>
      BY <1>3 DEF eraseActionDescriptor, workerVars
    <2>2. actionDomainExecutorMap' <=> actionDescriptionsMap' # {}
      BY <1>3 DEF eraseActionDescriptor
    <2>3. Offered' = Offered /\ Pending = todo /\ Pending' = todo'
      BY <2>1 DEF Offered, Pending
    <2>4. Managed
      BY <2>1 DEF Offers, Closing
    <2>5. a \notin Offered
      <3>1. owner \in Owners /\ registered[owner] = "leaving" /\ a \in Owned[owner]
        BY <2>1, <2>4 DEF Managed
      <3> QED BY <3>1 DEF Offered
    <2>6. actionDescriptionsMap' = Offered' \cup Pending'
      BY <2>1, <2>3, <2>4, <2>5 DEF Managed
    <2>7. SchedulerUp => SchedulerUp'
      BY <2>1 DEF SchedulerUp, dasVars
    <2> QED BY <2>1, <2>2, <2>3, <2>4, <2>6, <2>7 DEF Offers, Managed, Closing, dasVars
  <1>4. CASE RemoveScheduler
    <2>1. /\ registrar = "unschedule"
          /\ UNCHANGED <<mapVars, das, alive, armed, in_deinit, dispatcher, worker, serverUp>>
      BY <1>4 DEF RemoveScheduler, workerVars
    <2>2. Managed /\ owner \in Owners /\ registered[owner] = "leaving" /\ das_map # 0
      BY <2>1 DEF Offers, Managed, Closing
    <2>3. Pending = {} /\ actionDescriptionsMap = Offered
      BY <2>1, <2>2 DEF Managed, Pending
    <2>4. CASE Offered = {}
      <3>1. das_map' = 0 /\ registrar' = "clear" /\ UNCHANGED <<owner, registered>>
        BY <1>4, <2>2, <2>3, <2>4 DEF RemoveScheduler, Unneeded, Offers
      <3>2. Offered' = Offered /\ Pending' = {}
        BY <3>1 DEF Offered, Pending
      <3> QED BY <2>1, <2>2, <2>3, <2>4, <3>1, <3>2 DEF Offers, Managed, Closing, mapVars
    <2>5. CASE Offered # {}
      <3>1. /\ registrar' = "idle" /\ registered' = [registered EXCEPT ![owner] = "gone"]
            /\ UNCHANGED das_map
        BY <1>4, <2>3, <2>5 DEF RemoveScheduler, Unneeded, Offers, Return
      <3>2. Offered' = Offered /\ Pending' = {}
        BY <2>2, <3>1, OfferedChange DEF Pending
      <3>3. \A q \in Owners : registered'[q] \in {"new", "yes"} => registered[q] \in {"new", "yes"}
        BY <2>2, <3>1, OfferedChange
      <3>4. SchedulerUp => SchedulerUp'
        BY <2>1, <3>1 DEF SchedulerUp
      <3> QED BY <2>1, <2>2, <2>3, <2>5, <3>1, <3>2, <3>3, <3>4
              DEF Offers, Managed, Closing, mapVars
    <2> QED BY <2>4, <2>5
  <1> QED BY <1>1, <1>2, <1>3, <1>4

\* The end of a scheduler, and of the dispatcher.
LEMMA ClosingOffers ==
  ASSUME TypeOK, Offers, clear \/ deinit \/ Join \/ Deinit
  PROVE  Offers'
  <1> USE OwnerAssumption
  <1>1. CASE clear \/ deinit
    <2>1. /\ registrar \in Closing /\ registrar' \in Closing
          /\ UNCHANGED <<mapVars, das_map, owner, registered, serverUp>>
      BY <1>1 DEF clear, deinit, Closing, dasVars
    <2>2. Offered' = Offered /\ Pending = {} /\ Pending' = {}
      BY <2>1 DEF Offered, Pending, Closing
    <2> QED BY <2>1, <2>2 DEF Offers, Managed, Closing, mapVars
  <1>2. CASE Join
    <2>1. registrar = "join" /\ registrar' = "idle" /\ das_map' = 0 /\ UNCHANGED <<mapVars, serverUp>>
      BY <1>2 DEF Join, Return
    <2>2. CASE owner = NoOwner
      <3>1. UNCHANGED registered /\ ~serverUp
        BY <1>2, <2>1, <2>2 DEF Join, Offers, Managed
      <3> QED BY <2>1, <3>1 DEF Offers, mapVars
    <2>3. CASE owner # NoOwner
      <3>1. owner \in Owners /\ registered' = [registered EXCEPT ![owner] = "gone"]
        BY <1>2, <2>3 DEF Join, Return, TypeOK, RegistrarTypes
      <3>2. \A q \in Owners : registered'[q] \in {"new", "yes"} => registered[q] \in {"new", "yes"}
        BY <3>1, OfferedChange
      <3>3. Pending = {} /\ Pending' = {}
        BY <2>1 DEF Pending
      <3>4. ASSUME Managed PROVE Offered' = Offered /\ Offered = {}
        BY <2>1, <3>1, <3>4, OfferedChange DEF Managed, Closing
      <3> QED BY <2>1, <3>2, <3>3, <3>4 DEF Offers, Managed, Closing, mapVars
    <2> QED BY <2>2, <2>3
  <1>3. CASE Deinit
    BY <1>3 DEF Deinit, Offers, Closing, mapVars
  <1> QED BY <1>1, <1>2, <1>3

LEMMA OffersStep ==
  ASSUME TypeOK, Busy, Offers, [Next]_vars
  PROVE  Offers'
  <1>1. CASE UNCHANGED vars
    BY <1>1, OffersKept DEF vars, workerVars, registrarVars
  <1>2. ASSUME NEW t \in Threads, Calling(t) PROVE Offers'
    <2>1. worker' \in {"off", "left"} => worker \in {"off", "left"}
      BY <1>2, CallingWakes
    <2> QED BY <1>2, <2>1, CallingKeeps, OffersKept DEF registrarVars
  <1>3. CASE Work
    <2>1. registrar' = registrar \/ (registrar = "waitEmpty" /\ registrar' = "deinit")
      BY <1>3 DEF Work, TestDeinit, waitAndPop, hasActionName, getActionDescriptor, setFired,
          Call, SubDispatched, Answer, registrarVars
    <2>2. worker' \in {"off", "left"} => worker \in {"off", "left"} \/ in_deinit
      BY <1>3 DEF Work, TestDeinit, Leaves, waitAndPop, hasActionName, getActionDescriptor,
          setFired, Call, SubDispatched, Answer, Ends
    <2> QED BY <1>3, <2>1, <2>2, WorkKeeps, OffersKept
  <1>4. CASE Managing
    BY <1>4, RegisterOffers, DeregisterOffers, ClosingOffers DEF Managing, Registering
  <1> QED BY <1>1, <1>2, <1>3, <1>4, NextSplit

\* While the registrar is outside its methods and the server is up, the domain
\* serves exactly what is registered.
THEOREM ServedAsRegistered == Spec => []RegisteredServed
  <1>1. Init => Offers
    <2> SUFFICES ASSUME Init PROVE Offers
      OBVIOUS
    <2>1. Offered = {} /\ Pending = {}
      BY DEF Init, Offered, Pending
    <2>2. \A o \in Owners : \A a \in Owned[o] : enabled[a]
      BY OwnerAssumption DEF Init
    <2> QED BY <2>1, <2>2 DEF Init, Offers, Managed, Closing
  <1>2. TypeOK /\ Offers => RegisteredServed
    <2> SUFFICES ASSUME TypeOK, Offers, registrar = "idle", serverUp
                 PROVE  RegisteredServed
      BY DEF RegisteredServed
    <2>1. Managed /\ actionDescriptionsMap = Offered
      BY DEF Offers, Managed, Pending
    <2>2. \A a \in Offered : enabled[a]
      BY DEF Offers, Offered
    <2>3. actionDomainExecutorMap = (Offered # {})
      BY <2>1 DEF Offers, TypeOK, MapTypes
    <2>4. das_map # 0 <=> Offered # {}
      BY <2>1 DEF Managed
    <2>5. das_map # 0 => SchedulerUp /\ dispatcher
      BY <2>1 DEF Managed, SchedulerUp
    <2> QED BY <2>1, <2>2, <2>3, <2>4, <2>5 DEF RegisteredServed, Offered, SchedulerUp
  <1> QED BY <1>1, <1>2, OffersStep, Inductive, PTL DEF Spec

=============================================================================
