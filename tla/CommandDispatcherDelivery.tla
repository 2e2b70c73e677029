---------------------- MODULE CommandDispatcherDelivery ----------------------
(***************************************************************************)
(* The dispatcher delivers packs as CommandDelivery says, and uses nothing *)
(* dead while nothing is deregistered.                                     *)
(***************************************************************************)
EXTENDS CommandDispatcherProofs

Distinct(s) == \A i, j \in DOMAIN s : s[i] = s[j] => i = j

Touched(p) == ended[p] # "none" \/ p = job \/ p \in InLine
Given(p) == Touched(p) \/ \E t \in Threads : pack[t] = p

\* A pack is in one place, and a sub command nowhere before its command is run.
Placed ==
    /\ \A t \in Threads : pack[t] # NoPack => ~Touched(pack[t])
    /\ \A t, u \in Threads : pack[t] = pack[u] => t = u \/ pack[t] = NoPack
    /\ Distinct(bufferQueue) /\ job \notin InLine
    /\ job # NoPack => ended[job] = "none"
    /\ \A p \in InLine : ended[p] = "none"
    /\ \A p \in Packs : SubCommand[p] # NoPack /\ Given(SubCommand[p]) =>
            ended[p] # "none" \/ (p = job /\ worker \in {"sub", "answer"})

LEMMA AppendElements ==
  ASSUME NEW S, NEW s \in Seq(S), NEW x \in S, Distinct(s), \A i \in DOMAIN s : s[i] # x
  PROVE  /\ Distinct(Append(s, x))
         /\ \A y : (\E i \in DOMAIN Append(s, x) : Append(s, x)[i] = y)
                        <=> y = x \/ \E i \in DOMAIN s : s[i] = y
  <1>1. Len(s) \in Nat /\ DOMAIN s = 1 .. Len(s)
    OBVIOUS
  <1>2. DOMAIN Append(s, x) = 1 .. Len(s) + 1 /\ Append(s, x)[Len(s) + 1] = x
    BY <1>1
  <1>3. \A i \in DOMAIN s : i \in DOMAIN Append(s, x) /\ Append(s, x)[i] = s[i]
    BY <1>1, <1>2
  <1>4. \A i \in DOMAIN Append(s, x) : i = Len(s) + 1 \/ i \in DOMAIN s
    BY <1>1, <1>2
  <1>5. Distinct(Append(s, x))
    BY <1>2, <1>3, <1>4 DEF Distinct
  <1>6. Len(s) + 1 \in DOMAIN Append(s, x)
    BY <1>1, <1>2
  <1> QED BY <1>2, <1>3, <1>4, <1>5, <1>6

LEMMA TailElements ==
  ASSUME NEW S, NEW s \in Seq(S), s # <<>>, Distinct(s)
  PROVE  /\ Distinct(Tail(s))
         /\ Head(s) \in S /\ \E i \in DOMAIN s : s[i] = Head(s)
         /\ \A y : (\E i \in DOMAIN Tail(s) : Tail(s)[i] = y)
                        <=> y # Head(s) /\ \E i \in DOMAIN s : s[i] = y
  <1>1. Len(s) \in Nat /\ Len(s) >= 1 /\ DOMAIN s = 1 .. Len(s)
    OBVIOUS
  <1>2. Head(s) = s[1] /\ Head(s) \in S
    BY <1>1
  <1>3. DOMAIN Tail(s) = 1 .. Len(s) - 1 /\ \A i \in DOMAIN Tail(s) : Tail(s)[i] = s[i + 1]
    BY <1>1
  <1>4. Distinct(Tail(s))
    BY <1>1, <1>3 DEF Distinct
  <1>5. ASSUME NEW y, NEW i \in DOMAIN s, s[i] = y, y # Head(s)
        PROVE  \E j \in DOMAIN Tail(s) : Tail(s)[j] = y
    <2>1. i - 1 \in DOMAIN Tail(s) /\ (i - 1) + 1 = i
      BY <1>1, <1>2, <1>3, <1>5
    <2> QED BY <1>3, <1>5, <2>1
  <1>6. ASSUME NEW y, NEW i \in DOMAIN Tail(s), Tail(s)[i] = y
        PROVE  y # Head(s) /\ \E j \in DOMAIN s : s[j] = y
    <2>1. i + 1 \in DOMAIN s /\ i + 1 # 1 /\ s[i + 1] = y
      BY <1>1, <1>3, <1>6
    <2> QED BY <1>1, <1>2, <2>1 DEF Distinct
  <1> QED BY <1>1, <1>2, <1>4, <1>5, <1>6

\* The packs stay where they are.
LEMMA PlacedKept ==
  ASSUME Placed, UNCHANGED <<bufferQueue, job, pack, ended>>,
         worker \in {"sub", "answer"} => worker' \in {"sub", "answer"}
  PROVE  Placed'
  BY DEF Placed, Given, Touched, InLine, Distinct

\* A pack leaves the hands of a caller, refused or in the line.
LEMMA PlacedLeft ==
  ASSUME TypeOK, Placed, NEW t \in Threads, pack[t] \in Packs,
         pack' = [pack EXCEPT ![t] = NoPack], UNCHANGED job,
         worker \in {"sub", "answer"} => worker' \in {"sub", "answer"},
         \/ /\ ended' = [ended EXCEPT ![pack[t]] = "refused"]
            /\ UNCHANGED bufferQueue
         \/ /\ bufferQueue' = Append(bufferQueue, pack[t])
            /\ UNCHANGED ended
  PROVE  Placed'
  <1> DEFINE q == pack[t]
  <1>1. ~Touched(q) /\ q # NoPack /\ \A u \in Threads \ {t} : pack[u] # q
    BY PackAssumption DEF Placed
  <1>2. pack'[t] = NoPack /\ \A u \in Threads \ {t} : pack'[u] = pack[u]
    BY DEF TypeOK, CallTypes
  <1>3. /\ Distinct(bufferQueue') /\ job' \notin InLine'
        /\ \A p \in Packs : Touched(p)' <=> Touched(p) \/ p = q
        /\ \A p \in InLine' : ended'[p] = "none"
        /\ job' # NoPack => ended'[job'] = "none"
    <2>1. CASE ended' = [ended EXCEPT ![q] = "refused"] /\ UNCHANGED bufferQueue
      BY <1>1, <2>1 DEF Placed, Touched, InLine, Distinct, TypeOK, PackTypes
    <2>2. CASE bufferQueue' = Append(bufferQueue, q) /\ UNCHANGED ended
      <3>1. \A i \in DOMAIN bufferQueue : bufferQueue[i] # q
        BY <1>1 DEF Touched, InLine
      <3>2. Distinct(bufferQueue') /\ InLine' = InLine \cup {q}
        BY <2>2, <3>1, AppendElements DEF InLine, Placed, TypeOK, WorkerTypes
      <3> QED BY <1>1, <2>2, <3>2 DEF Placed, Touched
    <2> QED BY <2>1, <2>2
  <1>4. \A p \in Packs : Given(p)' => Given(p)
    BY <1>2, <1>3, PackAssumption DEF Given
  <1>5. \A p \in Packs : ended[p] # "none" => ended'[p] # "none"
    BY DEF TypeOK, PackTypes
  <1>6. \A u \in Threads, p \in Packs : pack'[u] = p => ~Touched(p)'
    BY <1>1, <1>2, <1>3, PackAssumption DEF Placed
  <1>7. \A u \in Threads : pack'[u] \in Packs \cup {NoPack}
    BY <1>2 DEF TypeOK, CallTypes
  <1>8. (\A u \in Threads : pack[u] # NoPack => ~Touched(pack[u]))'
    BY <1>6, <1>7
  <1>9. \A p \in Packs : SubCommand[p] # NoPack => SubCommand[p] \in Packs
    BY PackAssumption
  <1> HIDE DEF q
  <1> QED BY <1>2, <1>3, <1>4, <1>5, <1>8, <1>9 DEF Placed

\* The pack being served is ended.
LEMMA PlacedEnded ==
  ASSUME TypeOK, Placed, job \in Packs, NEW how \in {"skipped", "served"}, Ends(how),
         UNCHANGED <<bufferQueue, pack>>
  PROVE  Placed'
  <1>1. job' = NoPack /\ ended' = [ended EXCEPT ![job] = how]
    BY DEF Ends
  <1>2. InLine' = InLine /\ NoPack \notin InLine
    BY PackAssumption DEF InLine, TypeOK, WorkerTypes
  <1>3. \A p \in Packs : Touched(p)' <=> Touched(p)
    BY <1>1, <1>2, PackAssumption DEF Touched, TypeOK, PackTypes
  <1>4. \A p \in Packs : Given(p)' <=> Given(p)
    BY <1>3 DEF Given
  <1>5. \A p \in Packs : ended'[p] # "none" <=> ended[p] # "none" \/ p = job
    BY <1>1 DEF TypeOK, PackTypes
  <1>6. (\A u \in Threads : pack[u] # NoPack => ~Touched(pack[u]))'
    BY <1>3 DEF Placed, TypeOK, CallTypes
  <1>7. \A p \in InLine : p \in Packs /\ p # job
    BY DEF InLine, Placed, TypeOK, WorkerTypes
  <1>8. \A p \in Packs : SubCommand[p] # NoPack => SubCommand[p] \in Packs
    BY PackAssumption
  <1> QED BY <1>1, <1>2, <1>4, <1>5, <1>6, <1>7, <1>8 DEF Placed, Distinct

LEMMA CallingPlaced ==
  ASSUME TypeOK, Busy, Placed, NEW t \in Threads, Calling(t)
  PROVE  Placed' /\ [Delivery!Next]_(Delivery!vars)
  <1>1. worker \in {"sub", "answer"} => worker' \in {"sub", "answer"}
    BY CallingWakes
  <1>2. UNCHANGED <<job, answers>>
    BY CallingKeeps
  <1>3. caller[t] # "idle" => pack[t] \in Packs /\ ~Touched(pack[t])
    BY DEF TypeOK, CallTypes, Busy, Placed
  <1>4. CASE UNCHANGED <<bufferQueue, pack, ended>>
    BY <1>1, <1>2, <1>4, PlacedKept DEF Delivery!vars
  <1>5. ASSUME NEW p \in Packs, Request(t, p) PROVE Placed' /\ [Delivery!Next]_(Delivery!vars)
    <2>1. /\ pack' = [pack EXCEPT ![t] = p] /\ ~Touched(p)
          /\ \A u \in Threads : pack[u] # p
          /\ UNCHANGED <<bufferQueue, ended, worker>>
          /\ p \in Sent
      BY <1>5 DEF Request, Touched, workerVars, packVars
    <2>2. \A q \in Packs : Touched(q)' <=> Touched(q)
      BY <1>2, <2>1 DEF Touched, InLine
    <2>3. pack'[t] = p /\ \A u \in Threads \ {t} : pack'[u] = pack[u]
      BY <2>1 DEF TypeOK, CallTypes
    <2>4. \A q \in Packs : Given(q)' => Given(q) \/ q = p
      BY <2>2, <2>3 DEF Given
    <2>5. \A q \in Packs : SubCommand[q] # NoPack => SubCommand[q] \in Packs /\ SubCommand[q] # p
      BY <2>1, PackAssumption DEF Sent
    <2>6. (\A u \in Threads : pack[u] # NoPack => ~Touched(pack[u]))'
      BY <2>1, <2>2, <2>3 DEF Placed, TypeOK, CallTypes
    <2>7. Placed'
      BY <1>2, <2>1, <2>3, <2>4, <2>5, <2>6 DEF Placed, InLine, Distinct
    <2> QED BY <1>2, <2>1, <2>7 DEF Delivery!vars
  <1>6. CASE caller[t] # "idle" /\ Refused(t) /\ UNCHANGED bufferQueue
    <2>1. Placed'
      BY <1>1, <1>2, <1>3, <1>6, PlacedLeft DEF Refused
    <2>2. Delivery!Refuse(pack[t])
      BY <1>2, <1>3, <1>6 DEF Refused, Touched, InLine, Delivery!Refuse, Delivery!Untouched,
          Delivery!Waiting
    <2> QED BY <1>3, <1>6, <2>1, <2>2 DEF Delivery!Next
  <1>7. CASE /\ caller[t] # "idle" /\ bufferQueue' = Append(bufferQueue, pack[t])
             /\ pack' = [pack EXCEPT ![t] = NoPack] /\ UNCHANGED ended
    <2>1. Placed'
      BY <1>1, <1>2, <1>3, <1>7, PlacedLeft
    <2>2. Delivery!Accept(pack[t])
      BY <1>2, <1>3, <1>7 DEF Touched, InLine, Delivery!Accept, Delivery!Untouched,
          Delivery!Waiting
    <2> QED BY <1>3, <1>7, <2>1, <2>2 DEF Delivery!Next
  <1> QED
    BY <1>4, <1>5, <1>6, <1>7 DEF Calling, Dispatch, CountDomain, IndexDomain, push, packVars

LEMMA WorkPlaced ==
  ASSUME TypeOK, Busy, Placed, Work
  PROVE  Placed' /\ [Delivery!Next]_(Delivery!vars)
  <1>1. CASE /\ UNCHANGED <<bufferQueue, job, pack, ended, answers>>
             /\ worker \in {"sub", "answer"} => worker' \in {"sub", "answer"}
    BY <1>1, PlacedKept DEF Delivery!vars
  <1>2. CASE worker = "pop" /\ bufferQueue # <<>> /\ pop /\ UNCHANGED <<pack, packVars>>
    <2>1. job = NoPack /\ job' = Head(bufferQueue) /\ bufferQueue' = Tail(bufferQueue)
      BY <1>2 DEF Busy, Serving, pop
    <2>2. /\ Distinct(bufferQueue') /\ job' \in InLine /\ job' \in Packs
          /\ InLine' = InLine \ {job'}
      BY <1>2, <2>1, TailElements DEF InLine, Placed, TypeOK, WorkerTypes
    <2>3. UNCHANGED ended
      BY <1>2 DEF packVars
    <2>4. \A p \in Packs : Touched(p)' <=> Touched(p)
      BY <2>1, <2>2, <2>3, PackAssumption DEF Touched
    <2>5. \A p \in Packs : Given(p)' <=> Given(p)
      BY <1>2, <2>4 DEF Given
    <2>6. (\A u \in Threads : pack[u] # NoPack => ~Touched(pack[u]))'
      BY <1>2, <2>4 DEF Placed, TypeOK, CallTypes
    <2>7. \A p \in Packs : SubCommand[p] # NoPack => SubCommand[p] \in Packs
      BY PackAssumption
    <2>8. Placed'
      BY <1>2, <2>2, <2>3, <2>5, <2>6, <2>7 DEF Placed
    <2>9. Delivery!Take
      BY <1>2, <2>1 DEF Delivery!Take, packVars
    <2> QED BY <2>8, <2>9 DEF Delivery!Next
  <1>3. ASSUME NEW how \in {"skipped", "served"}, worker \in Serving, Ends(how),
               UNCHANGED <<bufferQueue, pack>>,
               answers' = answers \/ (how = "served" /\ answers' = [answers EXCEPT ![job] = @ + 1])
        PROVE  Placed' /\ [Delivery!Next]_(Delivery!vars)
    <2>1. job \in Packs
      BY <1>3 DEF Busy, TypeOK, WorkerTypes
    <2>2. Placed'
      BY <1>3, <2>1, PlacedEnded
    <2>3. Delivery!Serve \/ Delivery!Skip
      BY <1>3, <2>1, PackAssumption DEF Ends, Delivery!Serve, Delivery!Skip
    <2> QED BY <2>2, <2>3 DEF Delivery!Next
  <1>4. CASE Call /\ worker' = "sub"
    <2>1. /\ job \in Packs /\ worker = "call" /\ SubCommand[job] # NoPack
          /\ pack' = [pack EXCEPT ![Worker] = SubCommand[job]]
          /\ UNCHANGED <<bufferQueue, job, packVars>>
      BY <1>4 DEF Call, HasSubCommand, Busy, Serving, TypeOK, WorkerTypes
    <2> DEFINE q == SubCommand[job]
    <2>2. q \in Packs
      BY <2>1, PackAssumption
    <2>3. ~Given(q)
      BY <2>1, PackAssumption DEF Placed
    <2>4. \A p \in Packs : Touched(p)' <=> Touched(p)
      BY <2>1 DEF Touched, InLine, packVars
    <2>5. Worker \in Threads /\ pack'[Worker] = q /\ \A u \in Threads \ {Worker} : pack'[u] = pack[u]
      BY <2>1 DEF Threads, TypeOK, CallTypes
    <2>6. \A p \in Packs : Given(p)' => Given(p) \/ p = q
      BY <2>4, <2>5 DEF Given
    <2>7. (\A u \in Threads : pack[u] # NoPack => ~Touched(pack[u]))'
      BY <2>2, <2>3, <2>4, <2>5 DEF Given, Placed, TypeOK, CallTypes
    <2>8. \A p \in Packs : /\ SubCommand[p] # NoPack => SubCommand[p] \in Packs
                           /\ SubCommand[p] = q => p = job
      BY <2>1, <2>2, PackAssumption
    <2>9. \A u \in Threads : pack[u] # q
      BY <2>3 DEF Given
    <2>10. Placed'
      <3> HIDE DEF q
      <3> QED
        BY <1>4, <2>1, <2>5, <2>6, <2>7, <2>8, <2>9 DEF Placed, InLine, Distinct, packVars
    <2> QED BY <2>1, <2>10 DEF Delivery!vars, packVars
  <1>5. CASE TestDeinit \/ getActionDescriptor \/ SubDispatched
    BY <1>1, <1>5 DEF TestDeinit, getActionDescriptor, SubDispatched, callVars, packVars
  <1>6. CASE waitAndPop
    BY <1>1, <1>2, <1>6 DEF waitAndPop, callVars, packVars
  <1>7. CASE hasActionName \/ setFired
    BY <1>1, <1>3, <1>7 DEF hasActionName, setFired, Serving, callVars
  <1>8. CASE Call
    BY <1>1, <1>4, <1>8 DEF Call, packVars
  <1>9. CASE Answer
    BY <1>1, <1>3, <1>9 DEF Answer, Serving, callVars, packVars
  <1> QED BY <1>5, <1>6, <1>7, <1>8, <1>9 DEF Work

LEMMA ManagingPlaced ==
  ASSUME TypeOK, Busy, Placed, Managing
  PROVE  Placed' /\ [Delivery!Next]_(Delivery!vars)
  <1>1. UNCHANGED <<job, pack, answers>>
    BY ManagingKeeps DEF callVars
  <1>2. worker \in {"sub", "answer"} => worker' \in {"sub", "answer"}
    BY DEF WakeWorker, workerVars, Busy, Closing, Managing, Register, Deregister, Registering,
        addActionDescriptor, setEnabled, eraseActionDescriptor, AddScheduler, setDispatcher,
        RemoveScheduler, clear, deinit, Join, Deinit
  <1>3. CASE UNCHANGED <<bufferQueue, ended>>
    BY <1>1, <1>2, <1>3, PlacedKept DEF Delivery!vars
  <1>4. CASE clear
    <2>1. bufferQueue' = <<>>
          /\ ended' = [p \in Packs |-> IF p \in InLine THEN "flushed" ELSE ended[p]]
      BY <1>4 DEF clear
    <2>2. InLine' = {} /\ Distinct(bufferQueue') /\ \A p \in InLine : p \in Packs
      BY <2>1 DEF InLine, Distinct, TypeOK, WorkerTypes
    <2>3. \A p \in Packs : Touched(p)' <=> Touched(p)
      BY <1>1, <2>1, <2>2 DEF Touched
    <2>4. \A p \in Packs : Given(p)' <=> Given(p)
      BY <1>1, <2>3 DEF Given
    <2>5. (\A u \in Threads : pack[u] # NoPack => ~Touched(pack[u]))'
      BY <1>1, <2>3 DEF Placed, TypeOK, CallTypes
    <2>6. \A p \in Packs : SubCommand[p] # NoPack => SubCommand[p] \in Packs
      BY PackAssumption
    <2>7. \A p \in Packs : ended[p] # "none" => ended'[p] # "none"
      BY <2>1
    <2>8. job # NoPack => ended'[job] = "none"
      BY <2>1 DEF Placed, TypeOK, WorkerTypes
    <2>9. Placed'
      BY <1>1, <1>2, <2>2, <2>4, <2>5, <2>6, <2>7, <2>8 DEF Placed
    <2>10. Delivery!Flush \/ UNCHANGED <<bufferQueue, ended>>
      <3>1. CASE bufferQueue = <<>>
        <4>1. InLine = {}
          BY <3>1 DEF InLine
        <4> QED BY <2>1, <3>1, <4>1 DEF TypeOK, PackTypes
      <3>2. CASE bufferQueue # <<>>
        BY <1>1, <2>1, <3>2 DEF Delivery!Flush, Delivery!Waiting, InLine
      <3> QED BY <3>1, <3>2
    <2> QED BY <1>1, <2>9, <2>10 DEF Delivery!Next, Delivery!vars
  <1> QED
    BY <1>3, <1>4 DEF packVars, Managing, Register, Deregister, Registering,
        addActionDescriptor, setEnabled, eraseActionDescriptor, AddScheduler, setDispatcher,
        RemoveScheduler, deinit, Join, Deinit

\* The dispatcher, its schedulers and their queue implement the delivery of packs.
THEOREM DispatcherDelivers == Spec => Delivers
  <1>1. Init => Placed /\ Delivery!Init
    <2> SUFFICES ASSUME Init PROVE Placed /\ Delivery!Init
      OBVIOUS
    <2>1. InLine = {} /\ Distinct(bufferQueue)
      BY DEF Init, InLine, Distinct
    <2>2. \A p \in Packs : p # NoPack /\ ~Given(p)
      BY <2>1, PackAssumption DEF Init, Given, Touched
    <2>3. Placed
      BY <2>1, <2>2, PackAssumption DEF Init, Placed
    <2> QED BY <2>3 DEF Init, Delivery!Init
  <1>2. TypeOK /\ Busy /\ Placed /\ [Next]_vars => Placed' /\ [Delivery!Next]_(Delivery!vars)
    <2> SUFFICES ASSUME TypeOK, Busy, Placed, [Next]_vars
                 PROVE  Placed' /\ [Delivery!Next]_(Delivery!vars)
      OBVIOUS
    <2>1. CASE UNCHANGED vars
      <3>1. UNCHANGED <<bufferQueue, job, pack, ended, answers, worker>>
        BY <2>1 DEF vars, workerVars, callVars, packVars
      <3> QED BY <3>1, PlacedKept DEF Delivery!vars
    <2> QED BY <2>1, NextSplit, CallingPlaced, WorkPlaced, ManagingPlaced
  <1> QED BY <1>1, <1>2, Inductive, PTL DEF Spec, Delivers, Delivery!Spec

-----------------------------------------------------------------------------
Calm == \A o \in Owners : registered[o] \in {"new", "yes"}

\* While nothing is deregistered, what a thread has looked up is there.
Safe ==
    Calm =>
        /\ crashed => registrar = "dispatcher"
        /\ registrar \in {"idle", "add", "schedule", "dispatcher"} \cup Closing
        /\ registrar \in Closing => ~serverUp /\ das_map # 0
        /\ ~serverUp => \A t \in Callers : caller[t] = "idle"
        /\ das_map # 0 => das_map = das /\ alive /\ (dispatcher \/ registrar = "dispatcher")
        /\ worker # "off" => das_map # 0
        /\ worker = "get" => ActionName[job] \in actionDescriptionsMap
        /\ \A t \in Threads :
              /\ caller[t] \in {"index", "push"} => das_map # 0
              /\ caller[t] = "push" => target[t] = das

\* An owner that is being deregistered never comes back.
LEMMA CalmBefore ==
  ASSUME TypeOK, Busy, [Next]_vars, Calm'
  PROVE  Calm
  <1>1. CASE UNCHANGED registered
    BY <1>1 DEF Calm
  <1>2. CASE Managing
    <2>1. \/ UNCHANGED registered
          \/ \E o \in Owners : registered' = [registered EXCEPT ![o] = "leaving"]
          \/ registered' = [registered EXCEPT ![owner] = "gone"]
          \/ registrar \in {"schedule", "dispatcher"} /\ registered' = [registered EXCEPT ![owner] = "yes"]
      BY <1>2 DEF Return, registrarVars, Managing, Register, Deregister, Registering,
        addActionDescriptor, setEnabled, eraseActionDescriptor, AddScheduler, setDispatcher,
        RemoveScheduler, clear, deinit, Join, Deinit
    <2>2. registrar \in {"schedule", "dispatcher"} => registered[owner] = "new"
      BY DEF Busy
    <2> QED BY <2>1, <2>2 DEF Calm, TypeOK, RegistrarTypes
  <1> QED
    BY <1>1, <1>2, NextSplit, CallingKeeps, WorkKeeps DEF vars, registrarVars

LEMMA CallingSafe ==
  ASSUME TypeOK, Busy, Safe, Calm, NEW t \in Threads, Calling(t)
  PROVE  Safe'
  <1>1. UNCHANGED <<mapVars, dasVars, job, registrarVars>>
    BY CallingKeeps
  <1>2. worker' = worker \/ (worker = "wait" /\ worker' = "pop")
    BY CallingWakes
  <1>3. \A u \in Threads \ {t} : caller'[u] = caller[u] /\ target'[u] = target[u]
    BY DEF TypeOK, CallTypes, Calling, Dispatch, Request, CountDomain, IndexDomain, push, Refused
  <1>4. /\ caller'[t] \in {"index", "push"} => das_map # 0
        /\ caller'[t] = "push" => target'[t] = das
        /\ caller'[t] # "idle" => caller[t] # "idle" \/ (t \in Callers /\ serverUp)
    BY DEF TypeOK, CallTypes, Safe, Calling, Dispatch, Request, CountDomain, IndexDomain, push,
        Refused
  <1>5. ~crashed /\ UNCHANGED crashed
    <2>1. caller[t] = "push" => ~Destroyed(t)
      BY DEF Safe, Destroyed
    <2>2. caller[t] = "index" => das_map # 0
      BY DEF Safe
    <2> QED
      BY <2>1, <2>2 DEF Calling, Dispatch, Request, CountDomain, IndexDomain, push
  <1>6. /\ registrar \in {"idle", "add", "schedule", "dispatcher"} \cup Closing
        /\ registrar \in Closing => ~serverUp /\ das_map # 0
        /\ das_map # 0 => das_map = das /\ alive /\ (dispatcher \/ registrar = "dispatcher")
    BY DEF Safe
  <1>7. worker' # "off" => das_map # 0
    BY <1>2 DEF Safe
  <1>8. worker' = "get" => ActionName[job] \in actionDescriptionsMap
    BY <1>2 DEF Safe
  <1>9. ~serverUp => \A u \in Callers : caller'[u] = "idle"
    BY <1>3, <1>4 DEF Safe, Threads
  <1>10. \A u \in Threads : /\ caller'[u] \in {"index", "push"} => das_map # 0
                            /\ caller'[u] = "push" => target'[u] = das
    BY <1>3, <1>4 DEF Safe
  <1> QED
    BY <1>1, <1>5, <1>6, <1>7, <1>8, <1>9, <1>10 DEF Safe, Calm, mapVars, dasVars, registrarVars

LEMMA WorkSafe ==
  ASSUME TypeOK, Busy, Safe, Calm, Work
  PROVE  Safe'
  <1>1. UNCHANGED <<mapVars, dasVars, target, owner, todo, registered, serverUp>>
    BY WorkKeeps
  <1>2. ~crashed /\ (crashed' => registrar = "dispatcher" /\ UNCHANGED registrar)
    <2>1. dispatcher \/ registrar = "dispatcher"
      BY DEF Safe, Work, TestDeinit, waitAndPop, hasActionName, getActionDescriptor, setFired,
          Call, SubDispatched, Answer
    <2>2. worker = "get" => ActionName[job] \in actionDescriptionsMap
      BY DEF Safe
    <2>3. CASE getActionDescriptor
      BY <2>2, <2>3 DEF getActionDescriptor
    <2>4. CASE Call
      BY <2>1, <2>4 DEF Call, registrarVars
    <2>5. CASE Answer
      BY <2>1, <2>5 DEF Answer, registrarVars
    <2> QED
      BY <2>3, <2>4, <2>5 DEF Work, TestDeinit, waitAndPop, hasActionName, setFired, SubDispatched
  <1>3. worker # "off" /\ (worker' = "get" => ActionName[job'] \in actionDescriptionsMap)
    BY DEF Safe, Work, TestDeinit, waitAndPop, hasActionName, getActionDescriptor, setFired,
        Call, SubDispatched, Answer, Ends
  <1>4. registrar' = registrar \/ (registrar = "waitEmpty" /\ registrar' = "deinit")
    BY DEF Work, TestDeinit, waitAndPop, hasActionName, getActionDescriptor, setFired, Call,
        SubDispatched, Answer, registrarVars
  <1>5. \A u \in Threads : caller'[u] = caller[u] \/ (u = Worker /\ caller'[u] = "count")
    BY DEF TypeOK, CallTypes, Work, TestDeinit, waitAndPop, hasActionName, getActionDescriptor,
        setFired, Call, SubDispatched, Answer, callVars
  <1>6. ~serverUp => \A u \in Callers : caller'[u] = "idle"
    BY <1>5, ThreadAssumption DEF Safe, Threads
  <1>7. \A u \in Threads : /\ caller'[u] \in {"index", "push"} => das_map # 0
                           /\ caller'[u] = "push" => target[u] = das
    BY <1>5 DEF Safe
  <1>8. /\ das_map # 0
        /\ das_map = das /\ alive /\ (dispatcher \/ registrar' = "dispatcher")
        /\ registrar' \in {"idle", "add", "schedule", "dispatcher"} \cup Closing
        /\ registrar' \in Closing => ~serverUp
    BY <1>3, <1>4 DEF Safe, Closing
  <1> QED
    BY <1>1, <1>2, <1>3, <1>6, <1>7, <1>8 DEF Safe, Calm, mapVars, dasVars

LEMMA ManagingSafe ==
  ASSUME TypeOK, Busy, Safe, Calm, Calm', Managing
  PROVE  Safe'
  <1>1. UNCHANGED <<job, caller, target, crashed>>
    BY ManagingKeeps DEF callVars
  <1>2. ~crashed
    BY DEF Managing, Register, Deregister, Registering, addActionDescriptor, setEnabled,
        eraseActionDescriptor, AddScheduler, setDispatcher, RemoveScheduler, clear, deinit,
        Join, Deinit
  <1>3. /\ registrar \in {"idle", "add", "schedule", "dispatcher"} \cup Closing
        /\ registrar \in Closing => ~serverUp /\ das_map # 0
        /\ ~serverUp => \A t \in Callers : caller[t] = "idle"
        /\ das_map # 0 => das_map = das /\ alive /\ (dispatcher \/ registrar = "dispatcher")
        /\ worker # "off" => das_map # 0
        /\ worker = "get" => ActionName[job] \in actionDescriptionsMap
        /\ \A t \in Threads :
              /\ caller[t] \in {"index", "push"} => das_map # 0
              /\ caller[t] = "push" => target[t] = das
    BY DEF Safe
  <1>4. ASSUME registrar' \in {"idle", "add", "schedule", "dispatcher"} \cup Closing,
               registrar' \in Closing => ~serverUp' /\ das_map' # 0,
               ~serverUp' => \A t \in Callers : caller[t] = "idle",
               das_map' # 0 => das_map' = das' /\ alive' /\ (dispatcher' \/ registrar' = "dispatcher"),
               worker' # "off" => das_map' # 0,
               worker' = "get" => ActionName[job] \in actionDescriptionsMap',
               \A t \in Threads : /\ caller[t] \in {"index", "push"} => das_map' # 0
                                  /\ caller[t] = "push" => target[t] = das'
        PROVE  Safe'
    BY <1>1, <1>2, <1>4 DEF Safe
  <1>5. ASSUME NEW o \in Owners, Register(o) PROVE Safe'
    BY <1>3, <1>4, <1>5 DEF Register, Closing, mapVars, dasVars, workerVars
  <1>6. ASSUME NEW o \in Owners, Deregister(o) PROVE FALSE
    BY <1>6 DEF Deregister, Calm, TypeOK, RegistrarTypes
  <1>7. ASSUME NEW a \in Actions, addActionDescriptor(a) PROVE Safe'
    BY <1>3, <1>4, <1>7 DEF addActionDescriptor, Closing, dasVars, workerVars
  <1>8. ASSUME NEW a \in Actions, setEnabled(a) \/ eraseActionDescriptor(a) \/ RemoveScheduler
        PROVE  FALSE
    BY <1>3, <1>8 DEF setEnabled, eraseActionDescriptor, RemoveScheduler, Closing
  <1>9. CASE AddScheduler
    <2>1. CASE das_map # 0
      <3>1. /\ registrar = "schedule" /\ registrar' = "idle"
            /\ UNCHANGED <<actionDescriptionsMap, das_map, das, alive, dispatcher, worker, serverUp>>
        BY <1>9, <2>1 DEF AddScheduler, Return, mapVars, dasVars
      <3>2. registrar' \notin Closing
        BY <3>1 DEF Closing
      <3>3. das_map = das /\ alive /\ dispatcher
        BY <1>3, <2>1, <3>1
      <3> QED BY <1>3, <1>4, <2>1, <3>1, <3>2, <3>3
    <2>2. CASE das_map = 0
      <3>1. das_map' = das' /\ das' # 0 /\ alive' /\ worker' = "loop" /\ registrar' = "dispatcher"
            /\ UNCHANGED serverUp
        BY <1>9, <2>2 DEF AddScheduler, TypeOK, SchedulerTypes
      <3>2. \A t \in Threads : caller[t] \notin {"index", "push"}
        BY <1>3, <2>2
      <3>3. registrar' \notin Closing /\ worker' # "get"
        BY <3>1 DEF Closing
      <3> QED BY <1>3, <1>4, <3>1, <3>2, <3>3
    <2> QED BY <2>1, <2>2
  <1>10. CASE setDispatcher
    BY <1>3, <1>4, <1>10 DEF setDispatcher, Closing, Return, mapVars, workerVars
  <1>11. CASE Deinit
    BY <1>3, <1>4, <1>11 DEF Deinit, Closing, mapVars, dasVars, workerVars
  <1>12. CASE clear
    BY <1>3, <1>4, <1>12 DEF clear, Closing, mapVars, dasVars, workerVars
  <1>13. CASE deinit
    BY <1>3, <1>4, <1>13 DEF deinit, Closing, WakeWorker, mapVars
  <1>14. CASE Join
    <2>1. \A t \in Threads : caller[t] = "idle"
      BY <1>3, <1>14 DEF Join, Closing, Threads, Busy
    <2>2. das_map' = 0 /\ worker' = "off" /\ registrar' = "idle" /\ UNCHANGED serverUp
      BY <1>14 DEF Join, Return
    <2> QED BY <1>4, <2>1, <2>2 DEF Closing, Threads
  <1> QED
    BY <1>5, <1>6, <1>7, <1>8, <1>9, <1>10, <1>11, <1>12, <1>13, <1>14
        DEF Managing, Registering, RemoveScheduler, Safe, Closing

\* Without a deregistration nothing dead is used, but for a scheduler that has
\* not been told its dispatcher.
THEOREM DispatchIsSafe == Spec => []UnlockedDispatchSafe
  <1>1. Init => Safe
    BY DEF Init, Safe, Closing, Threads
  <1>2. TypeOK /\ Busy /\ Safe /\ [Next]_vars => Safe'
    <2> SUFFICES ASSUME TypeOK, Busy, Safe, [Next]_vars, Calm' PROVE Safe'
      BY DEF Safe
    <2>1. Calm
      BY CalmBefore
    <2>2. CASE UNCHANGED vars
      BY <2>2 DEF Safe, Calm, Closing, vars, mapVars, dasVars, workerVars, callVars, registrarVars
    <2> QED BY <2>1, <2>2, NextSplit, CallingSafe, WorkSafe, ManagingSafe
  <1>3. TypeOK /\ Safe => UnlockedDispatchSafe
    BY DEF TypeOK, RegistrarTypes, Safe, Calm, UnlockedDispatchSafe
  <1> QED BY <1>1, <1>2, <1>3, Inductive, PTL DEF Spec
=============================================================================
