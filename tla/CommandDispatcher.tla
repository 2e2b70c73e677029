------------------------- MODULE CommandDispatcher -------------------------
(***************************************************************************)
(* The RPC commands of one domain: the default command dispatcher, the     *)
(* domain's container of actions, the domain's scheduler and the           *)
(* processing queue under it (chaos/common/dispatcher, chaos/common/action *)
(* and chaos/common/pqueue).                                               *)
(*                                                                         *)
(* The threads: the RPC server's callers run dispatchCommand, which takes  *)
(* no lock; one registrar registers and deregisters DeclareAction objects  *)
(* (owners) and at the end deinitializes the dispatcher; the scheduler's   *)
(* one thread serves the queue and may itself dispatch a sub command.      *)
(*                                                                         *)
(* The registrar being one thread, das_map_mutex is never contended, and   *)
(* the domain's container is also its scheduler's (a new one is made only  *)
(* after the scheduler of the old one is gone).  A critical section of the *)
(* queue's mutex is one step.  At most one scheduler object is alive (the  *)
(* registrar joins its thread before it goes), so its fields are           *)
(* variables, and das, its number, tells it from older ones.               *)
(* After a use of a null or dangling pointer the behaviour is undefined:   *)
(* crashed is set and nothing more happens.                                *)
(***************************************************************************)
EXTENDS Naturals, Sequences

CONSTANTS
    Packs, NoPack,
    Actions, Owners, NoOwner,
    Owned,                          \* the actions each owner declares
    Callers, Worker,
    ActionName,                     \* the action each pack asks for
    SubCommand,                     \* the pack it carries, or NoPack
    NeedAnswer,                     \* the packs that ask for an answer
    MAX_ELEMENT_IN_QUEUE

ASSUME PackAssumption ==
    /\ NoPack \notin Packs
    /\ ActionName \in [Packs -> Actions]
    /\ SubCommand \in [Packs -> Packs \cup {NoPack}]
    /\ \A p, q \in Packs : SubCommand[p] = SubCommand[q] => p = q \/ SubCommand[p] = NoPack
    /\ NeedAnswer \subseteq Packs
ASSUME OwnerAssumption ==
    /\ NoOwner \notin Owners
    /\ Owned \in [Owners -> SUBSET Actions]
    /\ \A o, q \in Owners : o # q => Owned[o] \cap Owned[q] = {}
    /\ \A o \in Owners : Owned[o] # {}
ASSUME ThreadAssumption == Worker \notin Callers
ASSUME QueueAssumption == MAX_ELEMENT_IN_QUEUE \in Nat

Threads == Callers \cup {Worker}
Sent == Packs \ {SubCommand[p] : p \in Packs}

VARIABLES
    actionDomainExecutorMap,        \* the domain has a container
    actionDescriptionsMap,          \* the actions in it
    enabled,                        \* of each action descriptor
    das_map,                        \* the domain's scheduler, 0 if it has none
    das,                            \* the last scheduler made, and its fields
    alive, armed, in_deinit, dispatcher, bufferQueue,
    worker, job,                    \* its thread, and the pack it serves
    caller, pack, target,           \* dispatchCommand in each thread
    registrar, owner, todo,         \* the registrar's step
    registered,                     \* how far each owner is
    serverUp,                       \* the RPC server takes requests
    ended, answers,                 \* what became of each pack
    crashed

mapVars == <<actionDomainExecutorMap, actionDescriptionsMap, enabled>>
dasVars == <<das_map, das, alive, armed, in_deinit, dispatcher>>
workerVars == <<worker, job>>
callVars == <<caller, pack, target>>
registrarVars == <<registrar, owner, todo, registered, serverUp>>
packVars == <<ended, answers>>

vars == <<mapVars, dasVars, bufferQueue, workerVars, callVars, registrarVars,
          packVars, crashed>>

Init ==
    /\ actionDomainExecutorMap = FALSE /\ actionDescriptionsMap = {}
    /\ enabled = [a \in Actions |-> TRUE]
    /\ das_map = 0 /\ das = 0
    /\ alive = FALSE /\ armed = FALSE /\ in_deinit = FALSE
    /\ dispatcher = FALSE /\ bufferQueue = <<>>
    /\ worker = "off" /\ job = NoPack
    /\ caller = [t \in Threads |-> "idle"]
    /\ pack = [t \in Threads |-> NoPack]
    /\ target = [t \in Threads |-> 0]
    /\ registrar = "idle" /\ owner = NoOwner /\ todo = {}
    /\ registered = [o \in Owners |-> "new"]
    /\ serverUp = TRUE
    /\ ended = [p \in Packs |-> "none"]
    /\ answers = [p \in Packs |-> 0]
    /\ crashed = FALSE

InLine == {bufferQueue[i] : i \in DOMAIN bufferQueue}

-----------------------------------------------------------------------------
(* dispatchCommand *)

Refused(t) ==
    /\ ended' = [ended EXCEPT ![pack[t]] = "refused"]
    /\ caller' = [caller EXCEPT ![t] = "idle"]
    /\ pack' = [pack EXCEPT ![t] = NoPack]
    /\ UNCHANGED answers

\* The RPC server hands over a request.
Request(t, p) ==
    /\ ~crashed
    /\ serverUp /\ caller[t] = "idle"
    /\ p \in Sent /\ ended[p] = "none" /\ p # job /\ p \notin InLine
    /\ \A u \in Threads : pack[u] # p
    /\ caller' = [caller EXCEPT ![t] = "count"]
    /\ pack' = [pack EXCEPT ![t] = p]
    /\ UNCHANGED <<mapVars, dasVars, bufferQueue, workerVars, target,
                   registrarVars, packVars, crashed>>

CountDomain(t) ==
    /\ ~crashed
    /\ caller[t] = "count"
    /\ \/ /\ das_map = 0
          /\ Refused(t)
       \/ /\ das_map # 0
          /\ caller' = [caller EXCEPT ![t] = "index"]
          /\ UNCHANGED <<pack, packVars>>
    /\ UNCHANGED <<mapVars, dasVars, bufferQueue, workerVars, target,
                   registrarVars, crashed>>

\* das_map[domain]: a null pointer if the entry is gone by now.
IndexDomain(t) ==
    /\ ~crashed
    /\ caller[t] = "index"
    /\ \/ /\ das_map = 0
          /\ crashed' = TRUE
          /\ UNCHANGED <<caller, target>>
       \/ /\ das_map # 0
          /\ target' = [target EXCEPT ![t] = das_map]
          /\ caller' = [caller EXCEPT ![t] = "push"]
          /\ UNCHANGED crashed
    /\ UNCHANGED <<mapVars, dasVars, bufferQueue, workerVars, pack,
                   registrarVars, packVars>>

Destroyed(t) == ~alive \/ target[t] # das

\* Tested before the element is added: the queue takes one more than this.
Full == Len(bufferQueue) > MAX_ELEMENT_IN_QUEUE

\* Slip: nobody is notified.
WakeWorker_Never == worker' = worker

WakeWorker == worker' = IF worker = "wait" THEN "pop" ELSE worker

push(t) ==
    /\ ~crashed
    /\ caller[t] = "push"
    /\ \/ /\ Destroyed(t)
          /\ crashed' = TRUE
          /\ UNCHANGED <<bufferQueue, worker, caller, pack, packVars>>
       \/ /\ ~Destroyed(t)
          /\ ~armed \/ in_deinit \/ Full
          /\ Refused(t)
          /\ UNCHANGED <<bufferQueue, worker, crashed>>
       \/ /\ ~Destroyed(t)
          /\ armed /\ ~in_deinit /\ ~Full
          /\ bufferQueue' = Append(bufferQueue, pack[t])
          /\ WakeWorker
          /\ caller' = [caller EXCEPT ![t] = "idle"]
          /\ pack' = [pack EXCEPT ![t] = NoPack]
          /\ UNCHANGED <<packVars, crashed>>
    /\ UNCHANGED <<mapVars, dasVars, job, target, registrarVars>>

-----------------------------------------------------------------------------
(* The scheduler's thread: executeOnThread, waitAndPop, processBufferElement *)

\* The read lock on the action the job asks for, held while it runs.
Running == {"call", "sub", "answer"}
Holds(a) == worker \in Running /\ ActionName[job] = a

\* The element is deleted and the loop goes on.
Ends(how) ==
    /\ ended' = [ended EXCEPT ![job] = how]
    /\ job' = NoPack /\ worker' = "loop"

\* Slip: the loop does not test the flag.
Leaves_Never == FALSE

Leaves == in_deinit

TestDeinit ==
    /\ ~crashed
    /\ worker = "loop"
    /\ worker' = IF Leaves THEN "left" ELSE "pop"
    /\ UNCHANGED <<mapVars, dasVars, bufferQueue, job, callVars, registrarVars,
                   packVars, crashed>>

\* Slip: the element stays in the queue.
pop_Kept == job' = Head(bufferQueue) /\ UNCHANGED bufferQueue

pop == job' = Head(bufferQueue) /\ bufferQueue' = Tail(bufferQueue)

waitAndPop ==
    /\ ~crashed
    /\ worker = "pop"
    /\ \/ /\ bufferQueue = <<>> /\ ~in_deinit
          /\ worker' = "wait"
          /\ registrar' = IF registrar = "waitEmpty" THEN "deinit" ELSE registrar
          /\ UNCHANGED <<bufferQueue, job>>
       \/ /\ bufferQueue = <<>> /\ in_deinit
          /\ worker' = "loop"
          /\ UNCHANGED <<bufferQueue, job, registrar>>
       \/ /\ bufferQueue # <<>>
          /\ pop
          /\ worker' = "has"
          /\ UNCHANGED registrar
    /\ UNCHANGED <<mapVars, dasVars, callVars, owner, todo, registered,
                   serverUp, packVars, crashed>>

hasActionName ==
    /\ ~crashed
    /\ worker = "has"
    /\ \/ /\ ActionName[job] \in actionDescriptionsMap
          /\ worker' = "get"
          /\ UNCHANGED <<job, ended>>
       \/ /\ ActionName[job] \notin actionDescriptionsMap
          /\ Ends("skipped")
    /\ UNCHANGED <<mapVars, dasVars, bufferQueue, callVars, registrarVars,
                   answers, crashed>>

\* actionDescriptionsMap[name]: a null descriptor if it is gone by now.
getActionDescriptor ==
    /\ ~crashed
    /\ worker = "get"
    /\ \/ /\ ActionName[job] \in actionDescriptionsMap
          /\ worker' = "fire"
          /\ UNCHANGED crashed
       \/ /\ ActionName[job] \notin actionDescriptionsMap
          /\ crashed' = TRUE
          /\ UNCHANGED worker
    /\ UNCHANGED <<mapVars, dasVars, bufferQueue, job, callVars, registrarVars,
                   packVars>>

\* Slip: the action fires though it was disabled.
CanFire_Always == TRUE

CanFire == enabled[ActionName[job]]

\* The read lock on the descriptor, and setFired(true).
setFired ==
    /\ ~crashed
    /\ worker = "fire"
    /\ \/ /\ CanFire
          /\ worker' = "call"
          /\ UNCHANGED <<job, ended>>
       \/ /\ ~CanFire
          /\ Ends("skipped")
    /\ UNCHANGED <<mapVars, dasVars, bufferQueue, callVars, registrarVars,
                   answers, crashed>>

HasSubCommand == SubCommand[job] # NoPack

\* The action returns or throws; the sub command is dispatched if it returned.
Call ==
    /\ ~crashed
    /\ worker = "call"
    /\ \/ /\ worker' = "answer"
          /\ UNCHANGED <<caller, pack, crashed>>
       \/ /\ HasSubCommand /\ dispatcher
          /\ worker' = "sub"
          /\ caller' = [caller EXCEPT ![Worker] = "count"]
          /\ pack' = [pack EXCEPT ![Worker] = SubCommand[job]]
          /\ UNCHANGED crashed
       \/ /\ HasSubCommand /\ ~dispatcher
          /\ crashed' = TRUE
          /\ UNCHANGED <<worker, caller, pack>>
    /\ UNCHANGED <<mapVars, dasVars, bufferQueue, job, target, registrarVars,
                   packVars>>

SubDispatched ==
    /\ ~crashed
    /\ worker = "sub" /\ caller[Worker] = "idle"
    /\ worker' = "answer"
    /\ UNCHANGED <<mapVars, dasVars, bufferQueue, job, callVars, registrarVars,
                   packVars, crashed>>

\* The answer, the end of processBufferElement and the delete of the element.
Answer ==
    /\ ~crashed
    /\ worker = "answer"
    /\ \/ /\ job \notin NeedAnswer
          /\ Ends("served")
          /\ UNCHANGED <<answers, crashed>>
       \/ /\ job \in NeedAnswer /\ dispatcher
          /\ answers' = [answers EXCEPT ![job] = @ + 1]
          /\ Ends("served")
          /\ UNCHANGED crashed
       \/ /\ job \in NeedAnswer /\ ~dispatcher
          /\ crashed' = TRUE
          /\ UNCHANGED <<worker, job, packVars>>
    /\ UNCHANGED <<mapVars, dasVars, bufferQueue, callVars, registrarVars>>

-----------------------------------------------------------------------------
(* registerAction, deregisterAction and deinit, in the registrar's thread *)

Register(o) ==
    /\ ~crashed
    /\ serverUp /\ registrar = "idle" /\ registered[o] = "new"
    /\ registrar' = "add" /\ owner' = o /\ todo' = Owned[o]
    /\ UNCHANGED <<mapVars, dasVars, bufferQueue, workerVars, callVars,
                   registered, serverUp, packVars, crashed>>

addActionDescriptor(a) ==
    /\ ~crashed
    /\ registrar = "add" /\ a \in todo
    /\ actionDomainExecutorMap' = TRUE
    /\ actionDescriptionsMap' = actionDescriptionsMap \cup {a}
    /\ todo' = todo \ {a}
    /\ registrar' = IF todo' = {} THEN "schedule" ELSE "add"
    /\ UNCHANGED <<enabled, dasVars, bufferQueue, workerVars, callVars, owner,
                   registered, serverUp, packVars, crashed>>

Return(state) ==
    /\ registrar' = "idle" /\ owner' = NoOwner
    /\ registered' = [registered EXCEPT ![owner] = state]

\* The scheduler is started before it is in the map.
AddScheduler ==
    /\ ~crashed
    /\ registrar = "schedule"
    /\ \/ /\ das_map # 0
          /\ Return("yes")
          /\ UNCHANGED <<dasVars, worker>>
       \/ /\ das_map = 0
          /\ das' = das + 1 /\ das_map' = das'
          /\ alive' = TRUE /\ armed' = TRUE /\ in_deinit' = FALSE
          /\ dispatcher' = FALSE
          /\ worker' = "loop"
          /\ registrar' = "dispatcher"
          /\ UNCHANGED <<owner, registered>>
    /\ UNCHANGED <<mapVars, bufferQueue, job, callVars, todo, serverUp, packVars,
                   crashed>>

\* Slip: the scheduler is not told its dispatcher.
setDispatcher_Not ==
    /\ ~crashed
    /\ registrar = "dispatcher"
    /\ Return("yes")
    /\ UNCHANGED <<mapVars, dasVars, bufferQueue, workerVars, callVars, todo,
                   serverUp, packVars, crashed>>

setDispatcher ==
    /\ ~crashed
    /\ registrar = "dispatcher"
    /\ dispatcher' = TRUE
    /\ Return("yes")
    /\ UNCHANGED <<mapVars, das_map, das, alive, armed, in_deinit, bufferQueue,
                   workerVars, callVars, todo, serverUp, packVars, crashed>>

Deregister(o) ==
    /\ ~crashed
    /\ serverUp /\ registrar = "idle" /\ registered[o] = "yes"
    /\ registrar' = "disable" /\ owner' = o /\ todo' = Owned[o]
    /\ registered' = [registered EXCEPT ![o] = "leaving"]
    /\ UNCHANGED <<mapVars, dasVars, bufferQueue, workerVars, callVars, serverUp,
                   packVars, crashed>>

\* setEnabled(false) takes the write lock on the descriptor.
setEnabled(a) ==
    /\ ~crashed
    /\ registrar = "disable" /\ a \in todo
    /\ ~Holds(a)
    /\ enabled' = [enabled EXCEPT ![a] = FALSE]
    /\ registrar' = "erase"
    /\ UNCHANGED <<actionDomainExecutorMap, actionDescriptionsMap, dasVars,
                   bufferQueue, workerVars, callVars, owner, todo, registered,
                   serverUp, packVars, crashed>>

eraseActionDescriptor(a) ==
    /\ ~crashed
    /\ registrar = "erase" /\ a \in todo /\ ~enabled[a]
    /\ actionDescriptionsMap' = actionDescriptionsMap \ {a}
    /\ actionDomainExecutorMap' = (actionDescriptionsMap' # {})
    /\ todo' = todo \ {a}
    /\ registrar' = IF todo' = {} THEN "unschedule" ELSE "disable"
    /\ UNCHANGED <<enabled, dasVars, bufferQueue, workerVars, callVars, owner,
                   registered, serverUp, packVars, crashed>>

\* Slip: the scheduler goes though the domain has other actions.
Unneeded_Always == das_map # 0

Unneeded == das_map # 0 /\ ~actionDomainExecutorMap

RemoveScheduler ==
    /\ ~crashed
    /\ registrar = "unschedule"
    /\ \/ /\ Unneeded
          /\ das_map' = 0
          /\ registrar' = "clear"
          /\ UNCHANGED <<owner, registered>>
       \/ /\ ~Unneeded
          /\ Return("gone")
          /\ UNCHANGED das_map
    /\ UNCHANGED <<mapVars, das, alive, armed, in_deinit, dispatcher,
                   bufferQueue, workerVars, callVars, todo, serverUp, packVars,
                   crashed>>

\* NetworkBroker::deinit stops the RPC server first.
Deinit ==
    /\ ~crashed
    /\ serverUp /\ registrar = "idle"
    /\ \A t \in Callers : caller[t] = "idle"
    /\ serverUp' = FALSE
    /\ registrar' = IF das_map # 0 THEN "clear" ELSE "idle"
    /\ UNCHANGED <<mapVars, dasVars, bufferQueue, workerVars, callVars, owner,
                   todo, registered, packVars, crashed>>

\* The elements leave the queue and are not deleted.
clear ==
    /\ ~crashed
    /\ registrar = "clear"
    /\ bufferQueue' = <<>>
    /\ ended' = [p \in Packs |-> IF p \in InLine THEN "flushed" ELSE ended[p]]
    /\ registrar' = "deinit"
    /\ UNCHANGED <<mapVars, dasVars, workerVars, callVars, owner, todo,
                   registered, serverUp, answers, crashed>>

deinit ==
    /\ ~crashed
    /\ registrar = "deinit"
    /\ in_deinit' = TRUE
    /\ \/ /\ bufferQueue # <<>>
          /\ registrar' = "waitEmpty"
          /\ UNCHANGED worker
       \/ /\ bufferQueue = <<>>
          /\ registrar' = "join"
          /\ WakeWorker
    /\ UNCHANGED <<mapVars, das_map, das, alive, armed, dispatcher, bufferQueue,
                   job, callVars, owner, todo, registered, serverUp, packVars,
                   crashed>>

\* The join, and the last reference to the scheduler going.
Join ==
    /\ ~crashed
    /\ registrar = "join" /\ worker = "left"
    /\ worker' = "off" /\ armed' = FALSE /\ alive' = FALSE
    /\ das_map' = 0
    /\ \/ /\ owner = NoOwner /\ registrar' = "idle"
          /\ UNCHANGED <<owner, registered>>
       \/ /\ owner # NoOwner /\ Return("gone")
    /\ UNCHANGED <<mapVars, das, in_deinit, dispatcher, bufferQueue, job,
                   callVars, todo, serverUp, packVars, crashed>>

-----------------------------------------------------------------------------
Dispatch(t) == CountDomain(t) \/ IndexDomain(t) \/ push(t)

Work ==
    \/ TestDeinit \/ waitAndPop \/ hasActionName \/ getActionDescriptor
    \/ setFired \/ Call \/ SubDispatched \/ Answer

Registering ==
    \/ \E a \in Actions :
          addActionDescriptor(a) \/ setEnabled(a) \/ eraseActionDescriptor(a)
    \/ AddScheduler \/ setDispatcher \/ RemoveScheduler
    \/ clear \/ deinit \/ Join

Next ==
    \/ \E t \in Callers, p \in Packs : Request(t, p)
    \/ \E t \in Threads : Dispatch(t)
    \/ Work
    \/ \E o \in Owners : Register(o) \/ Deregister(o)
    \/ Registering
    \/ Deinit

Spec == Init /\ [][Next]_vars

\* Every thread that can go on does; an action returns or throws.
Fairness ==
    /\ \A t \in Threads : WF_vars(Dispatch(t))
    /\ WF_vars(Work)
    /\ WF_vars(Registering)

FairSpec == Spec /\ Fairness

-----------------------------------------------------------------------------
(* Properties *)

WorkerStates ==
    {"off", "loop", "pop", "wait", "has", "get", "fire", "left"} \cup Running
RegistrarStates ==
    {"idle", "add", "schedule", "dispatcher", "disable", "erase", "unschedule",
     "clear", "deinit", "waitEmpty", "join"}

MapTypes ==
    /\ actionDomainExecutorMap \in BOOLEAN
    /\ actionDescriptionsMap \subseteq Actions
    /\ enabled \in [Actions -> BOOLEAN]

SchedulerTypes ==
    /\ das_map \in Nat /\ das \in Nat
    /\ alive \in BOOLEAN /\ armed \in BOOLEAN /\ in_deinit \in BOOLEAN
    /\ dispatcher \in BOOLEAN

WorkerTypes ==
    /\ bufferQueue \in Seq(Packs)
    /\ worker \in WorkerStates /\ job \in Packs \cup {NoPack}

CallTypes ==
    /\ caller \in [Threads -> {"idle", "count", "index", "push"}]
    /\ pack \in [Threads -> Packs \cup {NoPack}]
    /\ target \in [Threads -> Nat]

RegistrarTypes ==
    /\ registrar \in RegistrarStates /\ owner \in Owners \cup {NoOwner}
    /\ todo \subseteq Actions
    /\ registered \in [Owners -> {"new", "yes", "leaving", "gone"}]
    /\ serverUp \in BOOLEAN

PackTypes ==
    /\ ended \in [Packs -> {"none", "refused", "served", "skipped", "flushed"}]
    /\ answers \in [Packs -> Nat]
    /\ crashed \in BOOLEAN

\* The types of the variables.
TypeOK ==
    /\ MapTypes /\ SchedulerTypes /\ WorkerTypes
    /\ CallTypes /\ RegistrarTypes /\ PackTypes

\* Whenever the registrar is outside its methods and the server is up, what
\* the domain serves is what is registered: its container holds the actions of
\* the registered owners, all enabled, and as long as there are any its
\* scheduler is in the map, armed, and has a thread that will take the packs.
RegisteredServed ==
    registrar = "idle" /\ serverUp =>
        LET offered == UNION {Owned[o] : o \in {q \in Owners : registered[q] = "yes"}}
        IN  /\ actionDescriptionsMap = offered
            /\ \A a \in offered : enabled[a]
            /\ actionDomainExecutorMap = (offered # {})
            /\ (das_map # 0) = (offered # {})
            /\ das_map # 0 =>
                   /\ das_map = das /\ alive /\ armed /\ ~in_deinit /\ dispatcher
                   /\ worker \notin {"off", "left"}

\* When deregisterAction has returned, the owner may be destroyed: none of its
\* actions runs, whatever pack was in the queue or in the worker's hands when
\* the deregistration began.
QuietAfterDeregister ==
    \A o \in Owners :
        registered[o] = "gone" => \A a \in Owned[o] : ~Holds(a)

\* As long as nothing is deregistered no dead or missing scheduler, descriptor
\* or dispatcher is used, whatever is dispatched meanwhile and while the
\* dispatcher is deinitialized, but for one gap: a new scheduler serves before
\* it knows its dispatcher.
UnlockedDispatchSafe ==
    crashed => \/ \E o \in Owners : registered[o] \in {"leaving", "gone"}
               \/ registrar = "dispatcher"

\* The queue is bounded, by one more than the constant says.
QueueBounded == Len(bufferQueue) <= MAX_ELEMENT_IN_QUEUE + 1

\* The queue's worker never waits for a pack while there is one, and never
\* waits once the queue is being deinitialized with its packs gone.
WorkerAwake ==
    worker = "wait" => bufferQueue = <<>> /\ registrar # "join"

Delivery ==
    INSTANCE CommandDelivery WITH line <- bufferQueue, taken <- job

\* The domain delivers packs as CommandDelivery says: in the order they were
\* accepted, one at a time, each ended once, and answered at most once and only
\* when it was served.
Delivers == Delivery!Spec

\* A pack in the queue is taken and ended, unless a use of a dead pointer came
\* first or the scheduler was deinitialized over it.
QueuedEnds ==
    \A p \in Packs :
        p \in InLine ~> ended[p] # "none" \/ crashed \/ registrar = "waitEmpty"

\* deregisterAction returns, if nobody holds the scheduler for a push when it is
\* cleared: then no pack can slip in between clear and deinit, the one case in
\* which deinit waits for a queue that no one will empty.
DeregisterReturns ==
    (/\ registrar = "clear" /\ das_map = 0
     /\ \A t \in Threads : caller[t] # "push")
        ~> (registrar = "idle" \/ crashed)
=============================================================================
