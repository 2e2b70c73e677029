------------------------ MODULE BatchCommandExecutor ------------------------
(***************************************************************************)
(* The executor's side of a batch command: the ids it gives, the history   *)
(* of command states it keeps for getCommandState, the thread that caps    *)
(* the history and the RPC that flushes it                                 *)
(* (chaos/common/batch_command/BatchCommandExecutor.cpp).                  *)
(*                                                                         *)
(* The sandboxes are what CommandLifecycle promises of them: they give     *)
(* each command its events, in an order the lifecycle allows.              *)
(*                                                                         *)
(* A command is the number of its submission.  It has one CommandState     *)
(* object, created when it is queued, so the object is the command too.    *)
(* command_state_rwmutex: the exclusive sections are single steps that     *)
(* wait for the shared ones (a fault being written, a state being read),   *)
(* and the flush owns the upgradable lock between its removals.            *)
(***************************************************************************)
EXTENDS Naturals, Sequences, FiniteSets, FiniteSetsExt

CONSTANTS
    MaxCommands,                    \* bound: submissions
    MaxInits,                       \* bound: initializations
    command_state_queue_max_size

ASSUME MaxCommandsAssumption == MaxCommands \in Nat
ASSUME MaxInitsAssumption == MaxInits \in Nat
ASSUME MaxSizeAssumption == command_state_queue_max_size \in Nat

Command == 1 .. MaxCommands
NoCommand == 0
Ending == {"COMPLETED", "FAULT", "KILLED"}
EventType == {"NONE", "QUEUED", "RUNNING", "PAUSED"} \cup Ending

VARIABLES
    submitted,                      \* how many commands were instantiated
    command_sequence_id,
    unique_id,                      \* the id each command was given
    event,                          \* the last event its sandbox gave
    live,                           \* commands a sandbox still holds
    command_state_queue,            \* oldest first
    command_state_fast_access_map,  \* id to state, NoCommand where absent
    last_event, fault_description,  \* the fields of each state
    capper,                         \* the capper thread
    flushing,                       \* flushCommandStates is in its loop
    faulting,                       \* states whose description is to be written
    reading, read_event,            \* getCommandState: its state, what it read
    serviceState, submitting, inits

historyVars == <<command_state_queue, command_state_fast_access_map>>
fieldVars == <<last_event, fault_description>>
commandVars == <<submitted, command_sequence_id, unique_id, event, live>>
readVars == <<reading, read_event>>
serviceVars == <<serviceState, submitting, inits>>

vars == <<historyVars, fieldVars, commandVars, capper, flushing, faulting,
          readVars, serviceVars>>

Init ==
    /\ submitted = 0 /\ command_sequence_id = 0
    /\ unique_id = [c \in Command |-> 0]
    /\ event = [c \in Command |-> "NONE"]
    /\ live = {}
    /\ command_state_queue = <<>>
    /\ command_state_fast_access_map = [i \in Command |-> NoCommand]
    /\ last_event = [c \in Command |-> "NONE"]
    /\ fault_description = [c \in Command |-> FALSE]
    /\ capper = "off" /\ flushing = FALSE
    /\ faulting = {} /\ reading = NoCommand /\ read_event = "NONE"
    /\ serviceState = "Deinitialized" /\ submitting = FALSE /\ inits = 0

\* Slip: a paused command counts as terminated.
Terminated_PausedToo(c) == last_event[c] \in Ending \cup {"PAUSED"}

Terminated(c) == last_event[c] \in Ending

\* Nobody holds command_state_rwmutex shared.
NoReader == faulting = {} /\ reading = NoCommand

getCommandState(id) == command_state_fast_access_map[id]

-----------------------------------------------------------------------------
(* Submission and events *)

\* Slip: the state starts with an event nobody handles.
addComamndState_Waiting(c, id) ==
    /\ command_state_queue' = Append(command_state_queue, c)
    /\ command_state_fast_access_map' = [command_state_fast_access_map EXCEPT ![id] = c]
    /\ last_event' = [last_event EXCEPT ![c] = "WAITING"]
    /\ UNCHANGED fault_description

\* map::insert keeps an element that is already there.
addComamndState(c, id) ==
    /\ command_state_queue' = Append(command_state_queue, c)
    /\ command_state_fast_access_map' =
         [command_state_fast_access_map EXCEPT ![id] = IF @ = NoCommand THEN c ELSE @]
    /\ last_event' = [last_event EXCEPT ![c] = "QUEUED"]
    /\ UNCHANGED fault_description

\* A new id, and the EVT_QUEUED of enqueueCommand.
EnqueueNew(id) ==
    LET c == submitted + 1 IN
    /\ c \in Command /\ id \in Command /\ NoReader /\ ~flushing
    /\ submitted' = c
    /\ command_sequence_id' = id
    /\ unique_id' = [unique_id EXCEPT ![c] = id]
    /\ event' = [event EXCEPT ![c] = "QUEUED"]
    /\ live' = live \cup {c}
    /\ addComamndState(c, id)

\* The state of the service is tested before the lock is taken...
SubmitTest ==
    /\ serviceState = "Started" /\ ~submitting
    /\ submitting' = TRUE
    /\ UNCHANGED <<historyVars, fieldVars, commandVars, capper, faulting,
                   serviceState, inits>>

\* ...so the executor may be stopped, or deinitialized, when the command
\* reaches the sandbox.  A deinitialized sandbox refuses it: the id is used.
\* With no command for the alias nothing is queued either.
SubmitCommand ==
    /\ submitting /\ submitting' = FALSE
    /\ serviceState # "Stopping"
    /\ \/ /\ serviceState # "Deinitialized"
          /\ EnqueueNew(command_sequence_id + 1)
       \/ /\ command_sequence_id < MaxCommands
          /\ command_sequence_id' = command_sequence_id + 1
          /\ UNCHANGED <<submitted, unique_id, event, live, historyVars,
                         fieldVars>>
    /\ UNCHANGED <<capper, faulting, serviceState, inits>>

\* The events a sandbox may give after the last one (CommandLifecycle).
After(e) ==
    CASE e = "QUEUED" -> {"RUNNING", "COMPLETED", "FAULT"}
      [] e = "RUNNING" -> {"RUNNING", "PAUSED"} \cup Ending
      [] e = "PAUSED" -> {"RUNNING"}
      [] OTHER -> {}

\* handleCommandEvent.  A state that is no longer known is not updated; the
\* description of a fault is written after its event.
HandleCommandEvent(c, e) ==
    LET state == getCommandState(unique_id[c]) IN
    /\ serviceState \in {"Started", "Stopping"}
    /\ c \in live /\ e \in After(event[c])
    /\ event' = [event EXCEPT ![c] = e]
    /\ live' = IF e \in Ending THEN live \ {c} ELSE live
    /\ IF state = NoCommand THEN UNCHANGED <<last_event, faulting>>
       ELSE /\ last_event' = [last_event EXCEPT ![state] = e]
            /\ faulting' = IF e = "FAULT" THEN faulting \cup {state} ELSE faulting
    /\ UNCHANGED <<historyVars, fault_description, submitted,
                   command_sequence_id, unique_id, capper, serviceVars>>

WriteDescription(state) ==
    /\ state \in faulting
    /\ fault_description' = [fault_description EXCEPT ![state] = TRUE]
    /\ faulting' = faulting \ {state}
    /\ UNCHANGED <<historyVars, last_event, commandVars, capper, serviceVars>>

-----------------------------------------------------------------------------
(* The capper thread *)

\* Slip: the test is off by one.
CapTest_OffByOne ==
    /\ capper = "test"
    /\ capper' = IF serviceState = "Stopping" THEN "off"
                 ELSE IF Len(command_state_queue) > command_state_queue_max_size + 1
                      THEN "cap" ELSE "wait"
    /\ UNCHANGED <<historyVars, serviceVars>>

\* The size is read without the lock.
CapTest ==
    /\ capper = "test"
    /\ capper' = IF serviceState = "Stopping" THEN "off"
                 ELSE IF Len(command_state_queue) > command_state_queue_max_size
                      THEN "cap" ELSE "wait"
    /\ UNCHANGED <<historyVars, serviceVars>>

\* Slip: one state too few is dropped.
Excess_OneLess(q) == IF Len(q) > command_state_queue_max_size
                     THEN Len(q) - command_state_queue_max_size - 1 ELSE 0

\* capCommanaQueue takes states from the front until it has dropped as many
\* terminated ones as the queue is too long, or the queue is empty; those
\* that have not terminated go back to the front one by one.
Excess(q) == IF Len(q) > command_state_queue_max_size
             THEN Len(q) - command_state_queue_max_size ELSE 0

TerminatedIn(q, k) == {i \in 1 .. k : Terminated(q[i])}

Taken(q) ==
    Min({k \in 0 .. Len(q) :
           k = Len(q) \/ Cardinality(TerminatedIn(q, k)) = Excess(q)})

ToReinsert(q) == {i \in 1 .. Taken(q) : ~Terminated(q[i])}

\* They go back in the order they were taken, so the last one ends up first.
Reinserted(q) ==
    LET K == ToReinsert(q) IN
    [p \in 1 .. Cardinality(K) |->
       q[CHOOSE k \in K : Cardinality({j \in K : j >= k}) = p]]

CappedQueue(q) == Reinserted(q) \o SubSeq(q, Taken(q) + 1, Len(q))

\* Slip: the map keeps what the queue drops.
Erase_Kept(S) == command_state_fast_access_map

\* The map once the states in S have been erased from it, each by its id.
Erase(S) ==
    [i \in Command |-> IF \E c \in S : unique_id[c] = i THEN NoCommand
                       ELSE command_state_fast_access_map[i]]

CapCommanaQueue ==
    LET q == command_state_queue IN
    /\ capper = "cap" /\ NoReader /\ ~flushing
    /\ capper' = "wait"
    /\ command_state_queue' = CappedQueue(q)
    /\ command_state_fast_access_map' =
         Erase({q[i] : i \in TerminatedIn(q, Taken(q))})
    /\ UNCHANGED serviceVars

\* The wait is timed, and unlocked by stop.
CapWake ==
    /\ capper = "wait"
    /\ capper' = "test"
    /\ UNCHANGED <<historyVars, serviceVars>>

CapWorker ==
    /\ CapTest \/ CapCommanaQueue \/ CapWake
    /\ UNCHANGED <<fieldVars, commandVars, faulting>>

-----------------------------------------------------------------------------
(* The RPC actions *)

back == command_state_queue[Len(command_state_queue)]

\* flushCommandStates removes the last state as long as it has terminated.
EndedAtBack == command_state_queue # <<>> /\ Terminated(back)

FlushStart ==
    /\ ~flushing /\ flushing' = TRUE
    /\ UNCHANGED historyVars

FlushRemove ==
    LET q == command_state_queue IN
    /\ flushing /\ NoReader
    /\ EndedAtBack
    /\ command_state_queue' = SubSeq(q, 1, Len(q) - 1)
    /\ command_state_fast_access_map' = Erase({back})
    /\ UNCHANGED flushing

FlushEnd ==
    /\ flushing
    /\ ~EndedAtBack
    /\ flushing' = FALSE
    /\ UNCHANGED historyVars

FlushCommandStates ==
    /\ FlushStart \/ FlushRemove \/ FlushEnd
    /\ UNCHANGED <<fieldVars, commandVars, capper, faulting, serviceVars>>

\* getCommandState reads the event, then for a fault the description.
ReadState(id) ==
    LET state == getCommandState(id) IN
    /\ reading = NoCommand /\ state # NoCommand
    /\ reading' = state
    /\ read_event' = last_event[state]

ReadDescription ==
    /\ reading # NoCommand
    /\ reading' = NoCommand
    /\ read_event' = "NONE"

Read ==
    /\ (\E id \in Command : ReadState(id)) \/ ReadDescription
    /\ UNCHANGED <<historyVars, fieldVars, commandVars, capper, flushing,
                   faulting, serviceVars>>

-----------------------------------------------------------------------------
(* The service: init, start, stop, deinit *)

\* Ids restart with each initialization; the history stays.  A default
\* command, if one is set, is queued at once.
InitService ==
    /\ serviceState = "Deinitialized" /\ inits < MaxInits
    /\ serviceState' = "Initialized" /\ inits' = inits + 1
    /\ \/ EnqueueNew(1)
       \/ /\ command_sequence_id' = 0
          /\ UNCHANGED <<submitted, unique_id, event, live, historyVars,
                         fieldVars>>
    /\ UNCHANGED capper

StartService ==
    /\ serviceState \in {"Initialized", "Stopped"}
    /\ serviceState' = "Started"
    /\ capper' = "test"
    /\ UNCHANGED <<historyVars, fieldVars, commandVars, inits>>

\* stop clears capper_work and joins the capper, then stops the sandboxes.
StopCall ==
    /\ serviceState = "Started"
    /\ serviceState' = "Stopping"
    /\ UNCHANGED <<historyVars, fieldVars, commandVars, capper, inits>>

StopDone ==
    /\ serviceState = "Stopping" /\ capper = "off" /\ faulting = {}
    /\ serviceState' = "Stopped"
    /\ UNCHANGED <<historyVars, fieldVars, commandVars, capper, inits>>

\* Each sandbox kills its current command and drops the others silently.
DeinitService ==
    LET killed == {c \in live : event[c] = "RUNNING"}
        states == {getCommandState(unique_id[c]) : c \in killed}
    IN
    /\ serviceState \in {"Initialized", "Stopped"}
    /\ serviceState' = "Deinitialized"
    /\ live' = {}
    /\ event' = [c \in Command |-> IF c \in killed THEN "KILLED" ELSE event[c]]
    /\ last_event' = [c \in Command |->
                        IF c \in states THEN "KILLED" ELSE last_event[c]]
    /\ UNCHANGED <<historyVars, fault_description, submitted,
                   command_sequence_id, unique_id, capper, inits>>

Service ==
    /\ InitService \/ StartService \/ StopCall \/ StopDone \/ DeinitService
    /\ UNCHANGED <<faulting, submitting>>

Event ==
    \/ SubmitTest \/ SubmitCommand
    \/ \E c \in Command : WriteDescription(c)
    \/ \E c \in Command, e \in EventType : HandleCommandEvent(c, e)

Next ==
    \/ (Event \/ CapWorker \/ Service) /\ UNCHANGED <<flushing, readVars>>
    \/ FlushCommandStates /\ UNCHANGED readVars
    \/ Read

Spec == Init /\ [][Next]_vars

\* The RPC traffic leaves command_state_rwmutex free again and again, and the
\* capper, which runs, is then let in.
Fairness ==
    /\ SF_vars(CapWorker /\ UNCHANGED <<flushing, readVars>>)
    /\ []<>(NoReader /\ ~flushing)

FairSpec == Spec /\ Fairness

-----------------------------------------------------------------------------
(* Properties *)

InQueue == {command_state_queue[i] : i \in DOMAIN command_state_queue}

\* Every variable keeps its type.
TypeOK ==
    /\ submitted \in 0 .. MaxCommands
    /\ command_sequence_id \in 0 .. MaxCommands
    /\ unique_id \in [Command -> 0 .. MaxCommands]
    /\ event \in [Command -> EventType]
    /\ live \subseteq Command
    /\ command_state_queue \in Seq(Command)
    /\ command_state_fast_access_map \in [Command -> 0 .. MaxCommands]
    /\ last_event \in [Command -> EventType]
    /\ fault_description \in [Command -> BOOLEAN]
    /\ capper \in {"off", "test", "cap", "wait"}
    /\ flushing \in BOOLEAN
    /\ faulting \subseteq Command
    /\ reading \in 0 .. MaxCommands
    /\ read_event \in EventType
    /\ serviceState \in {"Deinitialized", "Initialized", "Started", "Stopping",
                         "Stopped"}
    /\ submitting \in BOOLEAN
    /\ inits \in 0 .. MaxInits

\* The queue and the map hold the same states: each state of the history is
\* found by the id of its command, and nothing else is found, however caps,
\* flushes and submissions interleave.
QueueMapAgree ==
    /\ \A c \in InQueue : command_state_fast_access_map[unique_id[c]] = c
    /\ \A i \in Command : command_state_fast_access_map[i] # NoCommand =>
         /\ command_state_fast_access_map[i] \in InQueue
         /\ unique_id[command_state_fast_access_map[i]] = i

\* A command that a sandbox still holds is found by its id, with the event
\* its sandbox gave it last: neither the capper nor a flush forgets it.  (Of the
\* flush BatchCommandExecutor.h says that all "non ended command state, will be
\* remove from the history"; flushCommandStates removes the ended ones, as it
\* logs.)  A second init, which gives the ids again, ends this.
ActiveIsKnown ==
    \A c \in live :
      /\ command_state_fast_access_map[unique_id[c]] = c
      /\ last_event[c] = event[c]

\* Only what has terminated leaves the history: a cap and a flush both stop at,
\* or put back, what has not ended, against the header's words on the flush.
OnlyTerminatedForgotten ==
    [][\A c \in InQueue : c \notin InQueue' => last_event[c] \in Ending]_vars

\* A cap leaves the history at its maximal size at most, or nothing in it can
\* be dropped ("limit the size of the queue to the max size permitted"); and it
\* drops no more than it has to: a history within the bound keeps all its
\* states, a longer one at least as many as the bound.
CapExact ==
    [][ CapCommanaQueue =>
          /\ \/ Len(command_state_queue') <= command_state_queue_max_size
             \/ \A c \in InQueue' : last_event'[c] \notin Ending
          /\ \/ InQueue' = InQueue
             \/ Len(command_state_queue') >= command_state_queue_max_size ]_vars

\* While the executor is started an overlong history that holds something
\* terminated gets shorter.
HistoryShrinks ==
    (Len(command_state_queue) > command_state_queue_max_size
       /\ \E c \in InQueue : last_event[c] \in Ending)
      ~> (\/ Len(command_state_queue) <= command_state_queue_max_size
          \/ \A c \in InQueue : last_event[c] \notin Ending
          \/ serviceState # "Started")

=============================================================================
