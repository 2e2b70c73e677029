------------------------- MODULE BatchCommandSandbox -------------------------
(***************************************************************************)
(* The sandbox in which a control unit executes its batch commands         *)
(* (chaos/common/batch_command/BatchCommandSandbox.cpp).                   *)
(*                                                                         *)
(* Two threads share one current command.  The scheduler (runCommand)      *)
(* steps it; the checker (checkNextCommand) installs, stacks, kills and    *)
(* retires commands.  RPC threads submit commands, kill the current one    *)
(* and change its features.  The owner starts, stops and deinitializes     *)
(* the sandbox.                                                            *)
(*                                                                         *)
(* mutextAccessCurrentCommand is held only inside one action at a time, so *)
(* it has no variable: what the code does between its lock and its unlock  *)
(* is one step.  mutexNextCommandChecker is held across steps and has one. *)
(* The executor's sandbox_map_mutex (submitCommand takes it for writing,   *)
(* every other entry point for reading) is the guards on owner, reader and *)
(* submitting.  A local variable that will not be read again is reset.     *)
(***************************************************************************)
EXTENDS Naturals, Sequences, FiniteSets

CONSTANTS
    Command,      \* identities of the command instances (unique_id)
    NoCommand,    \* the NULL pointer
    Kinds,        \* what a submitted command may look like
    HandlerRP,    \* running properties a handler may leave behind
    MaxStarts     \* bound: how many times the owner starts the sandbox

RunningProperty == {"RP_Exsc", "RP_Normal", "RP_End", "RP_Fault"}
Ended == {"RP_End", "RP_Fault"}
SubmissionRule == {"SUBMIT_AND_Stack", "SUBMIT_AND_Kill", "SUBMIT_NORMAL"}
HandlerType == {"HT_Set", "HT_Acquisition", "HT_Correlation"}
Terminal == {"COMPLETED", "FAULT", "KILLED"}
Event == {"NONE", "QUEUED", "RUNNING", "PAUSED"} \cup Terminal

ASSUME NoCommandAssumption == NoCommand \notin Command

ASSUME KindsAssumption ==
    /\ Kinds # {}
    /\ Kinds \subseteq [rule : SubmissionRule, mask : SUBSET HandlerType,
                        priority : Nat, delay : BOOLEAN, timeout : BOOLEAN]

ASSUME HandlerRPAssumption == HandlerRP \subseteq RunningProperty

ASSUME MaxStartsAssumption == MaxStarts \in Nat

VARIABLES
    impl,                 \* the BatchCommand instances
    allocated,            \* which of them exist
    last_event,           \* the last event given to the event_handler
    \* shared by the threads
    command_submitted_queue, currentExecutingCommand, commandStack,
    acquireHandlerFunctor, correlationHandlerFunctor,
    scheduleWorkFlag,
    waithForNextCheck, threadSchedulerPauseCondition,  \* "answered" of each
    mutexNextCommandChecker,
    \* the checker thread
    checker, command_to_delete, current_check_value,
    \* the scheduler thread
    scheduler, canWork, curr_executing_impl,
    \* the owner, an RPC thread that reads, an RPC thread that submits
    owner, serviceState, notified, starts,
    reader, submitting,
    crashed               \* a NULL pointer was dereferenced

commandVars == <<impl, allocated, last_event>>
functorVars == <<currentExecutingCommand, acquireHandlerFunctor,
                 correlationHandlerFunctor>>
placeVars == <<command_submitted_queue, commandStack, functorVars>>
semaphoreVars == <<waithForNextCheck, threadSchedulerPauseCondition>>
checkerVars == <<checker, command_to_delete, current_check_value>>
schedulerVars == <<scheduler, canWork, curr_executing_impl>>
ownerVars == <<owner, serviceState, notified, starts>>
clientVars == <<reader, submitting, crashed>>

vars == <<commandVars, placeVars, semaphoreVars, scheduleWorkFlag,
          mutexNextCommandChecker, checkerVars, schedulerVars, ownerVars,
          clientVars>>

Kind(c) == impl[c].kind
Property(c) == impl[c].runningProperty

\* A new instance, and what stands for one that is not allocated.
NewInstance(k) == [kind |-> k, runningProperty |-> "RP_Normal",
                   already_setupped |-> FALSE, delay |-> k.delay,
                   timeout |-> k.timeout]
Blank == NewInstance(CHOOSE k \in Kinds : TRUE)

Init ==
    /\ impl = [c \in Command |-> Blank]
    /\ allocated = {}
    /\ last_event = [c \in Command |-> "NONE"]
    /\ command_submitted_queue = {} /\ commandStack = <<>>
    /\ currentExecutingCommand = NoCommand
    /\ acquireHandlerFunctor = NoCommand
    /\ correlationHandlerFunctor = NoCommand
    /\ scheduleWorkFlag = FALSE
    /\ waithForNextCheck = FALSE
    /\ threadSchedulerPauseCondition = FALSE
    /\ mutexNextCommandChecker = "free"
    /\ checker = "done" /\ scheduler = "done"
    /\ command_to_delete = NoCommand /\ current_check_value = "RSR_NO_CHANGE"
    /\ canWork = FALSE /\ curr_executing_impl = NoCommand
    /\ owner = "idle" /\ serviceState = "Initialized"
    /\ notified = FALSE /\ starts = 0
    /\ reader = "idle" /\ submitting = FALSE /\ crashed = FALSE

-----------------------------------------------------------------------------
(* Installing and removing handlers *)

OnlySetHandler(c) == Kind(c).mask \subseteq {"HT_Set"}

\* What c may be after commandPre and its set handler: with the property the
\* handler left, or faulted because it threw.
NeedsSet(c) == ~impl[c].already_setupped /\ "HT_Set" \in Kind(c).mask

SetSucceeds(c) ==
    IF NeedsSet(c)
    THEN {[impl[c] EXCEPT !.already_setupped = TRUE, !.runningProperty = p]
            : p \in HandlerRP \cup {Property(c)}}
    ELSE {impl[c]}
SetFaults(c) == NeedsSet(c)

\* Slip: a handler is installed only where there was none.
Install_IfEmpty(c, acq, corr) ==
    /\ currentExecutingCommand' = c
    /\ acquireHandlerFunctor' =
         IF "HT_Acquisition" \in Kind(c).mask /\ acq = NoCommand THEN c ELSE acq
    /\ correlationHandlerFunctor' = corr

\* A handler that c does not implement keeps the functor it has.
Install(c, acq, corr) ==
    /\ currentExecutingCommand' = c
    /\ acquireHandlerFunctor' =
         IF "HT_Acquisition" \in Kind(c).mask THEN c ELSE acq
    /\ correlationHandlerFunctor' =
         IF "HT_Correlation" \in Kind(c).mask THEN c ELSE corr

InstallNull ==
    /\ currentExecutingCommand' = NoCommand
    /\ acquireHandlerFunctor' = NoCommand
    /\ correlationHandlerFunctor' = NoCommand

\* Slip: the functors keep the removed command.
RemoveHandler_Kept(c, handler, functor) == functor

\* The value of a functor once removeHandler(c) has run.
RemoveHandler(c, handler, functor) ==
    IF ~OnlySetHandler(c) /\ handler \in Kind(c).mask /\ functor = c
    THEN NoCommand ELSE functor

\* Slip: the event is sent, the command is not deleted.
ReportAndDelete_NotDeleted(c, e) ==
    /\ last_event' = [last_event EXCEPT ![c] = e]
    /\ UNCHANGED <<impl, allocated>>

\* DELETE_OBJ_POINTER(c) after reporting event e.
ReportAndDelete(c, e) ==
    /\ impl' = [impl EXCEPT ![c] = Blank]
    /\ allocated' = allocated \ {c}
    /\ last_event' = [last_event EXCEPT ![c] = e]

\* Slip: the first row of the table is a copy of the second.
running_vs_submition_NoExclusive(r, s) ==
    CASE r = "RP_End" -> "RSR_CURRENT_CMD_HAS_ENDED"
      [] r = "RP_Fault" -> "RSR_CURRENT_CMD_HAS_FAULTED"
      [] r \notin Ended /\ s = "SUBMIT_NORMAL" -> "RSR_NO_CHANGE"
      [] r \notin Ended /\ s = "SUBMIT_AND_Stack" -> "RSR_STACK_CURENT_COMMAND"
      [] r \notin Ended /\ s = "SUBMIT_AND_Kill" -> "RSR_KILL_KURRENT_COMMAND"

running_vs_submition(r, s) ==
    CASE r = "RP_End" -> "RSR_CURRENT_CMD_HAS_ENDED"
      [] r = "RP_Fault" -> "RSR_CURRENT_CMD_HAS_FAULTED"
      [] r \notin Ended /\ s = "SUBMIT_NORMAL" -> "RSR_NO_CHANGE"
      [] r = "RP_Exsc" /\ s # "SUBMIT_NORMAL" -> "RSR_TIMED_RETRY"
      [] r = "RP_Normal" /\ s = "SUBMIT_AND_Stack" -> "RSR_STACK_CURENT_COMMAND"
      [] r = "RP_Normal" /\ s = "SUBMIT_AND_Kill" -> "RSR_KILL_KURRENT_COMMAND"

\* What the checker compares: the current command with the queue's top.
CheckValue(c) ==
    running_vs_submition(Property(currentExecutingCommand), Kind(c).rule)

\* The heap gives a command of the highest priority; the order of equal
\* priorities is not specified by std::priority_queue.
IsTop(c) ==
    /\ c \in command_submitted_queue
    /\ \A d \in command_submitted_queue : Kind(d).priority <= Kind(c).priority

\* Slip: the queue is not popped.
Dequeue_NotPopped(c) == UNCHANGED command_submitted_queue /\ c \in Command

Dequeue(c) == command_submitted_queue' = command_submitted_queue \ {c}

\* The stack is filled and emptied at its front.
Push(c) == commandStack' = <<c>> \o commandStack

-----------------------------------------------------------------------------
(* The checker thread: checkNextCommand *)

\* Wakes the owner, if it is already waiting.
NotifyOwner == notified' = (notified \/ owner = "stop_wait")

\* Line 525 and what follows the loop: back to its head, or notify and end.
EndOfLoopBody ==
    IF scheduleWorkFlag
    THEN /\ checker' = "loop"
         /\ mutexNextCommandChecker' = "checker"
         /\ UNCHANGED notified
    ELSE /\ checker' = "done"
         /\ mutexNextCommandChecker' = "free"
         /\ NotifyOwner

\* Each wait ends once answered, the timed one at any moment; either way the
\* answer is consumed.
CheckerWake ==
    /\ checker' = CASE checker = "start" -> "awaked"
                    [] checker \in {"wait_continue", "wait_timed"} -> "lock"
                    [] checker = "wait_idle" -> "relock"
                    [] OTHER -> "done"
    /\ \/ checker \in {"start", "wait_continue", "wait_idle"} /\ waithForNextCheck
       \/ checker = "wait_timed"
    /\ waithForNextCheck' = FALSE
    /\ UNCHANGED <<commandVars, placeVars, threadSchedulerPauseCondition,
                   mutexNextCommandChecker, command_to_delete,
                   current_check_value, notified>>

\* The test before the loop.  Stopped already: notified without the mutex.
CheckerFirstTest ==
    /\ checker = "awaked"
    /\ IF scheduleWorkFlag THEN checker' = "lock" /\ UNCHANGED notified
       ELSE checker' = "done" /\ NotifyOwner
    /\ UNCHANGED <<commandVars, placeVars, semaphoreVars, command_to_delete,
                   mutexNextCommandChecker, current_check_value>>

\* mutexNextCommandChecker is taken at the loop's entry and after each wait.
\* After the wait of an empty queue the flag is tested, after the others the
\* code continues at the head of the loop without testing it.
CheckerLock ==
    /\ checker \in {"lock", "relock"} /\ mutexNextCommandChecker = "free"
    /\ IF checker = "relock" THEN EndOfLoopBody
       ELSE /\ checker' = "loop"
            /\ mutexNextCommandChecker' = "checker"
            /\ UNCHANGED notified
    /\ UNCHANGED <<commandVars, placeVars, semaphoreVars, command_to_delete,
                   current_check_value>>

\* The checker holds the mutex and c is on top of the queue.
AtTop(c) == checker = "loop" /\ IsTop(c)

\* A command with no more than a set handler runs beside the current one,
\* which is left as it is.
CheckSetOnly(c) ==
    /\ AtTop(c) /\ currentExecutingCommand # NoCommand /\ OnlySetHandler(c)
    /\ \/ \E i \in SetSucceeds(c) :
            ReportAndDelete(c, IF i.runningProperty = "RP_Fault"
                               THEN "FAULT" ELSE "COMPLETED")
       \/ SetFaults(c) /\ ReportAndDelete(c, "FAULT")
    /\ Dequeue(c)
    /\ UNCHANGED <<functorVars, commandStack, semaphoreVars, checkerVars,
                   mutexNextCommandChecker, notified>>

AtReplaceable(c) ==
    AtTop(c) /\ currentExecutingCommand # NoCommand /\ ~OnlySetHandler(c)

\* RSR_NO_CHANGE waits for a wake-up, RSR_TIMED_RETRY for the retry delay.
CheckWait(c) ==
    /\ AtReplaceable(c)
    /\ \/ CheckValue(c) = "RSR_NO_CHANGE" /\ checker' = "wait_continue"
       \/ CheckValue(c) = "RSR_TIMED_RETRY" /\ checker' = "wait_timed"
    /\ mutexNextCommandChecker' = "free"
    /\ UNCHANGED <<commandVars, placeVars, semaphoreVars, command_to_delete,
                   current_check_value, notified>>

\* RSR_STACK_CURENT_COMMAND.
CheckStack(c) ==
    /\ AtReplaceable(c) /\ CheckValue(c) = "RSR_STACK_CURENT_COMMAND"
    /\ Dequeue(c)
    /\ \/ /\ \E i \in SetSucceeds(c) : impl' = [impl EXCEPT ![c] = i]
          /\ Install(c, acquireHandlerFunctor, correlationHandlerFunctor)
          /\ Push(currentExecutingCommand)
          /\ last_event' = [last_event EXCEPT
                              ![c] = "RUNNING",
                              ![currentExecutingCommand] = "PAUSED"]
          /\ UNCHANGED allocated
       \/ /\ SetFaults(c)
          /\ ReportAndDelete(c, "FAULT")
          /\ UNCHANGED <<functorVars, commandStack>>
    /\ threadSchedulerPauseCondition' = TRUE
    /\ EndOfLoopBody
    /\ UNCHANGED <<waithForNextCheck, command_to_delete, current_check_value>>

\* RSR_KILL_KURRENT_COMMAND, RSR_CURRENT_CMD_HAS_ENDED and ..._HAS_FAULTED,
\* up to the release of mutextAccessCurrentCommand.  When the new command
\* cannot be installed the old one is installed again.
CheckReplace(c) ==
    LET tmp == currentExecutingCommand
        acq == RemoveHandler(tmp, "HT_Acquisition", acquireHandlerFunctor)
        corr == RemoveHandler(tmp, "HT_Correlation", correlationHandlerFunctor)
    IN
    /\ AtReplaceable(c)
    /\ CheckValue(c) \in {"RSR_KILL_KURRENT_COMMAND",
                          "RSR_CURRENT_CMD_HAS_ENDED",
                          "RSR_CURRENT_CMD_HAS_FAULTED"}
    /\ Dequeue(c)
    /\ \/ /\ \E i \in SetSucceeds(c) : impl' = [impl EXCEPT ![c] = i]
          /\ Install(c, acq, corr)
          /\ command_to_delete' = tmp
          /\ current_check_value' = CheckValue(c)
          /\ last_event' = [last_event EXCEPT ![c] = "RUNNING"]
          /\ checker' = "retire"
          /\ UNCHANGED <<allocated, mutexNextCommandChecker, notified>>
       \/ /\ SetFaults(c)
          /\ impl' = [impl EXCEPT ![c] = Blank]
          /\ allocated' = allocated \ {c}
          /\ last_event' = [last_event EXCEPT ![c] = "FAULT", ![tmp] = "RUNNING"]
          /\ Install(tmp, acq, corr)
          /\ EndOfLoopBody
          /\ UNCHANGED <<command_to_delete, current_check_value>>
    /\ threadSchedulerPauseCondition' = TRUE
    /\ UNCHANGED <<commandStack, waithForNextCheck>>

\* Lines 424 to 449: the event and the deletion of the replaced command, with
\* only mutexNextCommandChecker held.
CheckRetire ==
    /\ checker = "retire"
    /\ ReportAndDelete(command_to_delete,
         CASE current_check_value = "RSR_KILL_KURRENT_COMMAND" -> "KILLED"
           [] current_check_value = "RSR_CURRENT_CMD_HAS_ENDED" -> "COMPLETED"
           [] OTHER -> "FAULT")
    /\ command_to_delete' = NoCommand /\ current_check_value' = "RSR_NO_CHANGE"
    /\ EndOfLoopBody
    /\ UNCHANGED <<placeVars, semaphoreVars>>

\* No current command: the new one is installed without
\* mutextAccessCurrentCommand, so the scheduler may step it before
\* CheckInstalled wakes it.  The result of installHandler is ignored: a
\* command that was not installed leaves the queue without an event, and is
\* not deleted.
CheckInstallFirst(c) ==
    /\ AtTop(c) /\ currentExecutingCommand = NoCommand
    /\ \/ /\ \E i \in SetSucceeds(c) : impl' = [impl EXCEPT ![c] = i]
          /\ IF OnlySetHandler(c) THEN UNCHANGED <<functorVars, last_event>>
             ELSE /\ Install(c, acquireHandlerFunctor, correlationHandlerFunctor)
                  /\ last_event' = [last_event EXCEPT ![c] = "RUNNING"]
       \/ /\ SetFaults(c)
          /\ impl' = [impl EXCEPT ![c].runningProperty = "RP_Fault"]
          /\ UNCHANGED <<functorVars, last_event>>
    /\ Dequeue(c)
    /\ checker' = "installed"
    /\ UNCHANGED <<allocated, commandStack, semaphoreVars,
                   mutexNextCommandChecker, command_to_delete,
                   current_check_value, notified>>

\* Slip: the scheduler is not woken.
CheckInstalled_NoWake ==
    /\ checker = "installed"
    /\ EndOfLoopBody
    /\ UNCHANGED <<commandVars, placeVars, semaphoreVars, command_to_delete,
                   current_check_value>>

CheckInstalled ==
    /\ checker = "installed"
    /\ threadSchedulerPauseCondition' = TRUE
    /\ EndOfLoopBody
    /\ UNCHANGED <<commandVars, placeVars, waithForNextCheck,
                   command_to_delete, current_check_value>>

\* Empty queue: an ended or faulted current command is deleted and the last
\* paused one resumed, then the checker waits.  Only a resumed command wakes
\* the scheduler.
CheckIdle ==
    LET cur == currentExecutingCommand
        ended == cur # NoCommand /\ Property(cur) \in Ended
        event == IF Property(cur) = "RP_End" THEN "COMPLETED" ELSE "FAULT"
    IN
    /\ checker = "loop" /\ command_submitted_queue = {}
    /\ \/ /\ ~ended
          /\ UNCHANGED <<commandVars, functorVars, commandStack,
                         threadSchedulerPauseCondition>>
       \/ /\ ended /\ commandStack # <<>>
          /\ Install(Head(commandStack),
                     RemoveHandler(cur, "HT_Acquisition", acquireHandlerFunctor),
                     RemoveHandler(cur, "HT_Correlation", correlationHandlerFunctor))
          /\ commandStack' = Tail(commandStack)
          /\ impl' = [impl EXCEPT ![cur] = Blank]
          /\ allocated' = allocated \ {cur}
          /\ last_event' = [last_event EXCEPT ![cur] = event,
                                              ![Head(commandStack)] = "RUNNING"]
          /\ threadSchedulerPauseCondition' = TRUE
       \/ /\ ended /\ commandStack = <<>>
          /\ InstallNull
          /\ ReportAndDelete(cur, event)
          /\ UNCHANGED <<commandStack, threadSchedulerPauseCondition>>
    /\ checker' = "wait_idle"
    /\ mutexNextCommandChecker' = "free"
    /\ UNCHANGED <<command_submitted_queue, waithForNextCheck,
                   command_to_delete, current_check_value, notified>>

CheckCommand(c) ==
    \/ CheckSetOnly(c) \/ CheckWait(c) \/ CheckStack(c) \/ CheckReplace(c)
    \/ CheckInstallFirst(c)

Checker ==
    /\ \/ CheckerWake \/ CheckerFirstTest \/ CheckerLock
       \/ \E c \in Command : CheckCommand(c)
       \/ CheckRetire \/ CheckInstalled \/ CheckIdle
    /\ UNCHANGED <<scheduleWorkFlag, schedulerVars, owner, serviceState,
                   starts, clientVars>>

-----------------------------------------------------------------------------
(* The scheduler thread: runCommand *)

SchedulerStart ==
    /\ scheduler = "start"
    /\ canWork' = scheduleWorkFlag
    /\ scheduler' = "step"
    /\ UNCHANGED <<impl, semaphoreVars, curr_executing_impl>>

\* A functor calls its handler unless the command has ended; the handler may
\* leave any property, or throw.
Call(functor, instances) ==
    IF functor = NoCommand \/ instances[functor].runningProperty \in Ended
    THEN {instances}
    ELSE {[instances EXCEPT ![functor].runningProperty = p]
            : p \in HandlerRP \cup {instances[functor].runningProperty,
                                   "RP_Fault"}}

\* commandPost: the timeout faults the command, whatever its property, unless
\* its timeoutHandler declines.
Post(c, instances) ==
    {instances} \cup (IF instances[c].timeout
                      THEN {[instances EXCEPT ![c].runningProperty = "RP_Fault"]}
                      ELSE {})

\* One step of the current command, mutextAccessCurrentCommand held.
SchedulerStep ==
    /\ scheduler = "step" /\ currentExecutingCommand # NoCommand
    /\ curr_executing_impl' = currentExecutingCommand
    /\ \E a \in Call(acquireHandlerFunctor, impl) :
         \E b \in Call(correlationHandlerFunctor, a) :
           impl' \in Post(currentExecutingCommand, b)
    /\ scheduler' = "check"
    /\ UNCHANGED <<semaphoreVars, canWork>>

\* Without a current command the scheduler ends if stopped, or goes to sleep.
SchedulerNothing ==
    /\ scheduler = "step" /\ currentExecutingCommand = NoCommand
    /\ IF scheduleWorkFlag THEN scheduler' = "sleep" /\ UNCHANGED canWork
       ELSE scheduler' = "done" /\ canWork' = FALSE
    /\ UNCHANGED <<impl, semaphoreVars, curr_executing_impl>>

\* What a read of curr_executing_impl->runningProperty gives.  The mutex has
\* been released, the checker may have deleted the command: then anything.
Observed ==
    IF curr_executing_impl \in allocated THEN {Property(curr_executing_impl)}
    ELSE RunningProperty \cup {"garbage"}

ObservedDelay ==
    IF curr_executing_impl \in allocated THEN {impl[curr_executing_impl].delay}
    ELSE BOOLEAN

\* Line 577.
SchedulerCheck ==
    /\ scheduler = "check"
    /\ \E p \in Observed :
         IF ~scheduleWorkFlag /\ p # "RP_Exsc"
         THEN /\ scheduler' = "done" /\ canWork' = FALSE
              /\ curr_executing_impl' = NoCommand
         ELSE scheduler' = "switch" /\ UNCHANGED <<canWork, curr_executing_impl>>
    /\ UNCHANGED <<impl, semaphoreVars>>

\* The test of canWork at the end of the loop.
LoopOrEnd == scheduler' = IF canWork THEN "step" ELSE "done"

\* Lines 581 to 604: the property is read a second time.
SchedulerSwitch ==
    /\ scheduler = "switch"
    /\ \E p \in Observed :
         \/ /\ p \in {"RP_Exsc", "RP_Normal"}
            /\ \E delay \in ObservedDelay :
                 IF delay THEN scheduler' = "delay" ELSE LoopOrEnd
         \/ p \in Ended /\ scheduler' = "sleep"
         \/ p = "garbage" /\ LoopOrEnd
    /\ curr_executing_impl' = NoCommand
    /\ UNCHANGED <<impl, semaphoreVars, canWork>>

\* Slip: the scheduler waits without waking the checker.
SchedulerSleep_NoWake ==
    /\ scheduler = "sleep"
    /\ scheduler' = "pause"
    /\ UNCHANGED <<impl, semaphoreVars, canWork, curr_executing_impl>>

\* Wake the checker, then wait on threadSchedulerPauseCondition.
SchedulerSleep ==
    /\ scheduler = "sleep"
    /\ waithForNextCheck' = TRUE
    /\ scheduler' = "pause"
    /\ UNCHANGED <<impl, threadSchedulerPauseCondition, canWork,
                   curr_executing_impl>>

\* A timed wait ends at any moment and, like the other, forgets the answer.
SchedulerWake ==
    /\ \/ scheduler = "pause" /\ threadSchedulerPauseCondition
       \/ scheduler = "delay"
    /\ threadSchedulerPauseCondition' = FALSE
    /\ LoopOrEnd
    /\ UNCHANGED <<impl, waithForNextCheck, canWork, curr_executing_impl>>

Scheduler ==
    /\ \/ SchedulerStart \/ SchedulerStep \/ SchedulerNothing
       \/ SchedulerCheck \/ SchedulerSwitch \/ SchedulerSleep \/ SchedulerWake
    /\ UNCHANGED <<allocated, last_event, placeVars, scheduleWorkFlag,
                   mutexNextCommandChecker, checkerVars, ownerVars, clientVars>>

-----------------------------------------------------------------------------
(* The owner: start, stop, deinit, init *)

Elements(s) == {s[i] : i \in DOMAIN s}

Distinct(s) == \A i, j \in DOMAIN s : s[i] = s[j] => i = j

Stacked == Elements(commandStack)

Start ==
    /\ owner = "idle" /\ ~submitting
    /\ serviceState \in {"Initialized", "Stopped"}
    /\ starts < MaxStarts /\ starts' = starts + 1
    /\ serviceState' = "Started"
    /\ scheduleWorkFlag' = TRUE
    /\ scheduler' = "start" /\ checker' = "start"
    /\ UNCHANGED <<commandVars, placeVars, semaphoreVars, owner, notified,
                   mutexNextCommandChecker>>

\* The executor's stop waits for its map, then for mutexNextCommandChecker.
StopCall ==
    /\ owner = "idle" /\ ~submitting /\ serviceState = "Started"
    /\ owner' = "stop_lock"
    /\ UNCHANGED <<semaphoreVars, scheduleWorkFlag, mutexNextCommandChecker,
                   serviceState, notified>>

\* With mutexNextCommandChecker: clear the flag, wake both threads.
StopSignal ==
    /\ owner = "stop_lock" /\ mutexNextCommandChecker = "free"
    /\ mutexNextCommandChecker' = "owner"
    /\ scheduleWorkFlag' = FALSE
    /\ threadSchedulerPauseCondition' = TRUE
    /\ waithForNextCheck' = TRUE
    /\ owner' = "stop_signalled"
    /\ UNCHANGED <<serviceState, notified>>

\* conditionWaithSchedulerEnd.wait: the mutex is released meanwhile.
StopWait ==
    /\ owner = "stop_signalled"
    /\ mutexNextCommandChecker' = "free"
    /\ notified' = FALSE
    /\ owner' = "stop_wait"
    /\ UNCHANGED <<semaphoreVars, scheduleWorkFlag, serviceState>>

StopWake ==
    /\ owner = "stop_wait" /\ notified /\ mutexNextCommandChecker = "free"
    /\ mutexNextCommandChecker' = "owner"
    /\ notified' = FALSE
    /\ owner' = "join"
    /\ UNCHANGED <<semaphoreVars, scheduleWorkFlag, serviceState>>

\* Both threads are joined with the mutex held.
StopJoin ==
    /\ owner = "join" /\ scheduler = "done" /\ checker = "done"
    /\ mutexNextCommandChecker' = "free"
    /\ serviceState' = "Stopped"
    /\ owner' = "idle"
    /\ UNCHANGED <<semaphoreVars, scheduleWorkFlag, notified>>

Stop ==
    /\ StopCall \/ StopSignal \/ StopWait \/ StopWake \/ StopJoin
    /\ UNCHANGED <<commandVars, placeVars, scheduler, checker, starts>>

\* deinit reports the current command as killed.  For the stacked and the
\* queued ones it tests currentExecutingCommand again, NULL by then, and
\* deletes them without an event.
Deinit ==
    LET deleted == {currentExecutingCommand} \cup Stacked
                     \cup command_submitted_queue
    IN
    /\ owner = "idle" /\ ~submitting
    /\ serviceState \in {"Initialized", "Stopped"}
    /\ serviceState' = "Deinitialized"
    /\ last_event' = [c \in Command |->
                        IF c = currentExecutingCommand THEN "KILLED"
                        ELSE last_event[c]]
    /\ impl' = [c \in Command |-> IF c \in deleted THEN Blank ELSE impl[c]]
    /\ allocated' = allocated \ deleted
    /\ InstallNull
    /\ commandStack' = <<>> /\ command_submitted_queue' = {}
    /\ UNCHANGED <<semaphoreVars, scheduleWorkFlag, mutexNextCommandChecker,
                   scheduler, checker, owner, notified, starts>>

Reinit ==
    /\ owner = "idle" /\ ~submitting /\ serviceState = "Deinitialized"
    /\ serviceState' = "Initialized"
    /\ InstallNull
    /\ scheduleWorkFlag' = FALSE
    /\ UNCHANGED <<commandVars, command_submitted_queue, commandStack,
                   semaphoreVars, mutexNextCommandChecker, scheduler, checker,
                   owner, notified, starts>>

Owner ==
    /\ Start \/ Stop \/ Deinit \/ Reinit
    /\ UNCHANGED <<command_to_delete, current_check_value, canWork,
                   curr_executing_impl, clientVars>>

-----------------------------------------------------------------------------
(* The RPC threads *)

\* submitCommand holds the executor's map for writing; the state of the
\* service was tested before, so only a deinitialized sandbox refuses.
EnqueueCommand(c, k) ==
    /\ owner = "idle" /\ reader = "idle" /\ ~submitting
    /\ serviceState # "Deinitialized"
    /\ mutexNextCommandChecker = "free"
    /\ last_event[c] = "NONE"
    /\ last_event' = [last_event EXCEPT ![c] = "QUEUED"]
    /\ allocated' = allocated \cup {c}
    /\ impl' = [impl EXCEPT ![c] = NewInstance(k)]
    /\ command_submitted_queue' = command_submitted_queue \cup {c}
    /\ submitting' = TRUE
    /\ UNCHANGED <<semaphoreVars, reader, crashed>>

\* Slip: the checker is not woken.
EnqueueUnlock_NoWake ==
    /\ submitting
    /\ submitting' = FALSE
    /\ UNCHANGED <<commandVars, command_submitted_queue, semaphoreVars, reader,
                   crashed>>

\* The trailing waithForNextCheck.unlock().
EnqueueUnlock ==
    /\ submitting
    /\ submitting' = FALSE
    /\ waithForNextCheck' = TRUE
    /\ UNCHANGED <<commandVars, command_submitted_queue,
                   threadSchedulerPauseCondition, reader, crashed>>

\* BatchCommandExecutor::killCurrentCommand tests the pointer unlocked.
KillTest ==
    /\ reader = "idle" /\ ~submitting
    /\ currentExecutingCommand # NoCommand
    /\ reader' = "kill"
    /\ UNCHANGED <<commandVars, command_submitted_queue, semaphoreVars,
                   submitting, crashed>>

KillCurrentCommand ==
    /\ reader = "kill"
    /\ reader' = "idle"
    /\ IF currentExecutingCommand = NoCommand
       THEN crashed' = TRUE /\ UNCHANGED impl
       ELSE /\ impl' = [impl EXCEPT ![currentExecutingCommand].runningProperty
                                      = "RP_End"]
            /\ UNCHANGED crashed
    /\ UNCHANGED <<allocated, last_event, command_submitted_queue,
                   semaphoreVars, submitting>>

\* Both setCommandFeatures; one may switch the timeout on.
SetCommandFeatures ==
    /\ reader = "idle" /\ ~submitting
    /\ currentExecutingCommand # NoCommand
    /\ \E delay \in BOOLEAN, timeout \in {impl[currentExecutingCommand].timeout, TRUE} :
         impl' = [impl EXCEPT ![currentExecutingCommand].delay = delay,
                              ![currentExecutingCommand].timeout = timeout]
    /\ reader' = "features"
    /\ UNCHANGED <<allocated, last_event, command_submitted_queue,
                   semaphoreVars, submitting, crashed>>

\* The RPC wakes the scheduler only if it sees it waiting, the local call
\* always.
FeaturesUnlock ==
    /\ reader = "features"
    /\ reader' = "idle"
    /\ threadSchedulerPauseCondition' \in {TRUE, threadSchedulerPauseCondition}
    /\ UNCHANGED <<commandVars, command_submitted_queue, waithForNextCheck,
                   submitting, crashed>>

Client ==
    /\ \/ \E c \in Command, k \in Kinds : EnqueueCommand(c, k)
       \/ EnqueueUnlock \/ KillTest \/ KillCurrentCommand
       \/ SetCommandFeatures \/ FeaturesUnlock
    /\ UNCHANGED <<commandStack, functorVars, scheduleWorkFlag,
                   mutexNextCommandChecker, checkerVars, schedulerVars,
                   ownerVars>>

-----------------------------------------------------------------------------
Next == ~crashed /\ (Checker \/ Scheduler \/ Owner \/ Client)

Spec == Init /\ [][Next]_vars

-----------------------------------------------------------------------------
(* Properties *)

Pointer == Command \cup {NoCommand}

Instance == [kind : Kinds, runningProperty : RunningProperty,
             already_setupped : BOOLEAN, delay : BOOLEAN, timeout : BOOLEAN]

CommandTypes ==
    /\ impl \in [Command -> Instance]
    /\ allocated \subseteq Command
    /\ last_event \in [Command -> Event]

PlaceTypes ==
    /\ command_submitted_queue \subseteq Command
    /\ commandStack \in Seq(Command)
    /\ currentExecutingCommand \in Pointer
    /\ acquireHandlerFunctor \in Pointer
    /\ correlationHandlerFunctor \in Pointer

SignalTypes ==
    /\ scheduleWorkFlag \in BOOLEAN
    /\ waithForNextCheck \in BOOLEAN
    /\ threadSchedulerPauseCondition \in BOOLEAN
    /\ mutexNextCommandChecker \in {"free", "checker", "owner"}

ThreadTypes ==
    /\ checker \in {"start", "awaked", "lock", "relock", "loop", "retire",
                    "installed", "wait_continue", "wait_timed", "wait_idle",
                    "done"}
    /\ command_to_delete \in Pointer
    /\ current_check_value \in {"RSR_NO_CHANGE", "RSR_KILL_KURRENT_COMMAND",
         "RSR_CURRENT_CMD_HAS_ENDED", "RSR_CURRENT_CMD_HAS_FAULTED"}
    /\ scheduler \in {"start", "step", "check", "switch", "delay", "sleep",
                      "pause", "done"}
    /\ canWork \in BOOLEAN
    /\ curr_executing_impl \in Pointer

CallerTypes ==
    /\ owner \in {"idle", "stop_lock", "stop_signalled", "stop_wait", "join"}
    /\ serviceState \in {"Deinitialized", "Initialized", "Started", "Stopped"}
    /\ notified \in BOOLEAN
    /\ starts \in 0..MaxStarts
    /\ reader \in {"idle", "kill", "features"}
    /\ submitting \in BOOLEAN
    /\ crashed \in BOOLEAN

\* Every variable keeps its type.
TypeOK ==
    CommandTypes /\ PlaceTypes /\ SignalTypes /\ ThreadTypes /\ CallerTypes

\* A functor that runCommand calls never points to a deleted command, nor to
\* one that is neither current nor paused, although a command with only some
\* of the handlers leaves those of the command it stacks installed, and a
\* killed one is deleted in a later step.
FunctorsLive ==
    {acquireHandlerFunctor, correlationHandlerFunctor}
      \subseteq ({currentExecutingCommand, NoCommand} \cup Stacked)

\* The current command's own handlers are the ones installed, however it
\* became current: installed, resumed from the stack, or put back after its
\* successor's set handler failed.
CurrentHandlersInstalled ==
    currentExecutingCommand # NoCommand =>
      LET mask == Kind(currentExecutingCommand).mask IN
      /\ "HT_Acquisition" \in mask =>
           acquireHandlerFunctor = currentExecutingCommand
      /\ "HT_Correlation" \in mask =>
           correlationHandlerFunctor = currentExecutingCommand

\* A command is in one place: queued, current, paused or about to be deleted
\* by the checker; no place holds a deleted one or holds one twice.
OnePlace ==
    /\ command_submitted_queue \cup Stacked \subseteq allocated
    /\ {currentExecutingCommand, command_to_delete}
         \subseteq allocated \cup {NoCommand}
    /\ command_submitted_queue \cap Stacked = {}
    /\ {currentExecutingCommand, command_to_delete}
         \cap (Stacked \cup command_submitted_queue) = {}
    /\ command_to_delete = currentExecutingCommand =>
         command_to_delete = NoCommand
    /\ Distinct(commandStack)

\* The set handler of a command that is current or paused has run: resuming
\* it, or putting it back, will not run it a second time.
SetOnce ==
    \A c \in Stacked \cup ({currentExecutingCommand} \ {NoCommand}) :
      ~NeedsSet(c)

\* What the event handler was told agrees with what the sandbox does: of the
\* commands that exist the RUNNING one is the current one (or the one being
\* replaced), the PAUSED ones are those of the stack, the queued ones are
\* QUEUED, and none is reported as ended.
EventsAgree ==
    /\ \A c \in allocated :
         /\ last_event[c] = "RUNNING" <=>
              c \in {currentExecutingCommand, command_to_delete}
         /\ last_event[c] = "PAUSED" <=> c \in Stacked
         /\ last_event[c] \notin Terminal \cup {"NONE"}
    /\ \A c \in command_submitted_queue : last_event[c] = "QUEUED"

\* A functor is a command that implements its handler.
FunctorsImplement ==
    /\ acquireHandlerFunctor # NoCommand =>
         "HT_Acquisition" \in Kind(acquireHandlerFunctor).mask
    /\ correlationHandlerFunctor # NoCommand =>
         "HT_Correlation" \in Kind(correlationHandlerFunctor).mask

\* Who holds mutexNextCommandChecker, and when the threads exist.
ThreadsAndLocks ==
    /\ mutexNextCommandChecker = "checker" <=>
         checker \in {"loop", "retire", "installed"}
    /\ mutexNextCommandChecker = "owner" <=> owner \in {"stop_signalled", "join"}
    /\ owner # "idle" => serviceState = "Started"
    /\ serviceState # "Started" => checker = "done" /\ scheduler = "done"
    /\ command_to_delete # NoCommand <=> checker = "retire"
    /\ checker = "retire" => current_check_value # "RSR_NO_CHANGE"
    /\ serviceState = "Deinitialized" => currentExecutingCommand = NoCommand

\* The commands, the functors and the events agree with each other.
Consistent ==
    /\ OnePlace /\ SetOnce /\ EventsAgree
    /\ FunctorsLive /\ FunctorsImplement /\ CurrentHandlersInstalled

\* Everything above holds in every reachable state: the two threads, the
\* owner and the RPC threads leave the commands, the functors and the events
\* consistent after each of their steps.  It is inductive.
Inv == TypeOK /\ ThreadsAndLocks /\ Consistent

\* When both threads sleep, no wake-up is on its way to either and the
\* sandbox has not been stopped, there is nothing left to do: no current
\* command and an empty queue.
NoLostWakeup ==
    ( /\ scheduler = "pause" /\ ~threadSchedulerPauseCondition
      /\ checker \in {"start", "wait_idle", "wait_continue"}
      /\ ~waithForNextCheck /\ ~submitting /\ scheduleWorkFlag )
    => currentExecutingCommand = NoCommand /\ command_submitted_queue = {}

\* A command running exclusively is not paused, killed or removed by the
\* submission of another one: it stops being current only when the owner
\* deinitializes the sandbox.
ExclusiveStays ==
    [][ (/\ currentExecutingCommand # NoCommand
         /\ Property(currentExecutingCommand) = "RP_Exsc"
         /\ currentExecutingCommand' # currentExecutingCommand)
        => serviceState' = "Deinitialized" ]_vars

\* What runCommand does with curr_executing_impl after it has released the
\* mutex, it does to a command that exists ("Mutex used for sincronize the
\* introspection of the current command").
ReadsLiveCommand ==
    scheduler \in {"check", "switch"} => curr_executing_impl \in allocated

Lifecycle == INSTANCE CommandLifecycle
               WITH state <- last_event, paused <- commandStack

\* The events a client is given of each command follow the lifecycle: none
\* runs before it was queued, none gets an event after it ended, and paused
\* commands resume last in first out.
FollowsLifecycle == Lifecycle!Spec

-----------------------------------------------------------------------------
(* Progress *)

\* The operating system runs both threads, and an RPC thread that has queued
\* a command or passed a test goes on.  Nobody has to start, stop, submit or
\* kill.
Fairness ==
    /\ WF_vars(~crashed /\ Checker)
    /\ WF_vars(~crashed /\ Scheduler)
    /\ WF_vars(~crashed /\ Client /\ (submitting \/ reader # "idle"))
    /\ WF_vars(~crashed /\ Owner /\ owner # "idle")

FairSpec == Spec /\ Fairness

\* A command that has ended or faulted is retired, whoever ended it (its
\* handlers, a timeout or a kill) and whatever is queued meanwhile, unless
\* the sandbox is stopped.
EndedRetired ==
    \A c \in Command :
      (c = currentExecutingCommand /\ Property(c) \in Ended)
        ~> (c \notin allocated \/ ~scheduleWorkFlag \/ crashed)

\* A queued command compatible with whatever may be running (here no handler
\* makes its command exclusive, so one that stacks or kills) leaves the
\* queue, unless the sandbox is stopped.
CompatibleServed ==
    \A c \in Command :
      (c \in command_submitted_queue /\ Kind(c).rule # "SUBMIT_NORMAL"
         /\ scheduleWorkFlag)
        ~> (c \notin command_submitted_queue \/ ~scheduleWorkFlag \/ crashed)

\* stop returns ("waith that the current command will terminate the work").
StopReturns ==
    (owner = "stop_lock") ~> (owner = "idle" \/ crashed)

=============================================================================
