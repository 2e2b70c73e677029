---------------------- MODULE BatchCommandSandboxTypes -----------------------
(***************************************************************************)
(* The groundwork of the proofs about BatchCommandSandbox, which hold for  *)
(* every set of commands, every kind of command, every behaviour of the    *)
(* handlers and any number of restarts: type correctness, the stack of     *)
(* paused commands as a sequence, who holds the mutex when, and what the   *)
(* semaphores say when a thread sleeps.                                    *)
(***************************************************************************)
EXTENDS BatchCommandSandbox, TLAPS

USE NoCommandAssumption

-----------------------------------------------------------------------------
(* Types *)

\* A fresh or blank instance is one.
LEMMA NewInstanceType ==
    /\ \A k \in Kinds : NewInstance(k) \in Instance
    /\ Blank \in Instance
<1>1. \A k \in Kinds : NewInstance(k) \in Instance
  BY KindsAssumption DEF NewInstance, Instance, RunningProperty
<1>2. (CHOOSE k \in Kinds : TRUE) \in Kinds
  BY KindsAssumption
<1> QED
  BY <1>1, <1>2 DEF Blank

\* The set handler leaves an instance of the same kind, set up if it has to.
LEMMA SetSucceedsType ==
    ASSUME impl \in [Command -> Instance], NEW c \in Command,
           NEW i \in SetSucceeds(c)
    PROVE  /\ i \in Instance
           /\ i.kind = Kind(c)
           /\ i.already_setupped \/ "HT_Set" \notin Kind(c).mask
<1>1. impl[c] \in Instance
  OBVIOUS
<1>2. CASE NeedsSet(c)
  <2>1. PICK p \in HandlerRP \cup {Property(c)} :
          i = [impl[c] EXCEPT !.already_setupped = TRUE, !.runningProperty = p]
    BY Zenon, <1>2 DEF SetSucceeds
  <2>2. p \in RunningProperty
    BY SMTT(20), <1>1, <2>1, HandlerRPAssumption DEF Property, Instance
  <2> QED
    BY Zenon, <1>1, <2>1, <2>2 DEF Kind, Instance
<1>3. CASE ~NeedsSet(c)
  BY Zenon, <1>1, <1>3 DEF SetSucceeds, NeedsSet, Kind, Instance
<1> QED
  BY <1>2, <1>3

\* So do the handlers a functor calls, and the timeout.
LEMMA CallType ==
    ASSUME NEW f \in [Command -> Instance], NEW c \in Pointer,
           NEW g \in Call(c, f)
    PROVE  /\ g \in [Command -> Instance]
           /\ \A d \in Command :
                /\ g[d].kind = f[d].kind
                /\ g[d].already_setupped = f[d].already_setupped
<1>1. CASE g = f
  BY <1>1
<1>2. CASE g # f
  <2>1. c \in Command
    BY <1>2 DEF Call, Pointer
  <2>2. PICK p \in HandlerRP \cup {f[c].runningProperty, "RP_Fault"} :
          g = [f EXCEPT ![c].runningProperty = p]
    BY <1>2 DEF Call
  <2>3. p \in RunningProperty
    BY <2>1, HandlerRPAssumption DEF Instance, RunningProperty
  <2> QED
    BY <2>1, <2>2, <2>3 DEF Instance
<1> QED
  BY <1>1, <1>2

\* commandPost leaves instances of the same kinds as well.
LEMMA PostType ==
    ASSUME NEW f \in [Command -> Instance], NEW c \in Command,
           NEW g \in Post(c, f)
    PROVE  /\ g \in [Command -> Instance]
           /\ \A d \in Command :
                /\ g[d].kind = f[d].kind
                /\ g[d].already_setupped = f[d].already_setupped
  BY DEF Post, Instance, RunningProperty

\* The instances, the set of them that exist and the events keep their types.
LEMMA CommandTypesStep == TypeOK /\ [Next]_vars => CommandTypes'
<1> SUFFICES ASSUME TypeOK, [Next]_vars PROVE CommandTypes'
  OBVIOUS
<1> USE DEF TypeOK, CommandTypes, commandVars
<1>1. CASE UNCHANGED commandVars
  BY <1>1
<1>2. ASSUME NEW c \in Command, CheckSetOnly(c) PROVE CommandTypes'
  BY <1>2, NewInstanceType DEF CheckSetOnly, ReportAndDelete, Event, Terminal
<1>3. ASSUME NEW c \in Command, CheckStack(c) PROVE CommandTypes'
  BY <1>3, NewInstanceType, SetSucceedsType
     DEF CheckStack, AtReplaceable, ReportAndDelete, Event, Terminal
<1>4. ASSUME NEW c \in Command, CheckReplace(c) PROVE CommandTypes'
  BY <1>4, NewInstanceType, SetSucceedsType DEF CheckReplace, Event, Terminal
<1>5. ASSUME NEW c \in Command, CheckInstallFirst(c) PROVE CommandTypes'
  <2>1. impl' \in [Command -> Instance]
    <3>1. CASE \E i \in SetSucceeds(c) : impl' = [impl EXCEPT ![c] = i]
      BY <3>1, SetSucceedsType
    <3>2. CASE impl' = [impl EXCEPT ![c].runningProperty = "RP_Fault"]
      BY <3>2 DEF Instance, RunningProperty
    <3> QED
      BY <1>5, <3>1, <3>2 DEF CheckInstallFirst
  <2> QED
    BY <1>5, <2>1 DEF CheckInstallFirst, Event
<1>6. CASE CheckRetire
  BY Zenon, <1>6, NewInstanceType DEF CheckRetire, ReportAndDelete, Event,
     Terminal
<1>7. CASE CheckIdle
  BY <1>7, NewInstanceType DEF CheckIdle, ReportAndDelete, Event, Terminal
<1>8. CASE SchedulerStep /\ UNCHANGED <<allocated, last_event>>
  <2>1. currentExecutingCommand \in Command
    BY <1>8 DEF SchedulerStep, PlaceTypes, Pointer
  <2>2. PICK a \in Call(acquireHandlerFunctor, impl) :
          \E b \in Call(correlationHandlerFunctor, a) :
            impl' \in Post(currentExecutingCommand, b)
    BY <1>8 DEF SchedulerStep
  <2>3. PICK b \in Call(correlationHandlerFunctor, a) :
          impl' \in Post(currentExecutingCommand, b)
    BY <2>2
  <2>4. a \in [Command -> Instance]
    BY CallType DEF PlaceTypes
  <2>5. b \in [Command -> Instance]
    BY <2>4, CallType DEF PlaceTypes
  <2>6. \A g \in Post(currentExecutingCommand, b) : g \in [Command -> Instance]
    BY Zenon, <2>1, <2>5, PostType
  <2>7. impl' \in [Command -> Instance]
    BY Zenon, <2>3, <2>6
  <2> QED
    BY <1>8, <2>7
<1>9. CASE Deinit
  BY <1>9, NewInstanceType DEF Deinit, Event, Terminal
<1>10. ASSUME NEW c \in Command, NEW k \in Kinds, EnqueueCommand(c, k)
       PROVE  CommandTypes'
  BY <1>10, NewInstanceType DEF EnqueueCommand, Event
<1>11. CASE KillCurrentCommand
  <2>1. CASE currentExecutingCommand = NoCommand
    BY <1>11, <2>1 DEF KillCurrentCommand
  <2>2. CASE currentExecutingCommand \in Command
    <3>1. impl' = [impl EXCEPT ![currentExecutingCommand].runningProperty
                                 = "RP_End"]
      BY <1>11, <2>2 DEF KillCurrentCommand
    <3> QED
      BY <1>11, <2>2, <3>1 DEF KillCurrentCommand, Instance, RunningProperty
  <2> QED
    BY <2>1, <2>2 DEF PlaceTypes, Pointer
<1>12. CASE SetCommandFeatures
  <2>1. currentExecutingCommand \in Command
    BY <1>12 DEF SetCommandFeatures, PlaceTypes, Pointer
  <2>2. PICK delay \in BOOLEAN,
             timeout \in {impl[currentExecutingCommand].timeout, TRUE} :
          impl' = [impl EXCEPT ![currentExecutingCommand].delay = delay,
                               ![currentExecutingCommand].timeout = timeout]
    BY Zenon, <1>12 DEF SetCommandFeatures
  <2>3. timeout \in BOOLEAN
    BY Zenon, <2>1 DEF Instance
  <2>4. impl' \in [Command -> Instance]
    BY ZenonT(30), <2>1, <2>2, <2>3 DEF Instance
  <2> QED
    BY <1>12, <2>4 DEF SetCommandFeatures
<1>13. Checker => CommandTypes'
  BY <1>1, <1>2, <1>3, <1>4, <1>5, <1>6, <1>7
     DEF Checker, CheckCommand, CheckerWake, CheckerFirstTest, CheckerLock,
         CheckWait, CheckInstalled
<1>14. Scheduler => CommandTypes'
  BY <1>1, <1>8
     DEF Scheduler, SchedulerStart, SchedulerNothing, SchedulerCheck,
         SchedulerSwitch, SchedulerSleep, SchedulerWake
<1>15. Owner => CommandTypes'
  BY <1>1, <1>9 DEF Owner, Start, Stop, Reinit
<1>16. Client => CommandTypes'
  BY Zenon, <1>1, <1>10, <1>11, <1>12
     DEF Client, EnqueueUnlock, KillTest, FeaturesUnlock
<1> QED
  BY <1>1, <1>13, <1>14, <1>15, <1>16 DEF Next, vars

\* The queue, the stack, the current command and the functors keep theirs.
LEMMA PlaceTypesStep == TypeOK /\ [Next]_vars => PlaceTypes'
<1> SUFFICES ASSUME TypeOK, [Next]_vars PROVE PlaceTypes'
  OBVIOUS
<1> USE DEF TypeOK, PlaceTypes, placeVars, functorVars, Pointer
<1>1. CASE UNCHANGED placeVars
  BY <1>1
<1>2. ASSUME NEW c \in Command, CheckSetOnly(c) PROVE PlaceTypes'
  BY <1>2 DEF CheckSetOnly, Dequeue
<1>3. ASSUME NEW c \in Command, CheckStack(c) PROVE PlaceTypes'
  <2>1. currentExecutingCommand \in Command
    BY <1>3 DEF CheckStack, AtReplaceable
  <2>2. CASE Push(currentExecutingCommand)
    <3>1. commandStack' \in Seq(Command)
      BY <2>1, <2>2 DEF Push
    <3> QED
      BY <1>3, <3>1 DEF CheckStack, Dequeue, Install
  <2>3. CASE UNCHANGED <<functorVars, commandStack>>
    BY <1>3, <2>3 DEF CheckStack, Dequeue
  <2> QED
    BY <1>3, <2>2, <2>3 DEF CheckStack
<1>4. ASSUME NEW c \in Command, CheckReplace(c) PROVE PlaceTypes'
  BY <1>4 DEF CheckReplace, RemoveHandler, Dequeue, Install
<1>5. ASSUME NEW c \in Command, CheckInstallFirst(c) PROVE PlaceTypes'
  BY <1>5 DEF CheckInstallFirst, Dequeue, Install
<1>6. CASE CheckIdle
  <2>1. CASE commandStack # <<>> /\ commandStack' = Tail(commandStack)
    <3>1. Head(commandStack) \in Command /\ Tail(commandStack) \in Seq(Command)
      BY <2>1
    <3> QED
      BY <1>6, <2>1, <3>1 DEF CheckIdle, RemoveHandler, Install, InstallNull
  <2>2. CASE UNCHANGED commandStack
    BY <1>6, <2>2 DEF CheckIdle, RemoveHandler, Install, InstallNull
  <2> QED
    BY <1>6, <2>1, <2>2 DEF CheckIdle
<1>7. CASE Deinit \/ Reinit
  <2>1. CASE Deinit
    BY <2>1 DEF Deinit, InstallNull
  <2>2. CASE Reinit
    BY <2>2 DEF Reinit, InstallNull, commandVars, semaphoreVars
  <2> QED
    BY <1>7, <2>1, <2>2
<1>8. ASSUME NEW c \in Command, NEW k \in Kinds, EnqueueCommand(c, k),
             UNCHANGED <<functorVars, commandStack>>
      PROVE  PlaceTypes'
  BY <1>8 DEF EnqueueCommand
<1>9. Checker => PlaceTypes'
  BY <1>1, <1>2, <1>3, <1>4, <1>5, <1>6
     DEF Checker, CheckCommand, CheckerWake, CheckerFirstTest, CheckerLock,
         CheckWait, CheckRetire, CheckInstalled
<1>10. Scheduler => PlaceTypes'
  BY <1>1 DEF Scheduler
<1>11. Owner => PlaceTypes'
  BY <1>1, <1>7 DEF Owner, Start, Stop
<1>12. Client => PlaceTypes'
  BY Zenon, <1>1, <1>8
     DEF Client, EnqueueUnlock, KillTest, KillCurrentCommand,
         SetCommandFeatures, FeaturesUnlock
<1> QED
  BY <1>1, <1>9, <1>10, <1>11, <1>12 DEF Next, vars

\* So do the flag, the semaphores, the mutex and the threads' own variables.
LEMMA ThreadTypesStep == TypeOK /\ [Next]_vars => SignalTypes' /\ ThreadTypes'
<1> SUFFICES ASSUME TypeOK, [Next]_vars PROVE SignalTypes' /\ ThreadTypes'
  OBVIOUS
<1> USE DEF TypeOK, SignalTypes, ThreadTypes, semaphoreVars, checkerVars,
        schedulerVars
<1>1. CASE Checker
  <2> UNCHANGED <<scheduleWorkFlag, schedulerVars>>
    BY <1>1 DEF Checker
  <2>1. CASE CheckerWake
    BY ZenonT(30), <2>1 DEF CheckerWake
  <2>2. CASE CheckerFirstTest \/ CheckerLock
    BY <2>2 DEF CheckerFirstTest, CheckerLock, EndOfLoopBody
  <2>3. ASSUME NEW c \in Command, CheckSetOnly(c) \/ CheckWait(c)
        PROVE  SignalTypes' /\ ThreadTypes'
    BY <2>3 DEF CheckSetOnly, CheckWait
  <2>4. ASSUME NEW c \in Command, CheckStack(c) PROVE SignalTypes' /\ ThreadTypes'
    BY <2>4 DEF CheckStack, EndOfLoopBody
  <2>5. ASSUME NEW c \in Command, CheckReplace(c) PROVE SignalTypes' /\ ThreadTypes'
    <3>1. SignalTypes'
      BY <2>5 DEF CheckReplace, EndOfLoopBody
    <3>2. checker' \in {"retire", "loop", "done"}
      BY <2>5 DEF CheckReplace, EndOfLoopBody
    <3>3. command_to_delete' \in Pointer
      BY <2>5 DEF CheckReplace, PlaceTypes
    <3>4. current_check_value' \in {current_check_value} \cup
             {"RSR_KILL_KURRENT_COMMAND", "RSR_CURRENT_CMD_HAS_ENDED",
              "RSR_CURRENT_CMD_HAS_FAULTED"}
      BY <2>5 DEF CheckReplace
    <3> QED
      BY <3>1, <3>2, <3>3, <3>4
  <2>6. ASSUME NEW c \in Command, CheckInstallFirst(c)
        PROVE  SignalTypes' /\ ThreadTypes'
    BY <2>6 DEF CheckInstallFirst
  <2>7. CASE CheckRetire \/ CheckInstalled
    BY ZenonT(30), <2>7 DEF CheckRetire, CheckInstalled, EndOfLoopBody, Pointer
  <2>8. CASE CheckIdle
    BY ZenonT(30), <2>8 DEF CheckIdle
  <2> QED
    BY <1>1, <2>1, <2>2, <2>3, <2>4, <2>5, <2>6, <2>7, <2>8
       DEF Checker, CheckCommand
<1>2. CASE Scheduler
  <2> UNCHANGED <<scheduleWorkFlag, mutexNextCommandChecker, checkerVars>>
    BY <1>2 DEF Scheduler
  <2>1. CASE SchedulerStart \/ SchedulerNothing
    BY ZenonT(30), <2>1 DEF SchedulerStart, SchedulerNothing
  <2>5. CASE SchedulerCheck
    <3>1. UNCHANGED semaphoreVars
      BY <2>5 DEF SchedulerCheck
    <3>2. \/ scheduler' = "done" /\ canWork' = FALSE
              /\ curr_executing_impl' = NoCommand
          \/ scheduler' = "switch" /\ UNCHANGED <<canWork, curr_executing_impl>>
      BY <2>5, Zenon DEF SchedulerCheck
    <3>3. CASE scheduler' = "done" /\ canWork' = FALSE
               /\ curr_executing_impl' = NoCommand
      BY ZenonT(30), <3>1, <3>3 DEF Pointer
    <3>4. CASE scheduler' = "switch" /\ UNCHANGED <<canWork, curr_executing_impl>>
      BY <3>1, <3>4 DEF Pointer
    <3> QED
      BY Zenon, <3>2, <3>3, <3>4
  <2>2. CASE SchedulerStep
    BY <2>2 DEF SchedulerStep, PlaceTypes
  <2>3. CASE SchedulerSwitch
    BY <2>3 DEF SchedulerSwitch, LoopOrEnd, Pointer
  <2>4. CASE SchedulerSleep \/ SchedulerWake
    BY ZenonT(30), <2>4 DEF SchedulerSleep, SchedulerWake, LoopOrEnd
  <2> QED
    BY <1>2, <2>1, <2>2, <2>3, <2>4, <2>5 DEF Scheduler
<1>3. CASE Owner
  <2> UNCHANGED <<command_to_delete, current_check_value, canWork,
                  curr_executing_impl>>
    BY <1>3 DEF Owner
  <2>1. CASE Stop
    <3>1. UNCHANGED <<scheduler, checker>>
      BY <2>1 DEF Stop
    <3>2. SignalTypes'
      BY Zenon, <2>1 DEF Stop, StopCall, StopSignal, StopWait, StopWake,
         StopJoin
    <3> QED
      BY <3>1, <3>2
  <2>2. CASE Start
    BY <2>2 DEF Start
  <2>3. CASE Deinit
    BY <2>3 DEF Deinit
  <2>4. CASE Reinit
    <3>1. /\ UNCHANGED <<semaphoreVars, mutexNextCommandChecker, scheduler,
                         checker>>
          /\ scheduleWorkFlag' = FALSE
      BY Zenon, <2>4 DEF Reinit
    <3>2. SignalTypes'
      BY Zenon, <3>1
    <3>3. ThreadTypes'
      BY <3>1
    <3> QED
      BY <3>2, <3>3
  <2> QED
    BY <1>3, <2>1, <2>2, <2>3, <2>4 DEF Owner
<1>4. CASE Client
  <2>1. UNCHANGED <<scheduleWorkFlag, mutexNextCommandChecker, checkerVars,
                    schedulerVars>>
    BY <1>4 DEF Client
  <2>2. /\ waithForNextCheck' \in BOOLEAN
        /\ threadSchedulerPauseCondition' \in BOOLEAN
    BY Zenon, <1>4 DEF Client, EnqueueCommand, EnqueueUnlock, KillTest,
           KillCurrentCommand, SetCommandFeatures, FeaturesUnlock
  <2> QED
    BY <2>1, <2>2
<1>5. CASE UNCHANGED vars
  BY <1>5 DEF vars
<1> QED
  BY <1>1, <1>2, <1>3, <1>4, <1>5 DEF Next

\* And so do those of the owner and the RPC threads.
LEMMA CallerTypesStep == TypeOK /\ [Next]_vars => CallerTypes'
<1> SUFFICES ASSUME TypeOK, [Next]_vars PROVE CallerTypes'
  OBVIOUS
<1> USE DEF TypeOK, CallerTypes, ownerVars, clientVars
<1>1. CASE UNCHANGED <<owner, serviceState, starts, clientVars>>
           /\ notified' \in BOOLEAN
  BY <1>1
<1>2. Checker => notified' \in BOOLEAN
  BY Zenon DEF Checker, CheckCommand, CheckerWake, CheckerFirstTest,
     CheckerLock, CheckSetOnly, CheckWait, CheckStack, CheckReplace,
     CheckInstallFirst, CheckRetire, CheckInstalled, CheckIdle, EndOfLoopBody,
     NotifyOwner
<1>3. CASE Owner
  <2> UNCHANGED clientVars
    BY <1>3 DEF Owner
  <2>1. CASE Start
    BY <2>1, MaxStartsAssumption DEF Start
  <2>2. CASE Stop
    BY Zenon, <2>2 DEF Stop, StopCall, StopSignal, StopWait, StopWake, StopJoin
  <2>3. CASE Deinit \/ Reinit
    BY <2>3 DEF Deinit, Reinit
  <2> QED
    BY <1>3, <2>1, <2>2, <2>3 DEF Owner
<1>4. CASE Client
  BY ZenonT(30), <1>4 DEF Client, EnqueueCommand, EnqueueUnlock, KillTest,
         KillCurrentCommand, SetCommandFeatures, FeaturesUnlock
<1> QED
  BY <1>1, <1>2, <1>3, <1>4 DEF Next, vars, Checker, Scheduler

\* The sandbox starts with every variable in its type.
LEMMA TypeInit == Init => TypeOK
<1> SUFFICES ASSUME Init PROVE TypeOK
  OBVIOUS
<1> USE DEF Init
<1>1. CommandTypes
  BY NewInstanceType DEF CommandTypes, Event
<1>2. PlaceTypes /\ SignalTypes
  <2>1. commandStack \in Seq(Command)
    OBVIOUS
  <2> QED
    BY Zenon, <2>1 DEF PlaceTypes, SignalTypes, Pointer
<1>3. ThreadTypes
  BY Zenon DEF ThreadTypes, Pointer
<1>4. CallerTypes
  <2>1. starts \in 0..MaxStarts
    BY MaxStartsAssumption
  <2> QED
    BY Zenon, <2>1 DEF CallerTypes
<1> QED
  BY <1>1, <1>2, <1>3, <1>4 DEF TypeOK

\* No step of a thread, the owner or an RPC takes a variable out of its type.
LEMMA TypeStep == TypeOK /\ [Next]_vars => TypeOK'
  BY CommandTypesStep, PlaceTypesStep, ThreadTypesStep, CallerTypesStep DEF
     TypeOK

\* Every variable keeps its type.
THEOREM TypeCorrect == Spec => []TypeOK
  BY TypeInit, TypeStep, PTL DEF Spec

-----------------------------------------------------------------------------
(* The stack of paused commands *)

\* Pushing a command that is not in the stack.
LEMMA StackPush ==
    ASSUME NEW s \in Seq(Command), NEW c \in Command
    PROVE  /\ Elements(<<c>> \o s) = {c} \cup Elements(s)
           /\ Distinct(s) /\ c \notin Elements(s) => Distinct(<<c>> \o s)
<1> DEFINE t == <<c>> \o s
<1>1. /\ t \in Seq(Command) /\ Len(t) = Len(s) + 1 /\ t[1] = c
      /\ \A i \in 1..Len(s) : t[i + 1] = s[i]
  OBVIOUS
<1> HIDE DEF t
<1>2. \A i \in 2..Len(t) : i - 1 \in 1..Len(s) /\ t[i] = s[i - 1]
  BY <1>1
<1>3. Elements(t) = {c} \cup Elements(s)
  <2>1. \A x \in Elements(t) : x \in {c} \cup Elements(s)
    BY SMTT(20), <1>1, <1>2 DEF Elements
  <2>2. \A x \in {c} \cup Elements(s) : x \in Elements(t)
    <3>1. c \in Elements(t)
      BY <1>1 DEF Elements
    <3>2. ASSUME NEW i \in 1..Len(s) PROVE s[i] \in Elements(t)
      <4>1. i + 1 \in 1..Len(t) /\ t[i + 1] = s[i]
        BY <1>1
      <4> QED
        BY <4>1, <1>1 DEF Elements
    <3> QED
      BY <3>1, <3>2 DEF Elements
  <2> QED
    BY <2>1, <2>2
<1>4. ASSUME Distinct(s), c \notin Elements(s) PROVE Distinct(t)
  <2> SUFFICES ASSUME NEW i \in 1..Len(t), NEW j \in 1..Len(t), t[i] = t[j]
               PROVE  i = j
    BY <1>1 DEF Distinct
  <2>1. CASE i = 1 \/ j = 1
    BY <2>1, <1>1, <1>2, <1>4 DEF Elements
  <2>2. CASE i # 1 /\ j # 1
    <3>1. /\ i - 1 \in 1..Len(s) /\ t[i] = s[i - 1]
          /\ j - 1 \in 1..Len(s) /\ t[j] = s[j - 1]
      BY <2>2, <1>2
    <3>2. DOMAIN s = 1..Len(s)
      OBVIOUS
    <3>3. i - 1 = j - 1
      BY Zenon, <3>1, <3>2, <1>4 DEF Distinct
    <3> QED
      BY <3>3
  <2> QED
    BY <2>1, <2>2
<1> QED
  BY <1>3, <1>4 DEF t

\* Popping one.
LEMMA StackPop ==
    ASSUME NEW s \in Seq(Command), s # <<>>
    PROVE  /\ Head(s) \in Command
           /\ Elements(s) = {Head(s)} \cup Elements(Tail(s))
           /\ Distinct(s) => Distinct(Tail(s)) /\ Head(s) \notin Elements(Tail(s))
<1> DEFINE t == Tail(s)
<1>1. /\ t \in Seq(Command) /\ Len(t) = Len(s) - 1 /\ Head(s) = s[1]
      /\ \A i \in 1..Len(t) : t[i] = s[i + 1]
  OBVIOUS
<1>2. Len(s) \in Nat \ {0}
  OBVIOUS
<1> HIDE DEF t
<1>3. \A i \in 2..Len(s) : i - 1 \in 1..Len(t) /\ s[i] = t[i - 1]
  BY <1>1, <1>2
<1>4. \A i \in 1..Len(t) : i + 1 \in 1..Len(s) /\ i + 1 # 1
  BY <1>1, <1>2
<1>5. Elements(s) = {Head(s)} \cup Elements(t)
  <2>1. \A x \in Elements(s) : x \in {Head(s)} \cup Elements(t)
    BY <1>1, <1>2, <1>3 DEF Elements
  <2>2. ASSUME NEW x \in {Head(s)} \cup Elements(t) PROVE x \in Elements(s)
    <3>1. CASE x = Head(s)
      BY <1>1, <1>2, <3>1 DEF Elements
    <3>2. CASE x \in Elements(t)
      <4>1. PICK i \in 1..Len(t) : x = t[i]
        BY <1>1, <3>2 DEF Elements
      <4>2. x = s[i + 1] /\ i + 1 \in 1..Len(s)
        BY <1>1, <1>4, <4>1
      <4> QED
        BY <4>2 DEF Elements
    <3> QED
      BY <3>1, <3>2
  <2> QED
    BY <2>1, <2>2
<1>6. ASSUME Distinct(s) PROVE Distinct(t) /\ Head(s) \notin Elements(t)
  <2>1. ASSUME NEW i \in 1..Len(t), NEW j \in 1..Len(t), t[i] = t[j]
        PROVE  i = j
    <3>1. s[i + 1] = s[j + 1]
      BY <2>1, <1>1
    <3>2. i + 1 = j + 1
      BY <3>1, <1>4, <1>6 DEF Distinct
    <3> QED
      BY <3>2
  <2>2. ASSUME NEW i \in 1..Len(t) PROVE Head(s) # t[i]
    <3>1. 1 \in DOMAIN s /\ i + 1 \in DOMAIN s /\ i + 1 # 1
      BY <1>2, <1>4
    <3>2. s[1] # s[i + 1]
      BY <3>1, <1>6 DEF Distinct
    <3> QED
      BY <3>2, <1>1
  <2> QED
    BY <2>1, <2>2, <1>1 DEF Distinct, Elements
<1> QED
  BY <1>1, <1>2, <1>5, <1>6 DEF t

-----------------------------------------------------------------------------
(* The threads and the mutex *)

\* Each step leaves mutexNextCommandChecker with whoever is between its lock
\* and its unlock, and the threads exist only while the service is started.
LEMMA LocksStep == Inv /\ [Next]_vars => ThreadsAndLocks'
<1> SUFFICES ASSUME TypeOK, ThreadsAndLocks, [Next]_vars PROVE ThreadsAndLocks'
  BY SMTT(20) DEF Inv
<1> USE DEF ThreadsAndLocks, checkerVars, schedulerVars, ownerVars, functorVars,
        placeVars
<1>1. CASE Checker
  <2> UNCHANGED <<scheduler, owner, serviceState>>
    BY <1>1 DEF Checker, schedulerVars
  <2>1. CASE CheckerWake \/ CheckerFirstTest
    BY <2>1 DEF CheckerWake, CheckerFirstTest
  <2>2. CASE CheckerLock
    BY <2>2 DEF CheckerLock, EndOfLoopBody
  <2>3. ASSUME NEW c \in Command, CheckSetOnly(c) \/ CheckWait(c)
        PROVE  ThreadsAndLocks'
    BY <2>3 DEF CheckSetOnly, CheckWait, AtReplaceable, AtTop
  <2>4. ASSUME NEW c \in Command, CheckStack(c) PROVE ThreadsAndLocks'
    BY <2>4 DEF CheckStack, AtReplaceable, AtTop, EndOfLoopBody
  <2>5. ASSUME NEW c \in Command, CheckReplace(c) PROVE ThreadsAndLocks'
    BY <2>5 DEF CheckReplace, AtReplaceable, AtTop, EndOfLoopBody
  <2>6. ASSUME NEW c \in Command, CheckInstallFirst(c) PROVE ThreadsAndLocks'
    BY <2>6 DEF CheckInstallFirst, AtTop
  <2>7. CASE CheckRetire \/ CheckInstalled
    BY <2>7 DEF CheckRetire, CheckInstalled, EndOfLoopBody
  <2>8. CASE CheckIdle
    BY <2>8 DEF CheckIdle
  <2> QED
    BY <1>1, <2>1, <2>2, <2>3, <2>4, <2>5, <2>6, <2>7, <2>8
       DEF Checker, CheckCommand
<1>2. CASE Scheduler
  <2>1. UNCHANGED <<mutexNextCommandChecker, checkerVars, owner, serviceState,
                    currentExecutingCommand>>
    BY <1>2 DEF Scheduler
  <2>2. scheduler # "done"
    BY <1>2 DEF Scheduler, SchedulerStart, SchedulerStep, SchedulerNothing,
           SchedulerCheck, SchedulerSwitch, SchedulerSleep, SchedulerWake
  <2> QED
    BY <2>1, <2>2
<1>3. CASE Owner
  <2> UNCHANGED <<command_to_delete, current_check_value>>
    BY <1>3 DEF Owner
  <2>1. CASE Stop
    BY <2>1 DEF Stop, StopCall, StopSignal, StopWait, StopWake, StopJoin
  <2>2. CASE Start
    BY <2>2 DEF Start
  <2>3. CASE Deinit \/ Reinit
    BY <2>3 DEF Deinit, Reinit, InstallNull
  <2> QED
    BY <1>3, <2>1, <2>2, <2>3 DEF Owner
<1>4. CASE Client
  BY <1>4 DEF Client
<1>5. CASE UNCHANGED vars
  BY <1>5 DEF vars
<1> QED
  BY <1>1, <1>2, <1>3, <1>4, <1>5 DEF Next

-----------------------------------------------------------------------------
(* The wake-ups *)

\* There is nothing for the scheduler to do, or its wake-up is there or will
\* be sent by the checker, which has just installed the first command.
SchedulerServed ==
    \/ threadSchedulerPauseCondition
    \/ checker = "installed"
    \/ currentExecutingCommand = NoCommand

\* What holds of the two semaphores between the steps of the threads:
\* the scheduler sleeps on a command only after it has ended, whether or not
\* the checker replaced the command in the meantime, and the checker sleeps
\* only after it has seen the queue empty or a current command that runs.
WakeUps ==
    /\ checker = "start" /\ scheduler = "pause" => waithForNextCheck
    /\ checker = "wait_idle" /\ command_submitted_queue # {} =>
         waithForNextCheck \/ submitting
    /\ checker = "wait_continue" => currentExecutingCommand # NoCommand
    /\ scheduler \in {"check", "switch"} =>
         SchedulerServed \/ curr_executing_impl = currentExecutingCommand
    /\ scheduler \in {"sleep", "pause"} =>
         SchedulerServed \/ Property(currentExecutingCommand) \in Ended
    /\ scheduler = "pause" /\ checker \in {"wait_idle", "wait_continue"} =>
         SchedulerServed \/ waithForNextCheck

\* The property of the current command survives what is done to others.
LEMMA OtherChanged ==
    ASSUME TypeOK, NEW c \in Command, NEW i, c # currentExecutingCommand,
           impl' = [impl EXCEPT ![c] = i],
           UNCHANGED currentExecutingCommand
    PROVE  UNCHANGED Property(currentExecutingCommand)
                \/ currentExecutingCommand = NoCommand
  BY DEF TypeOK, CommandTypes, PlaceTypes, Pointer, Property

\* The checker's steps.
LEMMA CheckerWakeUps ==
    ASSUME Inv, WakeUps, Checker PROVE WakeUps'
<1> USE DEF Inv, WakeUps, SchedulerServed, placeVars, functorVars, commandVars,
        semaphoreVars, Property
<1>1. UNCHANGED <<scheduler, curr_executing_impl, submitting>>
  BY DEF Checker, schedulerVars, clientVars
<1>2. CASE CheckerWake \/ CheckerFirstTest
  BY <1>1, <1>2 DEF CheckerWake, CheckerFirstTest
<1>3. CASE CheckerLock
  BY <1>1, <1>3 DEF CheckerLock, EndOfLoopBody
<1>4. ASSUME NEW c \in Command, CheckSetOnly(c) PROVE WakeUps'
  <2>1. /\ c # currentExecutingCommand /\ impl' = [impl EXCEPT ![c] = Blank]
        /\ checker' = "loop" /\ checker = "loop"
        /\ UNCHANGED <<currentExecutingCommand, threadSchedulerPauseCondition>>
    BY <1>4 DEF CheckSetOnly, AtTop, IsTop, ReportAndDelete, Consistent,
       OnePlace, checkerVars
  <2>2. UNCHANGED Property(currentExecutingCommand)
          \/ currentExecutingCommand = NoCommand
    BY <2>1, OtherChanged
  <2> QED
    BY <1>1, <2>1, <2>2
<1>5. ASSUME NEW c \in Command, CheckWait(c) PROVE WakeUps'
  <2>1. CheckValue(c) = "RSR_NO_CHANGE" =>
          Property(currentExecutingCommand) \notin Ended
    BY DEF CheckValue, running_vs_submition, Ended
  <2> QED
    BY <1>1, <1>5, <2>1 DEF CheckWait, AtReplaceable, AtTop
<1>6. ASSUME NEW c \in Command, CheckStack(c) PROVE WakeUps'
  BY <1>1, <1>6 DEF CheckStack, EndOfLoopBody
<1>7. ASSUME NEW c \in Command, CheckReplace(c) PROVE WakeUps'
  BY <1>1, <1>7 DEF CheckReplace, EndOfLoopBody
<1>8. ASSUME NEW c \in Command, CheckInstallFirst(c) PROVE WakeUps'
  BY <1>1, <1>8 DEF CheckInstallFirst
<1>9. CASE CheckRetire
  <2>1. /\ command_to_delete # NoCommand
        /\ command_to_delete # currentExecutingCommand
        /\ checker = "retire" /\ checker' \in {"loop", "done"}
        /\ impl' = [impl EXCEPT ![command_to_delete] = Blank]
        /\ UNCHANGED <<currentExecutingCommand, threadSchedulerPauseCondition>>
    BY <1>9 DEF CheckRetire, ReportAndDelete, Consistent, OnePlace,
       ThreadsAndLocks, EndOfLoopBody
  <2>2. UNCHANGED Property(currentExecutingCommand)
          \/ currentExecutingCommand = NoCommand
    BY <2>1, OtherChanged DEF TypeOK, ThreadTypes, Pointer
  <2> QED
    BY <1>1, <2>1, <2>2
<1>10. CASE CheckInstalled
  BY <1>1, <1>10 DEF CheckInstalled, EndOfLoopBody
<1>11. CASE CheckIdle
  BY <1>1, <1>11 DEF CheckIdle, InstallNull
<1> QED
  BY <1>2, <1>3, <1>4, <1>5, <1>6, <1>7, <1>8, <1>9, <1>10, <1>11
     DEF Checker, CheckCommand

\* The scheduler's steps.
LEMMA SchedulerWakeUps ==
    ASSUME Inv, WakeUps, Scheduler PROVE WakeUps'
<1> USE DEF Inv, WakeUps, SchedulerServed, semaphoreVars, Property
<1>1. UNCHANGED <<checker, command_submitted_queue, currentExecutingCommand,
                  submitting, allocated>>
  BY DEF Scheduler, checkerVars, clientVars, placeVars, functorVars
<1>2. CASE SchedulerStart \/ SchedulerNothing
  BY <1>1, <1>2 DEF SchedulerStart, SchedulerNothing
<1>3. CASE SchedulerStep
  BY <1>1, <1>3 DEF SchedulerStep
<1>4. CASE SchedulerCheck
  BY <1>1, <1>4 DEF SchedulerCheck
<1>5. CASE SchedulerSwitch
  <2>1. UNCHANGED <<impl, threadSchedulerPauseCondition, waithForNextCheck>>
        /\ scheduler = "switch"
    BY <1>5 DEF SchedulerSwitch
  <2>2. CASE scheduler' = "sleep"
    <3>1. PICK p \in Observed : p \in Ended
      BY <1>5, <2>2 DEF SchedulerSwitch, LoopOrEnd
    <3>2. CASE curr_executing_impl \in allocated
      BY <1>1, <2>1, <2>2, <3>1, <3>2 DEF Observed
    <3>3. CASE curr_executing_impl \notin allocated
      BY <1>1, <2>1, <2>2, <3>3 DEF Consistent, OnePlace
    <3> QED
      BY <3>2, <3>3
  <2>3. CASE scheduler' \in {"step", "delay", "done"}
    BY <1>1, <2>1, <2>3
  <2> QED
    BY <1>5, <2>2, <2>3 DEF SchedulerSwitch, LoopOrEnd
<1>6. CASE SchedulerSleep
  BY <1>1, <1>6 DEF SchedulerSleep
<1>7. CASE SchedulerWake
  BY <1>1, <1>7 DEF SchedulerWake, LoopOrEnd
<1> QED
  BY <1>2, <1>3, <1>4, <1>5, <1>6, <1>7 DEF Scheduler

\* The owner's: it starts both threads together, wakes both when it stops
\* them, and deinitializes the sandbox only when there are none.
LEMMA OwnerWakeUps ==
    ASSUME Inv, WakeUps, Owner PROVE WakeUps'
<1> USE DEF Inv, WakeUps, SchedulerServed, placeVars, functorVars, commandVars,
        semaphoreVars, Property
<1>1. UNCHANGED <<curr_executing_impl, submitting>>
  BY DEF Owner, clientVars
<1>2. CASE Start
  BY <1>1, <1>2 DEF Start
<1>3. CASE Stop
  BY <1>1, <1>3 DEF Stop, StopCall, StopSignal, StopWait, StopWake, StopJoin
<1>4. CASE Deinit \/ Reinit
  <2>1. checker' = "done" /\ scheduler' = "done"
    BY <1>4 DEF Deinit, Reinit, ThreadsAndLocks
  <2> QED
    BY <2>1
<1> QED
  BY <1>2, <1>3, <1>4 DEF Owner

\* The RPC threads'.
LEMMA ClientWakeUps ==
    ASSUME Inv, WakeUps, Client PROVE WakeUps'
<1> USE DEF Inv, WakeUps, SchedulerServed, semaphoreVars, commandVars, Property
<1>1. UNCHANGED <<checker, scheduler, curr_executing_impl,
                  currentExecutingCommand>>
  BY DEF Client, checkerVars, schedulerVars, functorVars
<1>2. ASSUME NEW c \in Command, NEW k \in Kinds, EnqueueCommand(c, k)
      PROVE  WakeUps'
  <2>1. c # currentExecutingCommand
    BY <1>2 DEF EnqueueCommand, Consistent, OnePlace, EventsAgree
  <2>2. UNCHANGED Property(currentExecutingCommand)
          \/ currentExecutingCommand = NoCommand
    BY <1>1, <1>2, <2>1, OtherChanged DEF EnqueueCommand
  <2> QED
    BY <1>1, <1>2, <2>2 DEF EnqueueCommand
<1>3. CASE EnqueueUnlock
  BY <1>1, <1>3 DEF EnqueueUnlock
<1>4. CASE KillTest \/ FeaturesUnlock
  BY <1>1, <1>4 DEF KillTest, FeaturesUnlock
<1>5. CASE KillCurrentCommand \/ SetCommandFeatures
  <2>1. UNCHANGED <<command_submitted_queue, semaphoreVars, submitting>>
    BY <1>5 DEF KillCurrentCommand, SetCommandFeatures
  <2>2. \/ currentExecutingCommand = NoCommand
        \/ UNCHANGED Property(currentExecutingCommand)
        \/ Property(currentExecutingCommand)' = "RP_End"
    <3> SUFFICES ASSUME currentExecutingCommand \in Command
                 PROVE  \/ UNCHANGED Property(currentExecutingCommand)
                        \/ Property(currentExecutingCommand)' = "RP_End"
      BY DEF TypeOK, PlaceTypes, Pointer
    <3>1. impl \in [Command -> Instance]
      BY DEF TypeOK, CommandTypes
    <3>2. CASE KillCurrentCommand
      BY <1>1, <3>1, <3>2 DEF KillCurrentCommand, Instance
    <3>3. CASE SetCommandFeatures
      BY <1>1, <3>1, <3>3 DEF SetCommandFeatures, Instance
    <3> QED
      BY <1>5, <3>2, <3>3
  <2> QED
    BY <1>1, <2>1, <2>2 DEF Ended
<1> QED
  BY <1>2, <1>3, <1>4, <1>5 DEF Client

\* Every step keeps the wake-ups right.
LEMMA WakeUpsStep == Inv /\ WakeUps /\ [Next]_vars => WakeUps'
<1> SUFFICES ASSUME Inv, WakeUps, [Next]_vars PROVE WakeUps'
  OBVIOUS
<1>1. CASE UNCHANGED vars
  BY <1>1 DEF vars, WakeUps, SchedulerServed, Property, commandVars, placeVars,
     functorVars, semaphoreVars, checkerVars, schedulerVars, clientVars
<1> QED
  BY <1>1, CheckerWakeUps, SchedulerWakeUps, OwnerWakeUps, ClientWakeUps
     DEF Next

\* They are right in a new sandbox, and then nobody sleeps with work to do.
LEMMA WakeUpsEnds == /\ Init => WakeUps
                     /\ Inv /\ WakeUps => NoLostWakeup
<1>1. Init => WakeUps
  BY DEF Init, WakeUps, SchedulerServed
<1>2. Inv /\ WakeUps => NoLostWakeup
  BY DEF WakeUps, SchedulerServed, NoLostWakeup
<1> QED
  BY <1>1, <1>2

=============================================================================
