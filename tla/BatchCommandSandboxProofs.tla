---------------------- MODULE BatchCommandSandboxProofs ----------------------
(***************************************************************************)
(* The inductive invariant of BatchCommandSandbox, the safety properties   *)
(* it implies, and what those outside a sandbox can rely on: an exclusive  *)
(* command keeps running, and the events follow CommandLifecycle.          *)
(***************************************************************************)
EXTENDS BatchCommandSandboxTypes

USE NoCommandAssumption

-----------------------------------------------------------------------------
(* The commands, the functors and the events *)

\* The stack holds commands, never NULL.
LEMMA StackedType == TypeOK => Stacked \subseteq Command
  BY DEF TypeOK, PlaceTypes, Stacked, Elements

\* A step that moves no command and changes no kind keeps them consistent.
LEMMA Unmoved ==
    ASSUME TypeOK, Consistent,
           UNCHANGED <<allocated, last_event, placeVars, command_to_delete>>,
           \A c \in Command : /\ impl'[c].kind = impl[c].kind
                              /\ impl'[c].already_setupped
                                   = impl[c].already_setupped
    PROVE  Consistent'
<1> USE DEF Consistent, placeVars, functorVars, Stacked
<1>1. OnePlace' /\ EventsAgree' /\ FunctorsLive'
  BY DEF OnePlace, EventsAgree, FunctorsLive
<1>2. SetOnce'
  BY StackedType DEF SetOnce, NeedsSet, Kind, TypeOK, PlaceTypes, Pointer
<1>3. FunctorsImplement' /\ CurrentHandlersInstalled'
  BY DEF FunctorsImplement, CurrentHandlersInstalled, Kind, TypeOK, PlaceTypes,
         Pointer
<1> QED
  BY SMTT(20), <1>1, <1>2, <1>3

\* A queued command leaves the queue and is deleted, with event e: nothing
\* else moves.
LEMMA Discarded ==
    ASSUME Inv, NEW c \in command_submitted_queue, NEW e \in Terminal,
           ReportAndDelete(c, e), Dequeue(c),
           UNCHANGED <<functorVars, commandStack, command_to_delete>>
    PROVE  Consistent'
<1> USE DEF Inv, Consistent, ReportAndDelete, Dequeue, functorVars, Stacked
<1>1. /\ c \in Command /\ c \notin Stacked
      /\ c \notin {currentExecutingCommand, command_to_delete}
      /\ c \notin {acquireHandlerFunctor, correlationHandlerFunctor}
  BY DEF OnePlace, FunctorsLive, TypeOK, PlaceTypes
<1>2. \A d \in Command \ {c} : impl'[d] = impl[d] /\ last_event'[d] = last_event[d]
  BY DEF TypeOK, CommandTypes
<1>3. OnePlace' /\ FunctorsLive'
  BY <1>1 DEF OnePlace, FunctorsLive
<1>4. EventsAgree'
  BY SMTT(20), <1>1, <1>2 DEF EventsAgree, TypeOK, CommandTypes, PlaceTypes
<1>5. SetOnce'
  BY SMTT(20), <1>1, <1>2, StackedType DEF SetOnce, NeedsSet, Kind, TypeOK,
     PlaceTypes, Pointer
<1>6. FunctorsImplement' /\ CurrentHandlersInstalled'
  BY <1>1, <1>2 DEF FunctorsImplement, CurrentHandlersInstalled, Kind, TypeOK,
     PlaceTypes, Pointer
<1> QED
  BY <1>3, <1>4, <1>5, <1>6

\* The queue's top stacks the current command.
LEMMA StackConsistent ==
    ASSUME Inv, NEW c \in Command, CheckStack(c) PROVE Consistent'
<1> DEFINE cur == currentExecutingCommand
<1> USE DEF Inv
<1>1. /\ c \in command_submitted_queue /\ cur # NoCommand
      /\ UNCHANGED command_to_delete /\ Dequeue(c) /\ command_to_delete = NoCommand
  BY DEF CheckStack, AtReplaceable, AtTop, IsTop, ThreadsAndLocks
<1>2. CASE SetFaults(c) /\ ReportAndDelete(c, "FAULT")
           /\ UNCHANGED <<functorVars, commandStack>>
  BY <1>1, <1>2, Discarded DEF Terminal
<1>3. ASSUME NEW i \in SetSucceeds(c),
             impl' = [impl EXCEPT ![c] = i],
             Install(c, acquireHandlerFunctor, correlationHandlerFunctor),
             Push(cur),
             last_event' = [last_event EXCEPT ![c] = "RUNNING", ![cur] = "PAUSED"],
             UNCHANGED allocated
      PROVE  Consistent'
  <2> USE DEF Consistent
  <2>1. /\ cur \in Command /\ c # cur
        /\ c \in allocated /\ cur \in allocated
        /\ c \notin Stacked /\ cur \notin Stacked
        /\ cur \notin command_submitted_queue
        /\ command_to_delete' = NoCommand
        /\ currentExecutingCommand' = c
        /\ command_submitted_queue' = command_submitted_queue \ {c}
    BY <1>1, <1>3 DEF OnePlace, TypeOK, PlaceTypes, Pointer, Install, Dequeue
  <2>2. Stacked' = {cur} \cup Stacked /\ Distinct(commandStack)'
    BY SMTT(20), <1>3, <2>1, StackPush DEF Push, Stacked, TypeOK, PlaceTypes,
       OnePlace
  <2>3. /\ impl'[c].kind = Kind(c)
        /\ impl'[c].already_setupped \/ "HT_Set" \notin Kind(c).mask
        /\ \A d \in Command \ {c} : impl'[d] = impl[d]
    BY <1>3, SetSucceedsType DEF TypeOK, CommandTypes
  <2>4. /\ last_event'[c] = "RUNNING" /\ last_event'[cur] = "PAUSED"
        /\ \A d \in Command \ {c, cur} : last_event'[d] = last_event[d]
    BY <1>3, <2>1 DEF TypeOK, CommandTypes
  <2>5. OnePlace'
    BY <1>1, <1>3, <2>1, <2>2 DEF OnePlace
  <2>6. EventsAgree'
    BY <1>1, <1>3, <2>1, <2>2, <2>4 DEF EventsAgree, TypeOK, CommandTypes,
       PlaceTypes, OnePlace, Terminal
  <2>7. SetOnce'
    BY SMTT(20), <2>1, <2>2, <2>3, StackedType DEF SetOnce, NeedsSet, Kind
  <2>8. FunctorsLive'
    BY SMTT(20), <1>3, <2>1, <2>2 DEF FunctorsLive, Install
  <2>9. FunctorsImplement' /\ CurrentHandlersInstalled'
    BY SMTT(20), <1>3, <2>1, <2>3 DEF FunctorsImplement,
       CurrentHandlersInstalled, Kind, Install, TypeOK, PlaceTypes, Pointer
  <2> QED
    BY SMTT(20), <2>5, <2>6, <2>7, <2>8, <2>9
<1> QED
  BY <1>2, <1>3 DEF CheckStack

\* What removeHandler leaves of a functor: never the removed command.
LEMMA Removed ==
    ASSUME Inv, currentExecutingCommand # NoCommand
    PROVE  LET cur == currentExecutingCommand
               acq == RemoveHandler(cur, "HT_Acquisition", acquireHandlerFunctor)
               corr == RemoveHandler(cur, "HT_Correlation", correlationHandlerFunctor)
           IN  /\ acq \in {NoCommand} \cup Stacked
               /\ corr \in {NoCommand} \cup Stacked
               /\ acq # NoCommand => "HT_Acquisition" \in Kind(acq).mask
               /\ corr # NoCommand => "HT_Correlation" \in Kind(corr).mask
  BY SMTT(20) DEF Inv, Consistent, RemoveHandler, FunctorsLive,
     FunctorsImplement, Kind, OnlySetHandler

\* The queue's top replaces the current command, or fails and leaves it.
LEMMA ReplaceConsistent ==
    ASSUME Inv, NEW c \in Command, CheckReplace(c) PROVE Consistent'
<1> DEFINE cur == currentExecutingCommand
           acq == RemoveHandler(cur, "HT_Acquisition", acquireHandlerFunctor)
           corr == RemoveHandler(cur, "HT_Correlation", correlationHandlerFunctor)
<1> USE DEF Inv, Consistent
<1>1. /\ c \in command_submitted_queue /\ cur # NoCommand
      /\ UNCHANGED commandStack /\ command_to_delete = NoCommand
      /\ command_submitted_queue' = command_submitted_queue \ {c}
  BY DEF CheckReplace, AtReplaceable, AtTop, IsTop, ThreadsAndLocks, Dequeue
<1>2. /\ cur \in Command /\ c # cur /\ c \in allocated /\ cur \in allocated
      /\ c \notin Stacked /\ cur \notin Stacked
      /\ cur \notin command_submitted_queue
      /\ Stacked' = Stacked
  BY SMTT(20), <1>1 DEF OnePlace, TypeOK, PlaceTypes, Pointer, Stacked
<1>3. /\ acq \in {NoCommand} \cup Stacked
      /\ corr \in {NoCommand} \cup Stacked
      /\ acq # NoCommand => "HT_Acquisition" \in Kind(acq).mask
      /\ corr # NoCommand => "HT_Correlation" \in Kind(corr).mask
  BY SMTT(20), <1>1, Removed
<1> HIDE DEF acq, corr
<1>4. ASSUME NEW i \in SetSucceeds(c),
             impl' = [impl EXCEPT ![c] = i],
             Install(c, acq, corr),
             command_to_delete' = cur,
             last_event' = [last_event EXCEPT ![c] = "RUNNING"],
             UNCHANGED allocated
      PROVE  Consistent'
  <2>1. /\ impl'[c].kind = Kind(c)
        /\ impl'[c].already_setupped \/ "HT_Set" \notin Kind(c).mask
        /\ \A d \in Command \ {c} : impl'[d] = impl[d]
    BY <1>4, SetSucceedsType DEF TypeOK, CommandTypes
  <2>2. /\ last_event'[c] = "RUNNING"
        /\ \A d \in Command \ {c} : last_event'[d] = last_event[d]
    BY <1>4 DEF TypeOK, CommandTypes
  <2>3. currentExecutingCommand' = c
    BY <1>4 DEF Install
  <2>4. OnePlace'
    BY <1>1, <1>2, <1>4, <2>3 DEF OnePlace
  <2>5. EventsAgree'
    BY SMTT(20), <1>1, <1>2, <1>4, <2>2, <2>3 DEF EventsAgree, TypeOK,
       CommandTypes, PlaceTypes, Terminal
  <2>6. SetOnce'
    BY SMTT(20), <1>2, <2>1, <2>3, StackedType DEF SetOnce, NeedsSet, Kind
  <2>7. FunctorsLive'
    BY SMTT(20), <1>2, <1>3, <1>4, <2>3 DEF FunctorsLive, Install
  <2>8. FunctorsImplement' /\ CurrentHandlersInstalled'
    BY <1>2, <1>3, <1>4, <2>1, <2>3, StackedType DEF FunctorsImplement,
       CurrentHandlersInstalled, Kind, Install
  <2> QED
    BY <2>4, <2>5, <2>6, <2>7, <2>8
<1>5. ASSUME impl' = [impl EXCEPT ![c] = Blank],
             allocated' = allocated \ {c},
             last_event' = [last_event EXCEPT ![c] = "FAULT", ![cur] = "RUNNING"],
             Install(cur, acq, corr),
             UNCHANGED command_to_delete
      PROVE  Consistent'
  <2>1. /\ \A d \in Command \ {c} : impl'[d] = impl[d]
        /\ last_event'[cur] = "RUNNING"
        /\ \A d \in Command \ {c, cur} : last_event'[d] = last_event[d]
    BY <1>2, <1>5 DEF TypeOK, CommandTypes
  <2>2. currentExecutingCommand' = cur
    BY <1>5 DEF Install
  <2>3. OnePlace'
    BY <1>1, <1>2, <1>5, <2>2 DEF OnePlace
  <2>4. EventsAgree'
    BY SMTT(20), <1>1, <1>2, <1>5, <2>1, <2>2 DEF EventsAgree, TypeOK,
       CommandTypes, PlaceTypes, Terminal
  <2>5. SetOnce'
    BY SMTT(20), <1>2, <2>1, <2>2, StackedType DEF SetOnce, NeedsSet, Kind
  <2>6. FunctorsLive'
    BY SMTT(20), <1>2, <1>3, <1>5, <2>2 DEF FunctorsLive, Install
  <2>7. FunctorsImplement' /\ CurrentHandlersInstalled'
    BY <1>2, <1>3, <1>5, <2>1, <2>2, StackedType DEF FunctorsImplement,
       CurrentHandlersInstalled, Kind, Install
  <2> QED
    BY <2>3, <2>4, <2>5, <2>6, <2>7
<1> QED
  BY <1>4, <1>5 DEF CheckReplace, acq, corr

\* The replaced command is deleted.
LEMMA RetireConsistent ==
    ASSUME Inv, CheckRetire PROVE Consistent'
<1> DEFINE c == command_to_delete
<1> USE DEF Inv, Consistent
<1> DEFINE e == CASE current_check_value = "RSR_KILL_KURRENT_COMMAND" -> "KILLED"
                  [] current_check_value = "RSR_CURRENT_CMD_HAS_ENDED" -> "COMPLETED"
                  [] OTHER -> "FAULT"
<1>1. ReportAndDelete(c, e)
  BY DEF CheckRetire
<1> HIDE DEF e
<1>2. /\ command_to_delete' = NoCommand
      /\ UNCHANGED placeVars /\ UNCHANGED functorVars /\ Stacked' = Stacked
      /\ c # NoCommand
  <2>1. checker = "retire" /\ command_to_delete' = NoCommand /\ UNCHANGED placeVars
    BY DEF CheckRetire
  <2> QED
    BY <2>1 DEF placeVars, functorVars, Stacked, ThreadsAndLocks
<1>3. /\ c \in Command /\ c \in allocated
      /\ c \notin Stacked \cup command_submitted_queue
      /\ c # currentExecutingCommand
      /\ c \notin {acquireHandlerFunctor, correlationHandlerFunctor}
  BY <1>2 DEF OnePlace, FunctorsLive, TypeOK, ThreadTypes, Pointer
<1>4. /\ allocated' = allocated \ {c}
      /\ \A d \in Command \ {c} : impl'[d] = impl[d] /\ last_event'[d] = last_event[d]
  BY SMTT(20), <1>1 DEF ReportAndDelete, TypeOK, CommandTypes
<1>5. OnePlace' /\ FunctorsLive'
  BY ZenonT(30), <1>2, <1>3, <1>4, StackedType DEF OnePlace, FunctorsLive,
     placeVars, functorVars, TypeOK, PlaceTypes
<1>6. EventsAgree'
  BY SMTT(20), <1>2, <1>3, <1>4 DEF EventsAgree, placeVars, functorVars,
     TypeOK, CommandTypes, PlaceTypes
<1>7. SetOnce'
  BY <1>2, <1>3, <1>4, StackedType DEF SetOnce, NeedsSet, Kind, functorVars,
     TypeOK, PlaceTypes, Pointer
<1>8. FunctorsImplement' /\ CurrentHandlersInstalled'
  BY <1>2, <1>3, <1>4 DEF FunctorsImplement, CurrentHandlersInstalled, Kind,
     functorVars, TypeOK, PlaceTypes, Pointer
<1> QED
  BY <1>5, <1>6, <1>7, <1>8

\* The queue's top becomes current, or is lost, when nothing is current.
LEMMA InstallFirstConsistent ==
    ASSUME Inv, NEW c \in Command, CheckInstallFirst(c) PROVE Consistent'
<1> USE DEF Inv, Consistent
<1>1. /\ c \in command_submitted_queue /\ currentExecutingCommand = NoCommand
      /\ UNCHANGED <<allocated, commandStack, command_to_delete>>
      /\ Stacked' = Stacked /\ command_to_delete = NoCommand
      /\ command_submitted_queue' = command_submitted_queue \ {c}
  BY DEF CheckInstallFirst, AtTop, IsTop, ThreadsAndLocks, Dequeue, Stacked
<1>2. /\ c \in allocated /\ c \notin Stacked
      /\ c \notin {acquireHandlerFunctor, correlationHandlerFunctor}
      /\ c # NoCommand
  BY <1>1 DEF OnePlace, FunctorsLive
<1>3. \A d \in Command \ {c} : impl'[d] = impl[d]
  BY DEF CheckInstallFirst, TypeOK, CommandTypes
<1>4. CASE UNCHANGED <<functorVars, last_event>>
  <2> USE DEF functorVars
  <2>1. OnePlace' /\ FunctorsLive'
    BY <1>1, <1>2, <1>4 DEF OnePlace, FunctorsLive
  <2>2. EventsAgree'
    BY <1>1, <1>2, <1>4 DEF EventsAgree
  <2>3. SetOnce'
    BY SMTT(20), <1>1, <1>2, <1>3, <1>4, StackedType DEF SetOnce, NeedsSet,
       Kind
  <2>4. FunctorsImplement' /\ CurrentHandlersInstalled'
    BY SMTT(20), <1>1, <1>2, <1>3, <1>4 DEF FunctorsImplement,
       CurrentHandlersInstalled, Kind, TypeOK, PlaceTypes, Pointer
  <2> QED
    BY <2>1, <2>2, <2>3, <2>4
<1>5. ASSUME NEW i \in SetSucceeds(c),
             impl' = [impl EXCEPT ![c] = i],
             Install(c, acquireHandlerFunctor, correlationHandlerFunctor),
             last_event' = [last_event EXCEPT ![c] = "RUNNING"]
      PROVE  Consistent'
  <2>1. /\ impl'[c].kind = Kind(c)
        /\ impl'[c].already_setupped \/ "HT_Set" \notin Kind(c).mask
    BY SMTT(20), <1>5, SetSucceedsType DEF TypeOK, CommandTypes
  <2>2. /\ currentExecutingCommand' = c
        /\ last_event'[c] = "RUNNING"
        /\ \A d \in Command \ {c} : last_event'[d] = last_event[d]
    BY SMTT(20), <1>5 DEF Install, TypeOK, CommandTypes
  <2>3. OnePlace'
    BY SMTT(20), <1>1, <1>2, <2>2 DEF OnePlace
  <2>4. EventsAgree'
    BY SMTT(20), <1>1, <1>2, <2>2 DEF EventsAgree, TypeOK, CommandTypes,
       PlaceTypes, Terminal
  <2>5. SetOnce'
    BY SMTT(20), <1>1, <1>2, <1>3, <2>1, <2>2, StackedType DEF SetOnce,
       NeedsSet, Kind
  <2>6. FunctorsLive'
    BY SMTT(20), <1>1, <1>5, <2>2 DEF FunctorsLive, Install
  <2>7. FunctorsImplement' /\ CurrentHandlersInstalled'
    BY SMTT(20), <1>1, <1>2, <1>3, <1>5, <2>1, <2>2 DEF FunctorsImplement,
       CurrentHandlersInstalled, Kind, Install, TypeOK, PlaceTypes, Pointer
  <2> QED
    BY <2>3, <2>4, <2>5, <2>6, <2>7
<1> QED
  BY <1>4, <1>5 DEF CheckInstallFirst

\* An ended current command is deleted and the last paused one resumed.
LEMMA IdleConsistent ==
    ASSUME Inv, CheckIdle PROVE Consistent'
<1> DEFINE cur == currentExecutingCommand
           top == Head(commandStack)
           acq == RemoveHandler(cur, "HT_Acquisition", acquireHandlerFunctor)
           corr == RemoveHandler(cur, "HT_Correlation", correlationHandlerFunctor)
           event == IF Property(cur) = "RP_End" THEN "COMPLETED" ELSE "FAULT"
<1> USE DEF Inv, Consistent
<1>1. UNCHANGED <<command_submitted_queue, command_to_delete>>
      /\ command_to_delete = NoCommand /\ command_submitted_queue = {}
  BY DEF CheckIdle, ThreadsAndLocks
<1>2. CASE UNCHANGED <<commandVars, functorVars, commandStack>>
  BY <1>1, <1>2, Unmoved DEF commandVars, functorVars, placeVars
<1>3. ASSUME cur # NoCommand, commandStack # <<>>,
             Install(top, acq, corr),
             commandStack' = Tail(commandStack),
             impl' = [impl EXCEPT ![cur] = Blank],
             allocated' = allocated \ {cur},
             last_event' = [last_event EXCEPT ![cur] = event, ![top] = "RUNNING"]
      PROVE  Consistent'
  <2>1. /\ cur \in Command /\ cur \notin Stacked /\ cur \in allocated
        /\ top \in Command /\ Stacked = {top} \cup Stacked'
        /\ Distinct(commandStack)' /\ top \notin Stacked'
    BY SMTT(20), <1>3, StackPop DEF OnePlace, TypeOK, PlaceTypes, Pointer,
       Stacked
  <2>2. /\ acq \in {NoCommand} \cup Stacked
        /\ corr \in {NoCommand} \cup Stacked
        /\ acq # NoCommand => "HT_Acquisition" \in Kind(acq).mask
        /\ corr # NoCommand => "HT_Correlation" \in Kind(corr).mask
    BY ZenonT(30), <1>3, Removed
  <2> HIDE DEF acq, corr, top, event
  <2>3. /\ currentExecutingCommand' = top
        /\ \A d \in Command \ {cur} : impl'[d] = impl[d]
        /\ last_event'[top] = "RUNNING"
        /\ \A d \in Command \ {cur, top} : last_event'[d] = last_event[d]
    <3>1. impl \in [Command -> Instance] /\ last_event \in [Command -> Event]
      BY Zenon DEF TypeOK, CommandTypes
    <3>2. currentExecutingCommand' = top
      BY Zenon, <1>3 DEF Install
    <3> HIDE DEF Inv, Consistent
    <3>3. \A d \in Command \ {cur} : impl'[d] = impl[d]
      BY <1>3, <3>1
    <3>4. /\ last_event'[top] = "RUNNING"
          /\ \A d \in Command \ {cur, top} : last_event'[d] = last_event[d]
      BY <1>3, <2>1, <3>1
    <3> QED
      BY <3>2, <3>3, <3>4
  <2>4. OnePlace'
    BY SMTT(20), <1>1, <1>3, <2>1, <2>3 DEF OnePlace
  <2>5. EventsAgree'
    BY SMTT(20), <1>1, <1>3, <2>1, <2>3 DEF EventsAgree, TypeOK, CommandTypes,
       Terminal
  <2>6. SetOnce'
    BY SMTT(20), <2>1, <2>3, StackedType DEF SetOnce, NeedsSet, Kind
  <2>7. FunctorsLive'
    BY SMTT(20), <1>3, <2>1, <2>2, <2>3 DEF FunctorsLive, Install
  <2>8. FunctorsImplement' /\ CurrentHandlersInstalled'
    BY <1>3, <2>1, <2>2, <2>3, StackedType DEF FunctorsImplement,
       CurrentHandlersInstalled, Kind, Install
  <2> QED
    BY SMTT(20), <2>4, <2>5, <2>6, <2>7, <2>8
<1>4. ASSUME cur # NoCommand, commandStack = <<>>, InstallNull,
             ReportAndDelete(cur, event), UNCHANGED commandStack
      PROVE  Consistent'
  <2>1. /\ cur \in Command /\ Stacked = {} /\ Stacked' = {} /\ cur \in allocated
    BY <1>4 DEF TypeOK, PlaceTypes, Pointer, Stacked, Elements, OnePlace
  <2> HIDE DEF event
  <2>2. /\ currentExecutingCommand' = NoCommand /\ allocated' = allocated \ {cur}
        /\ \A d \in Command \ {cur} : last_event'[d] = last_event[d]
    BY SMTT(20), <1>4 DEF ReportAndDelete, InstallNull, TypeOK, CommandTypes
  <2>3. OnePlace' /\ EventsAgree'
    BY SMTT(20), <1>1, <1>4, <2>1, <2>2 DEF OnePlace, EventsAgree, TypeOK,
       CommandTypes
  <2>4. SetOnce' /\ FunctorsLive' /\ FunctorsImplement' /\ CurrentHandlersInstalled'
    BY Zenon, <1>4, <2>1, <2>2 DEF SetOnce, FunctorsLive, FunctorsImplement,
       CurrentHandlersInstalled, InstallNull
  <2> QED
    BY <2>3, <2>4
<1> QED
  BY SMTT(20), <1>2, <1>3, <1>4 DEF CheckIdle

\* deinit empties every place, and a sandbox initialized again was empty.
LEMMA DeinitConsistent ==
    ASSUME Inv, Deinit \/ Reinit, UNCHANGED command_to_delete PROVE Consistent'
<1> USE DEF Inv, Consistent
<1>1. command_to_delete = NoCommand /\ InstallNull
  BY DEF Deinit, Reinit, ThreadsAndLocks
<1>2. CASE Deinit
  <2>1. /\ Stacked' = {} /\ Distinct(commandStack)'
        /\ command_submitted_queue' = {}
    BY <1>2 DEF Deinit, Stacked, Elements, Distinct
  <2>2. OnePlace'
    BY SMTT(20), <1>1, <2>1 DEF OnePlace, InstallNull
  <2>3. EventsAgree'
    <3>1. \A c \in allocated' :
            /\ c \in Command /\ c \in allocated
            /\ c # currentExecutingCommand /\ c \notin Stacked
            /\ last_event'[c] = last_event[c]
      BY SMTT(20), <1>2 DEF Deinit, TypeOK, CommandTypes
    <3> QED
      BY SMTT(20), <1>1, <2>1, <3>1 DEF EventsAgree, InstallNull
  <2>4. SetOnce' /\ FunctorsLive' /\ FunctorsImplement' /\ CurrentHandlersInstalled'
    BY <1>1, <2>1 DEF SetOnce, FunctorsLive, FunctorsImplement,
       CurrentHandlersInstalled, InstallNull
  <2> QED
    BY SMTT(20), <2>2, <2>3, <2>4
<1>3. CASE Reinit
  <2>1. /\ UNCHANGED <<impl, allocated, last_event, command_submitted_queue,
                       commandStack>>
        /\ currentExecutingCommand = NoCommand /\ Stacked' = Stacked
    BY SMTT(20), <1>3 DEF Reinit, ThreadsAndLocks, commandVars, Stacked
  <2>2. OnePlace' /\ EventsAgree'
    BY SMTT(20), <1>1, <2>1 DEF OnePlace, EventsAgree, InstallNull
  <2>3. SetOnce' /\ FunctorsLive' /\ FunctorsImplement' /\ CurrentHandlersInstalled'
    BY <1>1, <2>1 DEF SetOnce, FunctorsLive, FunctorsImplement, NeedsSet, Kind,
       CurrentHandlersInstalled, InstallNull
  <2> QED
    BY <2>2, <2>3
<1> QED
  BY SMTT(20), <1>2, <1>3

\* A submitted command was not in the sandbox before.
LEMMA EnqueueConsistent ==
    ASSUME Inv, NEW c \in Command, NEW k \in Kinds, EnqueueCommand(c, k),
           UNCHANGED <<functorVars, commandStack, command_to_delete>>
    PROVE  Consistent'
<1> USE DEF Inv, Consistent, functorVars
<1>1. /\ Stacked' = Stacked
      /\ allocated' = allocated \cup {c}
      /\ command_submitted_queue' = command_submitted_queue \cup {c}
      /\ last_event'[c] = "QUEUED"
      /\ \A d \in Command \ {c} : impl'[d] = impl[d] /\ last_event'[d] = last_event[d]
  BY DEF EnqueueCommand, Stacked, TypeOK, CommandTypes
<1>2. c \notin allocated /\ c # NoCommand
  BY DEF EnqueueCommand, EventsAgree
<1>3. /\ c \notin Stacked \cup command_submitted_queue
      /\ c \notin {currentExecutingCommand, command_to_delete}
      /\ c \notin {acquireHandlerFunctor, correlationHandlerFunctor}
  BY SMTT(20), <1>2 DEF OnePlace, FunctorsLive
<1>4. OnePlace' /\ FunctorsLive'
  BY SMTT(20), <1>1, <1>2, <1>3 DEF OnePlace, FunctorsLive
<1>5. EventsAgree'
  BY SMTT(20), <1>1, <1>2, <1>3 DEF EventsAgree, Terminal, TypeOK,
     CommandTypes, PlaceTypes
<1>6. SetOnce'
  BY SMTT(20), <1>1, <1>3, StackedType DEF SetOnce, NeedsSet, Kind, TypeOK,
     PlaceTypes, Pointer
<1>7. FunctorsImplement' /\ CurrentHandlersInstalled'
  BY SMTT(20), <1>1, <1>3 DEF FunctorsImplement, CurrentHandlersInstalled,
     Kind, TypeOK, PlaceTypes, Pointer
<1> QED
  BY SMTT(20), <1>4, <1>5, <1>6, <1>7

\* The scheduler, and what an RPC thread does to the current command, change
\* no kind and set no command up.
LEMMA KindsKept ==
    ASSUME TypeOK, Scheduler \/ KillCurrentCommand \/ SetCommandFeatures
    PROVE  \A c \in Command : /\ impl'[c].kind = impl[c].kind
                              /\ impl'[c].already_setupped
                                   = impl[c].already_setupped
<1> USE DEF TypeOK, CommandTypes, PlaceTypes
<1>1. CASE SchedulerStep
  <2>1. currentExecutingCommand \in Command
    BY <1>1 DEF SchedulerStep, Pointer
  <2>2. PICK a \in Call(acquireHandlerFunctor, impl) :
          \E b \in Call(correlationHandlerFunctor, a) :
            impl' \in Post(currentExecutingCommand, b)
    BY <1>1 DEF SchedulerStep
  <2>3. PICK b \in Call(correlationHandlerFunctor, a) :
          impl' \in Post(currentExecutingCommand, b)
    BY <2>2
  <2>4. /\ a \in [Command -> Instance]
        /\ \A d \in Command : /\ a[d].kind = impl[d].kind
                              /\ a[d].already_setupped = impl[d].already_setupped
    BY CallType
  <2>5. /\ b \in [Command -> Instance]
        /\ \A d \in Command : /\ b[d].kind = a[d].kind
                              /\ b[d].already_setupped = a[d].already_setupped
    BY <2>4, CallType
  <2>6. \A d \in Command : /\ impl'[d].kind = b[d].kind
                           /\ impl'[d].already_setupped = b[d].already_setupped
    <3>1. \A g \in Post(currentExecutingCommand, b), d \in Command :
            /\ g[d].kind = b[d].kind
            /\ g[d].already_setupped = b[d].already_setupped
      BY ZenonT(30), <2>1, <2>5, PostType
    <3> QED
      BY Zenon, <2>3, <3>1
  <2> QED
    BY <2>4, <2>5, <2>6
<1>2. CASE Scheduler /\ ~SchedulerStep
  BY <1>2 DEF Scheduler, SchedulerStart, SchedulerNothing, SchedulerCheck,
     SchedulerSwitch, SchedulerSleep, SchedulerWake
<1>3. CASE KillCurrentCommand
  <2>1. CASE currentExecutingCommand = NoCommand
    BY <1>3, <2>1 DEF KillCurrentCommand
  <2>2. CASE currentExecutingCommand \in Command
    BY <1>3, <2>2 DEF KillCurrentCommand, Instance
  <2> QED
    BY <2>1, <2>2 DEF Pointer
<1>4. CASE SetCommandFeatures
  BY <1>4 DEF SetCommandFeatures, Instance
<1> QED
  BY SMTT(20), <1>1, <1>2, <1>3, <1>4

\* Each action of the four parties keeps the commands, the functors and the
\* events consistent: one lemma above for each way a command moves.
LEMMA ConsistentStep == Inv /\ [Next]_vars => Consistent'
<1> SUFFICES ASSUME Inv, [Next]_vars PROVE Consistent'
  OBVIOUS
<1> USE DEF Inv, commandVars, placeVars, functorVars, checkerVars
<1>1. CASE UNCHANGED <<commandVars, placeVars, command_to_delete>>
  BY <1>1, Unmoved
<1>2. CASE Checker
  <2>1. ASSUME NEW c \in Command, CheckSetOnly(c) PROVE Consistent'
    <3>1. PICK e \in Terminal : ReportAndDelete(c, e)
      BY <2>1 DEF CheckSetOnly, Terminal
    <3> QED
      BY <2>1, <3>1, Discarded DEF CheckSetOnly, AtTop, IsTop
  <2> QED
    BY <1>1, <1>2, <2>1, StackConsistent, ReplaceConsistent, RetireConsistent,
       InstallFirstConsistent, IdleConsistent
       DEF Checker, CheckCommand, CheckerWake, CheckerFirstTest, CheckerLock,
           CheckWait, CheckInstalled
<1>3. CASE Scheduler
  BY <1>3, KindsKept, Unmoved DEF Scheduler
<1>4. CASE Owner
  BY <1>1, <1>4, DeinitConsistent DEF Owner, Start, Stop
<1>5. CASE Client
  <2>1. UNCHANGED <<commandStack, functorVars, command_to_delete>>
    BY <1>5 DEF Client
  <2>2. CASE KillCurrentCommand \/ SetCommandFeatures
    BY Zenon, <2>1, <2>2, KindsKept, Unmoved DEF KillCurrentCommand,
       SetCommandFeatures
  <2>3. CASE EnqueueUnlock \/ KillTest \/ FeaturesUnlock
    BY Zenon, <1>1, <2>1, <2>3 DEF EnqueueUnlock, KillTest, FeaturesUnlock
  <2> QED
    BY <1>5, <2>1, <2>2, <2>3, EnqueueConsistent DEF Client
<1> QED
  BY <1>1, <1>2, <1>3, <1>4, <1>5 DEF Next, vars

\* A new sandbox is consistent.
LEMMA InvInit == Init => Inv
<1> SUFFICES ASSUME Init PROVE Inv
  OBVIOUS
<1>1. TypeOK
  BY TypeInit
<1>2. ThreadsAndLocks
  BY DEF Init, ThreadsAndLocks
<1>3. Stacked = {} /\ Distinct(commandStack)
  BY SMTT(20) DEF Init, Stacked, Elements, Distinct
<1>4. Consistent
  BY <1>3 DEF Init, Consistent, OnePlace, SetOnce, EventsAgree, FunctorsLive,
     FunctorsImplement, CurrentHandlersInstalled
<1> QED
  BY <1>1, <1>2, <1>4 DEF Inv

\* The invariant is inductive.
LEMMA InvStep == Inv /\ [Next]_vars => Inv'
  BY TypeStep, LocksStep, ConsistentStep DEF Inv

\* Whatever the threads, the owner and the RPC threads do, the commands, the
\* functors and the events of the sandbox stay consistent.
THEOREM Safety == Spec => []Inv
  BY InvInit, InvStep, PTL DEF Spec

\* No functor dangles, and the current command's handlers are installed.
THEOREM FunctorsSafe == Spec => [](FunctorsLive /\ CurrentHandlersInstalled)
<1>1. Inv => FunctorsLive /\ CurrentHandlersInstalled
  BY DEF Inv, Consistent
<1> QED
  BY <1>1, Safety, PTL

\* A command is in one place, its set handler runs at most once, and its last
\* event says where it is.
THEOREM CommandsSafe == Spec => [](OnePlace /\ SetOnce /\ EventsAgree)
<1>1. Inv => OnePlace /\ SetOnce /\ EventsAgree
  BY DEF Inv, Consistent
<1> QED
  BY <1>1, Safety, PTL

\* What the event handler was told agrees with what the sandbox does: the
\* commands that exist and were reported RUNNING, PAUSED or QUEUED are the
\* current, the stacked and the queued ones, and none was reported ended.
THEOREM EventsTrue == Spec => []EventsAgree
<1>1. Inv => EventsAgree
  BY DEF Inv, Consistent
<1> QED
  BY <1>1, Safety, PTL

\* The scheduler and the checker never both sleep on their semaphores while
\* there is a current command to step or a queued one to look at: a wake-up
\* that crosses the other thread's decision to sleep is not lost.
THEOREM WakeUpsKept == Spec => []NoLostWakeup
<1>1. Spec => [](Inv /\ WakeUps)
  BY InvInit, InvStep, WakeUpsEnds, WakeUpsStep, PTL DEF Spec
<1> QED
  BY <1>1, WakeUpsEnds, PTL

-----------------------------------------------------------------------------
(* Exclusive commands *)

\* Against an exclusive command every submission rule waits.
LEMMA ExclusiveWaits ==
    \A r \in SubmissionRule :
      running_vs_submition("RP_Exsc", r) \in {"RSR_NO_CHANGE", "RSR_TIMED_RETRY"}
  BY DEF running_vs_submition, SubmissionRule, Ended

\* No step but deinit takes an exclusive command away: the checker, which
\* alone replaces it, finds that every rule waits.
LEMMA ExclusiveStep ==
    ASSUME Inv, [Next]_vars,
           currentExecutingCommand # NoCommand,
           Property(currentExecutingCommand) = "RP_Exsc",
           currentExecutingCommand' # currentExecutingCommand
    PROVE  serviceState' = "Deinitialized"
<1> USE DEF functorVars, placeVars
<1>1. ASSUME NEW c \in Command
      PROVE  CheckValue(c) \in {"RSR_NO_CHANGE", "RSR_TIMED_RETRY"}
  <2>1. Kind(c).rule \in SubmissionRule
    BY KindsAssumption DEF Kind, Inv, TypeOK, CommandTypes, Instance
  <2> QED
    BY <2>1, ExclusiveWaits DEF CheckValue
<1>2. ~Checker
  <2>1. ASSUME NEW c \in Command PROVE ~CheckStack(c) /\ ~CheckReplace(c)
    BY <1>1 DEF CheckStack, CheckReplace
  <2>2. ASSUME NEW c \in Command PROVE ~CheckInstallFirst(c)
    BY DEF CheckInstallFirst
  <2>3. ~CheckIdle
    BY DEF CheckIdle, Ended
  <2> QED
    BY SMTT(20), <2>1, <2>2, <2>3 DEF Checker, CheckCommand, CheckerWake,
       CheckerFirstTest, CheckerLock, CheckSetOnly, CheckWait, CheckRetire,
       CheckInstalled
<1>3. ~Scheduler /\ ~Client
  BY SMTT(20) DEF Scheduler, Client
<1>4. CASE Owner
  BY <1>4 DEF Owner, Start, Stop, Deinit, Reinit, Inv, ThreadsAndLocks
<1> QED
  BY <1>2, <1>3, <1>4 DEF Next, vars

\* A command running exclusively stays current until the sandbox is
\* deinitialized or its own handlers, a kill or a timeout end the exclusion.
THEOREM ExclusiveProtected == Spec => ExclusiveStays
<1>1. Inv /\ [Next]_vars =>
        [ (/\ currentExecutingCommand # NoCommand
           /\ Property(currentExecutingCommand) = "RP_Exsc"
           /\ currentExecutingCommand' # currentExecutingCommand)
          => serviceState' = "Deinitialized" ]_vars
  BY ExclusiveStep
<1> QED
  BY <1>1, Safety, PTL DEF Spec, ExclusiveStays

-----------------------------------------------------------------------------
(* The events implement the lifecycle *)

\* A new sandbox has reported nothing and paused nothing.
LEMMA LifecycleInit == Init => Lifecycle!Init
  BY DEF Init, Lifecycle!Init

\* Each step of the sandbox gives the event handler one step of the lifecycle,
\* or none.
LEMMA LifecycleStep == Inv /\ [Next]_vars => [Lifecycle!Next]_(Lifecycle!vars)
<1> SUFFICES ASSUME Inv, [Next]_vars
             PROVE  Lifecycle!Next \/ UNCHANGED <<last_event, commandStack>>
  BY DEF Lifecycle!vars
<1> USE DEF Inv, Consistent, commandVars, placeVars, functorVars
<1>1. ASSUME NEW c \in command_submitted_queue, NEW e \in Terminal,
             ReportAndDelete(c, e), e # "KILLED", UNCHANGED commandStack
      PROVE  Lifecycle!Next
  <2>1. Lifecycle!EndAtOnce(c, e)
    BY <1>1 DEF Lifecycle!EndAtOnce, EventsAgree, ReportAndDelete
  <2> QED
    BY <1>1, <2>1 DEF Lifecycle!Next, Lifecycle!Ending, Terminal, TypeOK,
       PlaceTypes
<1>2. ASSUME NEW c \in Command, CheckSetOnly(c) PROVE Lifecycle!Next
  <2>1. c \in command_submitted_queue /\ UNCHANGED commandStack
    BY <1>2 DEF CheckSetOnly, AtTop, IsTop
  <2>2. PICK e \in {"FAULT", "COMPLETED"} : ReportAndDelete(c, e)
    BY <1>2 DEF CheckSetOnly
  <2> QED
    BY <1>1, <2>1, <2>2 DEF Terminal
<1>3. ASSUME NEW c \in Command, CheckStack(c) PROVE Lifecycle!Next
  <2>1. c \in command_submitted_queue
    BY <1>3 DEF CheckStack, AtReplaceable, AtTop, IsTop
  <2>2. /\ currentExecutingCommand \in Command
        /\ last_event[currentExecutingCommand] = "RUNNING"
    BY <1>3 DEF CheckStack, AtReplaceable, OnePlace, EventsAgree, TypeOK,
       PlaceTypes, Pointer
  <2>3. CASE Push(currentExecutingCommand)
             /\ last_event' = [last_event EXCEPT ![c] = "RUNNING",
                                 ![currentExecutingCommand] = "PAUSED"]
    <3>1. Lifecycle!Preempt(c, currentExecutingCommand)
      BY <2>1, <2>2, <2>3 DEF Lifecycle!Preempt, EventsAgree, Push
    <3> QED
      BY <2>2, <3>1 DEF Lifecycle!Next
  <2>4. CASE ReportAndDelete(c, "FAULT") /\ UNCHANGED commandStack
    BY <1>1, <2>1, <2>4 DEF Terminal
  <2> QED
    BY <1>3, <2>3, <2>4 DEF CheckStack
<1>4. ASSUME NEW c \in Command, CheckReplace(c) PROVE Lifecycle!Next
  <2>1. c \in command_submitted_queue /\ UNCHANGED commandStack
    BY SMTT(20), <1>4 DEF CheckReplace, AtReplaceable, AtTop, IsTop
  <2>2. /\ currentExecutingCommand \in Command /\ c # currentExecutingCommand
        /\ last_event[currentExecutingCommand] = "RUNNING"
    BY <1>4, <2>1 DEF CheckReplace, AtReplaceable, OnePlace, EventsAgree,
       TypeOK, PlaceTypes, Pointer
  <2>3. CASE last_event' = [last_event EXCEPT ![c] = "RUNNING"]
    <3>1. Lifecycle!Run(c)
      BY <2>1, <2>3 DEF Lifecycle!Run, EventsAgree
    <3> QED
      BY <3>1 DEF Lifecycle!Next
  <2>4. CASE last_event' = [last_event EXCEPT ![c] = "FAULT",
                              ![currentExecutingCommand] = "RUNNING"]
    <3>1. last_event' = [last_event EXCEPT ![c] = "FAULT"]
      BY Zenon, <2>2, <2>4 DEF TypeOK, CommandTypes
    <3>2. Lifecycle!EndAtOnce(c, "FAULT")
      BY <2>1, <3>1 DEF Lifecycle!EndAtOnce, EventsAgree
    <3> QED
      BY <3>2 DEF Lifecycle!Next, Lifecycle!Ending
  <2> QED
    BY <1>4, <2>3, <2>4 DEF CheckReplace
<1>5. ASSUME NEW c \in Command, CheckInstallFirst(c)
      PROVE  Lifecycle!Next \/ UNCHANGED <<last_event, commandStack>>
  <2>1. c \in command_submitted_queue /\ UNCHANGED commandStack
    BY <1>5 DEF CheckInstallFirst, AtTop, IsTop
  <2>2. CASE last_event' = [last_event EXCEPT ![c] = "RUNNING"]
    <3>1. Lifecycle!Run(c)
      BY <2>1, <2>2 DEF Lifecycle!Run, EventsAgree
    <3> QED
      BY <3>1 DEF Lifecycle!Next
  <2> QED
    BY <1>5, <2>1, <2>2 DEF CheckInstallFirst
<1>6. CASE CheckRetire
  <2>1. PICK e \in Terminal : last_event' = [last_event EXCEPT ![command_to_delete] = e]
    <3> DEFINE e == CASE current_check_value = "RSR_KILL_KURRENT_COMMAND" -> "KILLED"
                      [] current_check_value = "RSR_CURRENT_CMD_HAS_ENDED" -> "COMPLETED"
                      [] OTHER -> "FAULT"
    <3>1. e \in Terminal
      BY DEF Terminal
    <3>2. last_event' = [last_event EXCEPT ![command_to_delete] = e]
      BY <1>6 DEF CheckRetire, ReportAndDelete
    <3> QED
      BY Zenon, <3>1, <3>2
  <2>2. command_to_delete \in Command /\ last_event[command_to_delete] = "RUNNING"
    <3>1. command_to_delete # NoCommand
      BY <1>6 DEF CheckRetire, ThreadsAndLocks
    <3> QED
      BY <3>1 DEF OnePlace, EventsAgree, TypeOK, ThreadTypes, Pointer
  <2>3. UNCHANGED commandStack
    BY <1>6 DEF CheckRetire
  <2>4. Lifecycle!End(command_to_delete, e)
    BY SMTT(20), <2>1, <2>2, <2>3 DEF Lifecycle!End
  <2> QED
    BY <2>2, <2>4 DEF Lifecycle!Next, Lifecycle!Ending, Terminal
<1>7. CASE CheckIdle
  <2> DEFINE cur == currentExecutingCommand
             event == IF Property(cur) = "RP_End" THEN "COMPLETED" ELSE "FAULT"
  <2>1. event \in Lifecycle!Ending /\ event # "KILLED"
    BY DEF Lifecycle!Ending
  <2>2. CASE UNCHANGED <<commandVars, commandStack>>
    BY SMTT(20), <2>2
  <2>3. ASSUME cur # NoCommand PROVE cur \in Command /\ last_event[cur] = "RUNNING"
    BY <2>3 DEF OnePlace, EventsAgree, TypeOK, PlaceTypes, Pointer
  <2>4. CASE /\ cur # NoCommand /\ commandStack # <<>>
             /\ commandStack' = Tail(commandStack)
             /\ last_event' = [last_event EXCEPT ![cur] = event,
                                 ![Head(commandStack)] = "RUNNING"]
    <3>1. Lifecycle!End(cur, event)
      BY <2>1, <2>3, <2>4 DEF Lifecycle!End
    <3> QED
      BY <2>1, <2>3, <2>4, <3>1 DEF Lifecycle!Next
  <2>5. CASE cur # NoCommand /\ ReportAndDelete(cur, event) /\ UNCHANGED commandStack
    <3>1. Lifecycle!End(cur, event)
      BY <2>3, <2>5 DEF Lifecycle!End, ReportAndDelete
    <3> QED
      BY <2>1, <2>3, <2>5, <3>1 DEF Lifecycle!Next
  <2> QED
    BY <1>7, <2>2, <2>4, <2>5 DEF CheckIdle
<1>8. CASE Deinit
  <2>1. commandStack' = <<>>
    BY <1>8 DEF Deinit
  <2>2. CASE currentExecutingCommand = NoCommand
    <3>1. UNCHANGED last_event
      BY <1>8, <2>2 DEF Deinit, TypeOK, CommandTypes
    <3> QED
      BY <2>1, <3>1 DEF Lifecycle!Next, Lifecycle!Abandon
  <2>3. CASE currentExecutingCommand \in Command
    <3>1. last_event[currentExecutingCommand] = "RUNNING"
      BY Zenon, <2>3 DEF OnePlace, EventsAgree
    <3>2. last_event' = [last_event EXCEPT ![currentExecutingCommand] = "KILLED"]
      BY ZenonT(30), <1>8, <2>3 DEF Deinit, TypeOK, CommandTypes
    <3> QED
      BY ZenonT(30), <2>1, <2>3, <3>1, <3>2 DEF Lifecycle!Next,
         Lifecycle!Abandon
  <2> QED
    BY SMTT(20), <2>2, <2>3 DEF TypeOK, PlaceTypes, Pointer
<1>9. ASSUME NEW c \in Command, NEW k \in Kinds, EnqueueCommand(c, k),
             UNCHANGED commandStack
      PROVE  Lifecycle!Next
  <2>1. Lifecycle!Queue(c)
    BY <1>9 DEF EnqueueCommand, Lifecycle!Queue
  <2> QED
    BY <2>1 DEF Lifecycle!Next
<1>10. Checker => Lifecycle!Next \/ UNCHANGED <<last_event, commandStack>>
  BY <1>2, <1>3, <1>4, <1>5, <1>6, <1>7
     DEF Checker, CheckCommand, CheckerWake, CheckerFirstTest, CheckerLock,
         CheckWait, CheckInstalled
<1>11. Scheduler => UNCHANGED <<last_event, commandStack>>
  BY DEF Scheduler
<1>12. Owner => Lifecycle!Next \/ UNCHANGED <<last_event, commandStack>>
  BY <1>8 DEF Owner, Start, Stop, Reinit
<1>13. Client => Lifecycle!Next \/ UNCHANGED <<last_event, commandStack>>
  BY Zenon, <1>9 DEF Client, EnqueueUnlock, KillTest, KillCurrentCommand,
     SetCommandFeatures, FeaturesUnlock
<1> QED
  BY <1>10, <1>11, <1>12, <1>13 DEF Next, vars

\* What the sandbox tells its event handler follows the lifecycle.
THEOREM LifecycleImplemented == Spec => FollowsLifecycle
  BY LifecycleInit, LifecycleStep, Safety, PTL
     DEF Spec, FollowsLifecycle, Lifecycle!Spec

=============================================================================
