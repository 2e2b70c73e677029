-------------------------- MODULE CommandLifecycle --------------------------
(***************************************************************************)
(* What a sandbox promises to whoever follows its events: the life of a    *)
(* batch command as BatchCommandEventType (BatchCommandTypes.h) names it,  *)
(* and the last-in first-out order in which paused commands resume.        *)
(***************************************************************************)
EXTENDS Naturals, Sequences

CONSTANT Command

VARIABLES
    state,      \* the last event of each command
    paused      \* the paused commands, the last one first

vars == <<state, paused>>

Ending == {"COMPLETED", "FAULT", "KILLED"}

Init ==
    /\ state = [c \in Command |-> "NONE"]
    /\ paused = <<>>

Queue(c) ==
    /\ state[c] = "NONE"
    /\ state' = [state EXCEPT ![c] = "QUEUED"]
    /\ UNCHANGED paused

Run(c) ==
    /\ state[c] = "QUEUED"
    /\ state' = [state EXCEPT ![c] = "RUNNING"]
    /\ UNCHANGED paused

\* A command that stacks the running one.
Preempt(c, d) ==
    /\ state[c] = "QUEUED" /\ state[d] = "RUNNING"
    /\ state' = [state EXCEPT ![c] = "RUNNING", ![d] = "PAUSED"]
    /\ paused' = <<d>> \o paused

\* A running command ends; the last paused one may resume in the same step.
End(c, e) ==
    /\ state[c] = "RUNNING"
    /\ \/ state' = [state EXCEPT ![c] = e] /\ UNCHANGED paused
       \/ /\ paused # <<>> /\ e # "KILLED"
          /\ state' = [state EXCEPT ![c] = e, ![Head(paused)] = "RUNNING"]
          /\ paused' = Tail(paused)

\* A command that ends without ever being current: only a set handler, or a
\* set handler that failed.
EndAtOnce(c, e) ==
    /\ state[c] = "QUEUED" /\ e # "KILLED"
    /\ state' = [state EXCEPT ![c] = e]
    /\ UNCHANGED paused

\* The sandbox is deinitialized: the running command is killed, the paused
\* ones will never resume.
Abandon ==
    /\ \/ UNCHANGED state
       \/ \E c \in Command : state[c] = "RUNNING"
                             /\ state' = [state EXCEPT ![c] = "KILLED"]
    /\ paused' = <<>>

Next ==
    \/ \E c \in Command : Queue(c) \/ Run(c) \/ (\E d \in Command : Preempt(c, d))
    \/ \E c \in Command, e \in Ending : End(c, e) \/ EndAtOnce(c, e)
    \/ Abandon

Spec == Init /\ [][Next]_vars

=============================================================================
