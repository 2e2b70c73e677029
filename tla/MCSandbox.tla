----------------------------- MODULE MCSandbox -----------------------------
(***************************************************************************)
(* BatchCommandSandbox on small instances.                                 *)
(***************************************************************************)
EXTENDS BatchCommandSandbox, TLC

\* The submissions tried: a full command that waits its turn, one that stacks
\* the current command and takes over only its acquisition, one that kills it
\* and implements only the correlation, and one with only a set handler.  Each
\* has a timeout, which may strike or not.
MCKind(rule, mask, priority, delay, timeout) ==
    [rule |-> rule, mask |-> mask, priority |-> priority, delay |-> delay,
     timeout |-> timeout]

MCKinds ==
    { MCKind("SUBMIT_NORMAL", HandlerType, 0, TRUE, TRUE),
      MCKind("SUBMIT_AND_Stack", {"HT_Set", "HT_Acquisition"}, 1, FALSE, TRUE),
      MCKind("SUBMIT_AND_Kill", {"HT_Correlation"}, 1, FALSE, TRUE),
      MCKind("SUBMIT_NORMAL", {"HT_Set"}, 0, FALSE, TRUE) }

\* Commands that only wait for each other.
MCNormalKinds ==
    { MCKind("SUBMIT_NORMAL", {"HT_Acquisition"}, 0, FALSE, FALSE) }

\* Commands that pile up on the stack or kill, with handlers that overlap
\* and timeouts.
MCStackKinds ==
    { MCKind("SUBMIT_AND_Stack", {"HT_Set", "HT_Acquisition"}, 0, FALSE, TRUE),
      MCKind("SUBMIT_AND_Stack", {"HT_Correlation"}, 0, FALSE, TRUE),
      MCKind("SUBMIT_AND_Kill", {"HT_Acquisition"}, 0, FALSE, TRUE) }

\* Nobody stops the sandbox or changes features.
UnstoppedSpec ==
    Init /\ [][Next /\ owner' = "idle" /\ reader' # "features"]_vars /\ Fairness

\* No RPC reads or changes the current command.
UntouchedSpec == Init /\ [][Next /\ reader' = "idle"]_vars /\ Fairness

Symmetry == Permutations(Command)
=============================================================================
