------------------------- MODULE MCMessageChannel -------------------------
(***************************************************************************)
(* MessageChannel on a small instance.                                     *)
(***************************************************************************)
EXTENDS MessageChannel, TLC

CONSTANTS r1, r2, r3

\* One request of each mode.
MCMode == r1 :> "timed" @@ r2 :> "untimed" @@ r3 :> "async"
=============================================================================
