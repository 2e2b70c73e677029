---------------------------- MODULE MCDispatcher ----------------------------
(***************************************************************************)
(* CommandDispatcher on a small instance.                                  *)
(***************************************************************************)
EXTENDS CommandDispatcher, TLC

CONSTANTS p1, p2, p3, p4, a1, a2, o1, o2, t1

\* Two owners share the domain; the second pack carries the third as its sub
\* command, and the first and third ask for an answer.
MCOwned == o1 :> {a1} @@ o2 :> {a2}
MCActionName == p1 :> a1 @@ p2 :> a2 @@ p3 :> a1 @@ p4 :> a1
MCSubCommand == p1 :> NoPack @@ p2 :> p3 @@ p3 :> NoPack @@ p4 :> NoPack
MCNeedAnswer == {p1, p3}
=============================================================================
