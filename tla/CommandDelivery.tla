-------------------------- MODULE CommandDelivery --------------------------
(***************************************************************************)
(* What a domain's dispatcher promises of the command packs given to it: a *)
(* pack is refused at once or waits in one line, the packs of the line are *)
(* taken in its order and one at a time, each is ended once, and only a    *)
(* pack that was taken and served is answered.  Packs still in the line    *)
(* are lost when the domain's scheduler is closed.                         *)
(***************************************************************************)
EXTENDS Naturals, Sequences

CONSTANTS Packs, NoPack

VARIABLES
    line,           \* the packs accepted and not yet taken
    taken,          \* the pack being served, or NoPack
    ended,          \* how each pack ended, "none" until then
    answers         \* how many answers were sent for each pack

vars == <<line, taken, ended, answers>>

Waiting == {line[i] : i \in DOMAIN line}

Untouched(p) == ended[p] = "none" /\ p # taken /\ p \notin Waiting

Init ==
    /\ line = <<>> /\ taken = NoPack
    /\ ended = [p \in Packs |-> "none"]
    /\ answers = [p \in Packs |-> 0]

Accept(p) ==
    /\ Untouched(p)
    /\ line' = Append(line, p)
    /\ UNCHANGED <<taken, ended, answers>>

Refuse(p) ==
    /\ Untouched(p)
    /\ ended' = [ended EXCEPT ![p] = "refused"]
    /\ UNCHANGED <<line, taken, answers>>

Take ==
    /\ taken = NoPack /\ line # <<>>
    /\ taken' = Head(line) /\ line' = Tail(line)
    /\ UNCHANGED <<ended, answers>>

Serve ==
    /\ taken # NoPack /\ taken' = NoPack
    /\ ended' = [ended EXCEPT ![taken] = "served"]
    /\ \/ UNCHANGED answers
       \/ answers' = [answers EXCEPT ![taken] = @ + 1]
    /\ UNCHANGED line

Skip ==
    /\ taken # NoPack /\ taken' = NoPack
    /\ ended' = [ended EXCEPT ![taken] = "skipped"]
    /\ UNCHANGED <<line, answers>>

Flush ==
    /\ line # <<>> /\ line' = <<>>
    /\ ended' = [p \in Packs |-> IF p \in Waiting THEN "flushed" ELSE ended[p]]
    /\ UNCHANGED <<taken, answers>>

Next ==
    \/ \E p \in Packs : Accept(p) \/ Refuse(p)
    \/ Take \/ Serve \/ Skip \/ Flush

Spec == Init /\ [][Next]_vars
=============================================================================
