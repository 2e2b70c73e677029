------------------------- MODULE MCUnitPublication -------------------------
(***************************************************************************)
(* Instances of UnitPublication: two units that share an identifier.       *)
(***************************************************************************)
EXTENDS UnitPublication

CONSTANTS u1, u2, c1

MCUnit == {u1, u2}
MCCuid == [u \in MCUnit |-> c1]
=============================================================================
