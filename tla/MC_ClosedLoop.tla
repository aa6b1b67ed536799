---------------------------- MODULE MC_ClosedLoop ----------------------------
(* Instances of ClosedLoop for TLC. *)
EXTENDS ClosedLoop
CONSTANTS d1, d2, c1, c2
OneDevice  == {d1}
TwoDevices == {d1, d2}
OneClient  == {c1}
TwoClients == {c1, c2}
LateTerm   == {MaxTime + 4}
(* With intervals of two ticks and an even MaxTime one of these policies   *)
(* expires in the middle of an interval.                                   *)
MidSlotTerms == {MaxTime - 1, MaxTime + 4}
==============================================================================
