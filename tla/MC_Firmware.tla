----------------------------- MODULE MC_Firmware -----------------------------
(* Instances of Firmware for TLC. *)
EXTENDS Firmware, TLC
CONSTANTS d1, d2, v1, v2, s1, s2
TwoDevices  == {d1, d2}
OneDevice   == {d1}
OneRelease  == {v1}
TwoReleases == {v1, v2}
OneSession  == {s1}
SweepSession == {s2}
TwoSessions == {s1, s2}
DeviceSymmetry == Permutations(TwoDevices)
==============================================================================
