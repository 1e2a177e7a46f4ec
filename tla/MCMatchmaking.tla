--------------------------- MODULE MCMatchmaking ---------------------------
(* Matchmaking for TLC: devices and the absent player are model values, and *)
(* the devices are interchangeable in runs without liveness.                *)
EXTENDS Matchmaking, TLC

DeviceSymmetry == Permutations(Devices)

=============================================================================
