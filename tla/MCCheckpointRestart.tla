------------------------- MODULE MCCheckpointRestart --------------------------
(* The values clients write are only compared with one another, so any     *)
(* permutation of them leaves behaviours and properties the same.  Used in *)
(* the runs without liveness properties.                                   *)
EXTENDS CheckpointRestart

ValuesAreAlike == Permutations(Values)
==============================================================================
