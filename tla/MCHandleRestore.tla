--------------------------- MODULE MCHandleRestore ---------------------------
(* Handles, fat binaries and stubs are only compared with one another when *)
(* the driver's choice of a handle is free, so permuting them leaves       *)
(* behaviours and properties the same.                                     *)
EXTENDS HandleRestore, TLC

NamesAreAlike == Permutations(Handle) \cup Permutations(Modules)
                 \cup Permutations(Functions)
==============================================================================
