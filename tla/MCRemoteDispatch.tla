--------------------------- MODULE MCRemoteDispatch ---------------------------
(* Contents that tell operations, their number and their order apart.      *)
EXTENDS RemoteDispatch

MCResult(kind, v) ==
  CASE kind = "functional" -> (2 * v + 1) % 3
    [] kind = "in_place" -> (v + 1) % 3
    [] kind = "view" -> v
==============================================================================
