------------------------------ MODULE HandleMap ------------------------------
(***************************************************************************)
(* What a resource manager promises to the RPC handlers (resource-mg.h,    *)
(* lines 22-34): a handle of a restored resource is translated to the      *)
(* resource that took its place, every other handle is passed through.     *)
(* Each call is one step.  ResourceMg implements this specification with a *)
(* sorted list and binary search.                                          *)
(***************************************************************************)
EXTENDS Naturals

CONSTANTS
  Handles,   \* the pointer values clients pass
  Targets    \* the handles CUDA hands out in this run

VARIABLES
  bypass,    \* TRUE in a server that restored nothing
  map,       \* the translations: a function on a subset of Handles
  created,   \* the resources created in this run
  last       \* the last completed call with the address and status it gave

absVars == <<bypass, map, created, last>>

Call(op, client, cuda, status) ==
  [op |-> op, client |-> client, cuda |-> cuda, status |-> status]

Translation(h) == IF ~bypass /\ h \in DOMAIN map THEN map[h] ELSE h

Init ==
  /\ bypass \in BOOLEAN
  /\ map = [h \in {} |-> h]
  /\ created = {}
  /\ last = Call("none", 0, 0, 0)

Get(c) ==
  /\ last' = Call("get", c, Translation(c), 0)
  /\ UNCHANGED <<bypass, map, created>>

Create(d) ==
  /\ created' = created \cup {d}
  /\ last' = Call("create", d, d, 0)
  /\ UNCHANGED <<bypass, map>>

(* A second mapping of a handle overwrites the first. *)
Add(c, d) ==
  /\ ~bypass
  /\ map' = [h \in DOMAIN map \cup {c} |-> IF h = c THEN d ELSE map[h]]
  /\ last' = Call("add", c, d, 0)
  /\ UNCHANGED <<bypass, created>>

RefuseAdd(c, d) ==
  /\ bypass
  /\ last' = Call("add", c, d, 1)
  /\ UNCHANGED <<bypass, map, created>>

Next ==
  \/ \E c \in Handles : Get(c)
  \/ \E d \in Targets : Create(d)
  \/ \E c \in Handles, d \in Targets : Add(c, d) \/ RefuseAdd(c, d)

Spec == Init /\ [][Next]_absVars
==============================================================================
