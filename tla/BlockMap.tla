------------------------------- MODULE BlockMap -------------------------------
(***************************************************************************)
(* What the memory manager promises: a device pointer of the checkpointed  *)
(* process, to the start or into the middle of an allocation, is           *)
(* translated to the same place of the allocation that was restored for    *)
(* it; any other pointer is passed through.  MemoryMg implements it.       *)
(***************************************************************************)
EXTENDS Naturals

CONSTANTS
  Addresses,  \* the device addresses clients pass
  Blocks,     \* allocations that may be restored: [client, size]
  Targets     \* the addresses cudaMalloc returns in this run

VARIABLES
  bypass,     \* TRUE in a server that restored nothing
  map,        \* client address of a restored block -> [cuda, size]
  created,    \* blocks allocated in this run: [cuda, size]
  last        \* the last completed call

absVars == <<bypass, map, created, last>>

Call(op, client, cuda, status) ==
  [op |-> op, client |-> client, cuda |-> cuda, status |-> status]

(* The pointer a names a place of the block of that size at base. *)
Covers(base, size, a) == a = base \/ (base < a /\ a < base + size)

Covering(a) == {b \in DOMAIN map : Covers(b, map[b].size, a)}

Translation(a) ==
  IF ~bypass /\ Covering(a) # {}
  THEN LET b == CHOOSE b \in Covering(a) : TRUE IN map[b].cuda + (a - b)
  ELSE a

Init ==
  /\ bypass \in BOOLEAN
  /\ map = [b \in {} |-> b]
  /\ created = {}
  /\ last = Call("none", 0, 0, 0)

Get(a) ==
  /\ last' = Call("get", a, Translation(a), 0)
  /\ UNCHANGED <<bypass, map, created>>

Create(d, size) ==
  /\ created' = created \cup {[cuda |-> d, size |-> size]}
  /\ last' = Call("create", d, d, 0)
  /\ UNCHANGED <<bypass, map>>

Add(b, d) ==
  /\ ~bypass
  /\ map' = [x \in DOMAIN map \cup {b.client} |->
               IF x = b.client THEN [cuda |-> d, size |-> b.size] ELSE map[x]]
  /\ last' = Call("add", b.client, d, 0)
  /\ UNCHANGED <<bypass, created>>

RefuseAdd(b, d) ==
  /\ bypass
  /\ last' = Call("add", b.client, d, 1)
  /\ UNCHANGED <<bypass, map, created>>

Next ==
  \/ \E a \in Addresses : Get(a)
  \/ \E d \in Targets, b \in Blocks : Create(d, b.size)
  \/ \E d \in Targets, b \in Blocks : Add(b, d) \/ RefuseAdd(b, d)

Spec == Init /\ [][Next]_absVars
==============================================================================
