------------------------------ MODULE MemoryMg -------------------------------
(***************************************************************************)
(* memory_mg (cpu/resource-mg.c): the manager of device memory.  It is     *)
(* resource_mg with a size in each entry, so that a pointer into the       *)
(* middle of a restored allocation is translated as well.  The module      *)
(* follows ResourceMg; what differs is Covers, and that the search for a   *)
(* key may end at an entry whose client address is not the key.            *)
(*                                                                         *)
(* The blocks are assumed not to overlap.  The code does not see to that:  *)
(* a freed block stays in map_res, and an address the driver reuses for a  *)
(* block of another size keeps the old size.  CheckpointRestart shows how  *)
(* such records come about and what the lookup then returns.               *)
(***************************************************************************)
EXTENDS Integers, Sequences, SequencesExt

CONSTANTS
  Addresses,    \* the device addresses clients pass
  Blocks,       \* the allocations that may be restored: [client, size]
  Targets,      \* the addresses cudaMalloc returns in this run
  MaxEntries,   \* bound on the length of map_res
  MaxCreated    \* bound on the number of blocks allocated in this run

Covers(base, size, a) == a = base \/ (base < a /\ a < base + size)

ASSUME AddressesAreNumbers == Addresses \subseteq Nat /\ Targets \subseteq Nat
ASSUME BlocksAreSized == Blocks \subseteq [client : Addresses, size : Nat]
ASSUME BlocksAreApart ==
  \A b, c \in Blocks : b # c =>
    \/ b.client + b.size <= c.client /\ b.client < c.client
    \/ c.client + c.size <= b.client /\ c.client < b.client
ASSUME BoundsAreNumbers == MaxEntries \in Nat /\ MaxCreated \in Nat

VARIABLES
  bypass,    \* mg->rm.bypass: set by memory_mg_init, never changed
  map_res,   \* restored blocks, sorted by client address
  new_res,   \* blocks allocated in this run: never searched
  call,      \* the search in progress, or NoCall
  last       \* the last completed call and what it returned

vars == <<bypass, map_res, new_res, call, last>>

Sizes == {b.size : b \in Blocks}
Entry == {[client |-> b.client, cuda |-> d, size |-> b.size] :
            b \in Blocks, d \in Targets}
NoCall == [op |-> "none"]
Search == [op : {"get"}, client : Addresses, start : Nat, end : Int]
          \cup [op : {"add"}, client : Addresses, cuda : Targets, size : Sizes,
                start : Nat, end : Int]

Done(op, client, cuda, status) ==
  [op |-> op, client |-> client, cuda |-> cuda, status |-> status]

Return(op, client, cuda, status) ==
  /\ call' = NoCall
  /\ last' = Done(op, client, cuda, status)

(* memory_mg_init *)
Init ==
  /\ bypass \in BOOLEAN
  /\ map_res = <<>>
  /\ new_res = {}
  /\ call = NoCall
  /\ last = Done("none", 0, 0, 0)

------------------------------------------------------------------------------
Running(op) == call.op = op
Exhausted == call.end < call.start
Mid == call.start + (call.end - call.start) \div 2
At(i) == map_res[i + 1]

Bug_SkipOne == call' = [call EXCEPT !.end = Mid - 2]
GoLeft  == call' = [call EXCEPT !.end = Mid - 1]
GoRight == call' = [call EXCEPT !.start = Mid + 1]

------------------------------------------------------------------------------
(* memory_mg_create *)
Create(d, size) ==
  /\ call = NoCall
  /\ Cardinality(new_res \cup {[cuda |-> d, size |-> size]}) <= MaxCreated
  /\ new_res' = new_res \cup {[cuda |-> d, size |-> size]}
  /\ Return("create", d, d, 0)
  /\ UNCHANGED <<bypass, map_res>>

(* memory_mg_get, and memory_mg_search_map up to its loop. *)
Get(a) ==
  /\ call = NoCall
  /\ IF bypass \/ map_res = <<>>
     THEN Return("get", a, a, 0)
     ELSE /\ call' = [op |-> "get", client |-> a,
                      start |-> 0, end |-> Len(map_res) - 1]
          /\ UNCHANGED last
  /\ UNCHANGED <<bypass, map_res, new_res>>

(* One turn of the loop of memory_mg_search_map; as in resource_mg, mid is *)
(* a size_t and a find left of element 0 leaves the loop at once.          *)
SizeMax == 2147483647
Bug_GetLeft ==
  /\ At(Mid).client > call.client
  /\ call' = [call EXCEPT !.end = IF Mid = 0 THEN SizeMax ELSE Mid - 1]
  /\ UNCHANGED last

GetLeft ==
  /\ At(Mid).client > call.client
  /\ IF Mid = 0 THEN Return("get", call.client, call.client, 0)
                ELSE GoLeft /\ UNCHANGED last

GetRight ==
  /\ At(Mid).client < call.client
  /\ ~ Covers(At(Mid).client, At(Mid).size, call.client)
  /\ GoRight /\ UNCHANGED last

Bug_GetHit ==
  /\ Covers(At(Mid).client, At(Mid).size, call.client)
  /\ Return("get", call.client, At(Mid).cuda, 0)

(* The start of a block, or a pointer into it, keeping the offset. *)
GetHit ==
  /\ Covers(At(Mid).client, At(Mid).size, call.client)
  /\ Return("get", call.client,
            At(Mid).cuda + (call.client - At(Mid).client), 0)

SearchTurn ==
  /\ Running("get") /\ ~Exhausted
  /\ GetLeft \/ GetRight \/ GetHit
  /\ UNCHANGED <<bypass, map_res, new_res>>

GetMiss ==
  /\ Running("get") /\ Exhausted
  /\ Return("get", call.client, call.client, 0)
  /\ UNCHANGED <<bypass, map_res, new_res>>

------------------------------------------------------------------------------
(* memory_mg_add_sorted up to its loop *)
AddSorted(b, d) ==
  /\ call = NoCall
  /\ Len(map_res) < MaxEntries
  /\ \/ /\ bypass
        /\ Return("add", b.client, d, 1)
        /\ UNCHANGED map_res
     \/ /\ ~bypass /\ map_res = <<>>
        /\ map_res' = <<[client |-> b.client, cuda |-> d, size |-> b.size]>>
        /\ Return("add", b.client, d, 0)
     \/ /\ ~bypass /\ map_res # <<>>
        /\ call' = [op |-> "add", client |-> b.client, cuda |-> d,
                    size |-> b.size, start |-> 0, end |-> Len(map_res) - 1]
        /\ UNCHANGED <<map_res, last>>
  /\ UNCHANGED <<bypass, new_res>>

AddLeft ==
  /\ At(Mid).client > call.client
  /\ GoLeft /\ UNCHANGED <<map_res, last>>

AddRight ==
  /\ At(Mid).client < call.client
  /\ GoRight /\ UNCHANGED <<map_res, last>>

(* A block already present gets its new CUDA address and keeps its size. *)
AddDuplicate ==
  /\ At(Mid).client = call.client
  /\ map_res' = [map_res EXCEPT ![Mid + 1].cuda = call.cuda]
  /\ Return("add", call.client, call.cuda, 0)

AddTurn ==
  /\ Running("add") /\ ~Exhausted
  /\ AddLeft \/ AddRight \/ AddDuplicate
  /\ UNCHANGED <<bypass, new_res>>

Bug_InsertPosition == IF call.end < 0 THEN 0 ELSE call.end
InsertPosition ==
  LET end == IF call.end < 0 THEN 0 ELSE call.end
  IN  IF At(end).client < call.client THEN end + 1 ELSE end

AddInsert ==
  /\ Running("add") /\ Exhausted
  /\ map_res' = InsertAt(map_res, InsertPosition + 1,
                         [client |-> call.client, cuda |-> call.cuda,
                          size |-> call.size])
  /\ Return("add", call.client, call.cuda, 0)
  /\ UNCHANGED <<bypass, new_res>>

------------------------------------------------------------------------------
Step == SearchTurn \/ GetMiss \/ AddTurn \/ AddInsert

Next ==
  \/ \E a \in Addresses : Get(a)
  \/ \E d \in Targets, s \in Sizes : Create(d, s)
  \/ \E b \in Blocks, d \in Targets : AddSorted(b, d)
  \/ Step

Spec == Init /\ [][Next]_vars

------------------------------------------------------------------------------
(* The type invariant; every entry of map_res is one of Blocks with the    *)
(* size it was added with, and a window never leaves the list.             *)
TypeOK ==
  /\ bypass \in BOOLEAN
  /\ map_res \in Seq(Entry)
  /\ new_res \subseteq [cuda : Targets, size : Sizes]
  /\ last \in [op : {"none", "get", "add", "create"},
               client : Nat, cuda : Nat, status : {0, 1}]
  /\ call \in {NoCall} \cup Search
  /\ call # NoCall => /\ ~bypass /\ map_res # <<>>
                      /\ call.start \in 0 .. Len(map_res)
                      /\ call.end \in -1 .. Len(map_res) - 1
  /\ call.op = "add" => [client |-> call.client, size |-> call.size] \in Blocks

(* map_res is sorted by client address, without repetition. *)
Sorted ==
  \A i, j \in 1 .. Len(map_res) :
    i < j => map_res[i].client < map_res[j].client

(* Whatever a search has skipped neither is nor covers the key: the block  *)
(* that a pointer belongs to is never bisected away, though the search     *)
(* compares with the starts of blocks only.                                *)
WindowHoldsKey ==
  call # NoCall =>
    \A i \in 0 .. Len(map_res) - 1 :
      /\ i < call.start => /\ At(i).client < call.client
                           /\ call.op = "get" =>
                                ~ Covers(At(i).client, At(i).size, call.client)
      /\ i > call.end => At(i).client > call.client

(* A get returns the right place of the right block, and the sorted list   *)
(* behaves like the map of blocks that BlockMap promises.                  *)
BasesOf(s) == {s[i].client : i \in 1 .. Len(s)}
MapOf(s) == [b \in BasesOf(s) |->
               LET e == s[CHOOSE i \in 1 .. Len(s) : s[i].client = b]
               IN  [cuda |-> e.cuda, size |-> e.size]]

Promise == INSTANCE BlockMap WITH map <- MapOf(map_res), created <- new_res
ImplementsBlockMap == Promise!Spec
==============================================================================
