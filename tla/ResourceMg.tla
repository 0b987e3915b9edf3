----------------------------- MODULE ResourceMg ------------------------------
(***************************************************************************)
(* resource_mg (cpu/resource-mg.c): how the server finds the CUDA handle   *)
(* that stands for the handle a client holds.  map_res is kept sorted by   *)
(* client address and searched by bisection; the two loops are modelled    *)
(* comparison by comparison.  The server runs one RPC at a time, so one    *)
(* call is in progress at most.                                            *)
(*                                                                         *)
(* list_append's and list_insert's allocation failures are not modelled    *)
(* here: after one the list has no storage at all (see the README).        *)
(***************************************************************************)
EXTENDS Integers, Sequences, SequencesExt

CONSTANTS
  Handles,      \* what clients pass: numbers, because the search compares them
  Targets,      \* the handles CUDA hands out in this run; may be Handles too
  MaxEntries,   \* bound on the length of map_res
  MaxCreated    \* bound on the number of resources created in this run

ASSUME HandlesAreNumbers == Handles \subseteq Nat /\ Targets \subseteq Nat
ASSUME BoundsAreNumbers == MaxEntries \in Nat /\ MaxCreated \in Nat

VARIABLES
  bypass,    \* mg->bypass: set by resource_mg_init, never changed
  map_res,   \* restored resources, sorted by client address
  new_res,   \* resources created in this run: never searched, order is moot
  call,      \* the search in progress, or NoCall
  last       \* the last completed call and what it returned

vars == <<bypass, map_res, new_res, call, last>>

Entry == [client : Handles, cuda : Targets]
NoCall == [op |-> "none"]
Search == [op : {"get", "add"}, client : Handles, cuda : Handles \cup Targets,
           start : Nat, end : Int]

Done(op, client, cuda, status) ==
  [op |-> op, client |-> client, cuda |-> cuda, status |-> status]

Return(op, client, cuda, status) ==
  /\ call' = NoCall
  /\ last' = Done(op, client, cuda, status)

(* resource_mg_init: without bypass map_res starts out empty. *)
Init ==
  /\ bypass \in BOOLEAN
  /\ map_res = <<>>
  /\ new_res = {}
  /\ call = NoCall
  /\ last = Done("none", 0, 0, 0)

------------------------------------------------------------------------------
(* The part the two searches share. *)

Begin(op, c, d) ==
  call' = [op |-> op, client |-> c, cuda |-> d,
           start |-> 0, end |-> Len(map_res) - 1]

Running(op) == call.op = op
Exhausted == call.end < call.start
Mid == call.start + (call.end - call.start) \div 2

(* list_get counts from 0. *)
At(i) == map_res[i + 1]

Bug_GoLeft == call' = [call EXCEPT !.end = Mid]
GoLeft  == call' = [call EXCEPT !.end = Mid - 1]
Bug_WrongBound == call' = [call EXCEPT !.end = Mid + 1]
Bug_SkipOne == call' = [call EXCEPT !.start = Mid + 2]
GoRight == call' = [call EXCEPT !.start = Mid + 1]

------------------------------------------------------------------------------
(* resource_mg_create *)
Create(d) ==
  /\ call = NoCall
  /\ Cardinality(new_res \cup {d}) <= MaxCreated
  /\ new_res' = new_res \cup {d}
  /\ Return("create", d, d, 0)
  /\ UNCHANGED <<bypass, map_res>>

(* resource_mg_get, and resource_mg_search_map up to its loop. *)
Get(c) ==
  /\ call = NoCall
  /\ IF bypass \/ map_res = <<>> THEN Return("get", c, c, 0)
                                 ELSE Begin("get", c, c) /\ UNCHANGED last
  /\ UNCHANGED <<bypass, map_res, new_res>>

(* One turn of the loop of resource_mg_search_map.  start, end and mid are *)
(* size_t: when mid is 0 the code computes end = mid-1 = SIZE_MAX, and     *)
(* leaves the loop before the wrapped value is compared with start.        *)
SizeMax == 2147483647
Bug_GetLeft ==
  /\ At(Mid).client > call.client
  /\ call' = [call EXCEPT !.end = IF Mid = 0 THEN SizeMax ELSE Mid - 1]
  /\ UNCHANGED last

GetLeft ==
  /\ At(Mid).client > call.client
  /\ IF Mid = 0 THEN Return("get", call.client, call.client, 0)
                ELSE GoLeft /\ UNCHANGED last

GetRight ==
  /\ At(Mid).client < call.client
  /\ GoRight /\ UNCHANGED last

GetHit ==
  /\ At(Mid).client = call.client
  /\ Return("get", call.client, At(Mid).cuda, 0)

SearchTurn ==
  /\ Running("get") /\ ~Exhausted
  /\ GetLeft \/ GetRight \/ GetHit
  /\ UNCHANGED <<bypass, map_res, new_res>>

(* The loop ends without a find: the address is its own translation. *)
GetMiss ==
  /\ Running("get") /\ Exhausted
  /\ Return("get", call.client, call.client, 0)
  /\ UNCHANGED <<bypass, map_res, new_res>>

------------------------------------------------------------------------------
(* resource_mg_add_sorted up to its loop.  A bypassed manager refuses. *)
AddSorted(c, d) ==
  /\ call = NoCall
  /\ Len(map_res) < MaxEntries
  /\ \/ /\ bypass
        /\ Return("add", c, d, 1)
        /\ UNCHANGED map_res
     \/ /\ ~bypass /\ map_res = <<>>
        /\ map_res' = <<[client |-> c, cuda |-> d]>>
        /\ Return("add", c, d, 0)
     \/ /\ ~bypass /\ map_res # <<>>
        /\ Begin("add", c, d)
        /\ UNCHANGED <<map_res, last>>
  /\ UNCHANGED <<bypass, new_res>>

AddLeft ==
  /\ At(Mid).client > call.client
  /\ GoLeft /\ UNCHANGED <<map_res, last>>

AddRight ==
  /\ At(Mid).client < call.client
  /\ GoRight /\ UNCHANGED <<map_res, last>>

Bug_KeepFirst ==
  /\ At(Mid).client = call.client
  /\ UNCHANGED map_res
  /\ Return("add", call.client, call.cuda, 0)

(* "duplicate resource! The first resource will be overwritten" *)
AddDuplicate ==
  /\ At(Mid).client = call.client
  /\ map_res' = [map_res EXCEPT ![Mid + 1].cuda = call.cuda]
  /\ Return("add", call.client, call.cuda, 0)

AddTurn ==
  /\ Running("add") /\ ~Exhausted
  /\ AddLeft \/ AddRight \/ AddDuplicate
  /\ UNCHANGED <<bypass, new_res>>

(* Where the element goes once the loop is over, counted from 0. *)
Bug_InsertPosition == IF call.end < 0 THEN 0 ELSE call.end
InsertPosition ==
  LET end == IF call.end < 0 THEN 0 ELSE call.end
  IN  IF At(end).client < call.client THEN end + 1 ELSE end

AddInsert ==
  /\ Running("add") /\ Exhausted
  /\ map_res' = InsertAt(map_res, InsertPosition + 1,
                         [client |-> call.client, cuda |-> call.cuda])
  /\ Return("add", call.client, call.cuda, 0)
  /\ UNCHANGED <<bypass, new_res>>

------------------------------------------------------------------------------
Step == SearchTurn \/ GetMiss \/ AddTurn \/ AddInsert

Next ==
  \/ \E c \in Handles : Get(c)
  \/ \E d \in Targets : Create(d)
  \/ \E c \in Handles, d \in Targets : AddSorted(c, d)
  \/ Step

Spec == Init /\ [][Next]_vars

(* The loops take no lock and wait for nobody, so a call that has begun    *)
(* keeps taking steps; no fairness is asked of the callers.                *)
FairSpec == Spec /\ WF_vars(Step)

------------------------------------------------------------------------------
(* The type invariant. The window of a search stays inside the list: end   *)
(* never holds the SIZE_MAX of a wrapped subtraction (resource-mg.c:66).   *)
TypeOK ==
  /\ bypass \in BOOLEAN
  /\ map_res \in Seq(Entry)
  /\ new_res \subseteq Targets
  /\ last \in [op : {"none", "get", "add", "create"},
               client : Handles \cup Targets \cup {0},
               cuda : Handles \cup Targets \cup {0}, status : {0, 1}]
  /\ call \in {NoCall} \cup Search
  /\ call # NoCall => /\ ~bypass /\ map_res # <<>>
                      /\ call.start \in 0 .. Len(map_res)
                      /\ call.end \in -1 .. Len(map_res) - 1
  /\ call.op = "add" => call.cuda \in Targets

(* map_res is sorted and holds no client address twice: what the bisection *)
(* of resource_mg_search_map relies on and add_sorted has to preserve.     *)
Sorted ==
  \A i, j \in 1 .. Len(map_res) :
    i < j => map_res[i].client < map_res[j].client

(* The entry a search is looking for, if there is one, is still inside the *)
(* window: no comparison of either loop throws away the half with the key. *)
WindowHoldsKey ==
  call # NoCall =>
    \A i \in 0 .. Len(map_res) - 1 :
      /\ i < call.start => At(i).client < call.client
      /\ i > call.end   => At(i).client > call.client

(* A turn of a loop that does not return makes the window smaller, so no   *)
(* search goes round for ever.                                             *)
WindowShrinks ==
  [][call # NoCall /\ call' # NoCall =>
       call'.end - call'.start < call.end - call.start]_vars

(* Every call returns. *)
CallsReturn == (call # NoCall) ~> (call = NoCall)

(* The sorted list implements the map that HandleMap promises. *)
ClientsOf(s) == {s[i].client : i \in 1 .. Len(s)}
MapOf(s) == [h \in ClientsOf(s) |->
               s[CHOOSE i \in 1 .. Len(s) : s[i].client = h].cuda]

Promise == INSTANCE HandleMap WITH map <- MapOf(map_res), created <- new_res
ImplementsHandleMap == Promise!Spec
==============================================================================
