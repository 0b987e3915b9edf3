------------------------------ MODULE HostMemory ------------------------------
(***************************************************************************)
(* cudaHostAlloc over shared memory: the tables hainfo of the server and   *)
(* of each of its clients, the names under which a segment travels from    *)
(* one to the other, and the copies that name a segment by its index       *)
(* (cpu-server-runtime.c, cpu-client-runtime.c, transfers by shared        *)
(* memory).                                                                *)
(*                                                                         *)
(* The server executes one call at a time (svc_run), so each handler is    *)
(* one step; a client does what lies between two of its calls in a step of *)
(* its own, and may exit or be killed between any two steps.  A client     *)
(* that exits makes no call (rpc_deinit does nothing), and the next        *)
(* process of the same user starts from an empty table.                    *)
(*                                                                         *)
(* A segment is a number, its bytes are left out: what a copy moves is     *)
(* told by the segment it uses.  Copies ask for at most the size of their  *)
(* segment.                                                                *)
(***************************************************************************)
EXTENDS Naturals

CONSTANTS
    Clients,        \* the clients of the server, all on the server's host
    Slots,          \* entries of an array hainfo, 64 in the code, and a bound:
                    \* allocations after the last entry are left out
    MaxSegments     \* bound: segments created in a run

ASSUME SlotsAssumption == Slots \in Nat \ {0}
ASSUME SegmentsAssumption == MaxSegments \in Nat

VARIABLES
    socktype,       \* the transport both sides were started with
    segments,       \* number of segments created so far
    linked,         \* the segment that /crickethostalloc-n names, 0 for none
    hainfo,         \* the server's table
    hainfo_cnt,
    held,           \* the table of each client
    held_cnt,
    call,           \* where each client is in a call
    copied          \* the last copy of each client: the segment it meant, the one used

vars == <<socktype, segments, linked, hainfo, hainfo_cnt, held, held_cnt, call, copied>>
server == <<segments, hainfo, hainfo_cnt>>
client == <<held, held_cnt, copied>>

Index == 0 .. Slots - 1

(* An entry that was memset to 0.                                          *)
Cleared == [idx |-> 0, segment |-> 0]
Entry == [idx : Index, segment : 0 .. MaxSegments]

(* A client outside cudaHostAlloc, cudaFreeHost and the copies.            *)
Idle == [at |-> "idle", index |-> 0, meant |-> 0]
At(c, place) == call[c].at = place

Init ==
    /\ socktype \in {"TCP", "UNIX"}
    /\ segments = 0
    /\ linked = [n \in Index |-> 0]
    /\ hainfo = [i \in Index |-> Cleared]
    /\ hainfo_cnt = 0
    /\ held = [c \in Clients |-> [i \in Index |-> Cleared]]
    /\ held_cnt = [c \in Clients |-> 0]
    /\ call = [c \in Clients |-> Idle]
    /\ copied = [c \in Clients |-> [meant |-> 0, used |-> 0]]

Goto(c, place, i, s) == call' = [call EXCEPT ![c] = [at |-> place, index |-> i, meant |-> s]]
Return(c) == call' = [call EXCEPT ![c] = Idle]

-------------------------------------------------------------------------------
(*  cudaHostAlloc  *)

cudaHostAlloc(c) ==
    /\ At(c, "idle")
    /\ held_cnt[c] < Slots
    /\ Goto(c, "host_alloc", 0, 0)
    /\ UNCHANGED <<socktype, linked, server, client>>

(* shm_open with O_CREAT and O_TRUNC: an object that an earlier allocation *)
(* left under the name is opened again.                                    *)
Fresh == linked[hainfo_cnt] = 0
Opened == IF Fresh THEN segments + 1 ELSE linked[hainfo_cnt]

host_alloc_opens(c) ==
    /\ At(c, "host_alloc")
    /\ hainfo_cnt < Slots
    /\ Opened <= MaxSegments
    /\ segments' = IF Fresh THEN segments + 1 ELSE segments
    /\ linked' = [linked EXCEPT ![hainfo_cnt] = Opened]

(* Mutant: the counter is not advanced.                                     *)
Bug_CounterStays(c) ==
    /\ host_alloc_opens(c)
    /\ hainfo' = [hainfo EXCEPT ![hainfo_cnt] = [idx |-> hainfo_cnt, segment |-> Opened]]
    /\ hainfo_cnt' = hainfo_cnt
    /\ Goto(c, "open", hainfo_cnt, 0)
    /\ UNCHANGED <<socktype, client>>

(* Mutant: the reply carries the counter after it was advanced.            *)
Bug_IndexOfNext(c) ==
    /\ host_alloc_opens(c)
    /\ hainfo' = [hainfo EXCEPT ![hainfo_cnt] = [idx |-> hainfo_cnt, segment |-> Opened]]
    /\ hainfo_cnt' = hainfo_cnt + 1
    /\ Goto(c, "open", hainfo_cnt', 0)
    /\ UNCHANGED <<socktype, client>>

cuda_host_alloc(c) ==
    /\ host_alloc_opens(c)
    /\ hainfo' = [hainfo EXCEPT ![hainfo_cnt] = [idx |-> hainfo_cnt, segment |-> Opened]]
    /\ hainfo_cnt' = hainfo_cnt + 1
    /\ Goto(c, "open", hainfo_cnt, 0)
    /\ UNCHANGED <<socktype, client>>

(* mmap or cudaHostRegister fails: the name stays, the counter too.        *)
host_alloc_registration_fails(c) ==
    /\ host_alloc_opens(c)
    /\ Return(c)
    /\ UNCHANGED <<socktype, hainfo, hainfo_cnt, client>>

(* ftruncate fails: the name goes.                                         *)
host_alloc_ftruncate_fails(c) ==
    /\ At(c, "host_alloc")
    /\ hainfo_cnt < Slots
    /\ linked' = [linked EXCEPT ![hainfo_cnt] = 0]
    /\ Return(c)
    /\ UNCHANGED <<socktype, server, client>>

(* asprintf or shm_open fails.                                             *)
host_alloc_open_fails(c) ==
    /\ At(c, "host_alloc")
    /\ Return(c)
    /\ UNCHANGED <<socktype, linked, server, client>>

client_maps(c) ==
    /\ At(c, "open")
    /\ linked[call[c].index] # 0
    /\ held' = [held EXCEPT ![c][held_cnt[c]] =
                    [idx |-> call[c].index, segment |-> linked[call[c].index]]]
    /\ held_cnt' = [held_cnt EXCEPT ![c] = @ + 1]
    /\ Goto(c, "regshm", call[c].index, 0)
    /\ UNCHANGED <<socktype, linked, server, copied>>

(* The server keeps its entry, and the name stays if it was shm_open that  *)
(* failed.                                                                 *)
client_shm_open_fails(c) ==
    /\ At(c, "open")
    /\ Return(c)
    /\ UNCHANGED <<socktype, linked, server, client>>

client_mmap_fails(c) ==
    /\ At(c, "open")
    /\ linked[call[c].index] # 0
    /\ linked' = [linked EXCEPT ![call[c].index] = 0]
    /\ Return(c)
    /\ UNCHANGED <<socktype, server, client>>

cuda_host_alloc_regshm(c) ==
    /\ At(c, "regshm")
    /\ linked' = [linked EXCEPT ![call[c].index] = 0]
    /\ Goto(c, "unlink", call[c].index, 0)
    /\ UNCHANGED <<socktype, server, client>>

(* asprintf fails; the client looks at the RPC's status only.              *)
regshm_fails(c) ==
    /\ At(c, "regshm")
    /\ Goto(c, "unlink", call[c].index, 0)
    /\ UNCHANGED <<socktype, linked, server, client>>

client_unlinks(c) ==
    /\ At(c, "unlink")
    /\ linked' = [linked EXCEPT ![call[c].index] = 0]
    /\ Return(c)
    /\ UNCHANGED <<socktype, server, client>>

-------------------------------------------------------------------------------
(*  cudaFreeHost  *)

(* The client names the entry by its place in its own table.               *)
cudaFreeHost(c) ==
    /\ At(c, "idle")
    /\ \E i \in 0 .. held_cnt[c] - 1 :
          /\ held[c][i].segment # 0
          /\ held' = [held EXCEPT ![c][i] = Cleared]
          /\ Goto(c, "free_host", i, 0)
    /\ UNCHANGED <<socktype, linked, server, held_cnt, copied>>

(* Over TCP the handler returns at once; the entry 0 is never given back.  *)
Freed(i) == socktype = "UNIX" /\ hainfo[i].idx # 0 /\ hainfo[i].idx = i

cuda_free_host(c) ==
    /\ At(c, "free_host")
    /\ hainfo' = IF Freed(call[c].index)
                 THEN [hainfo EXCEPT ![call[c].index] = Cleared]
                 ELSE hainfo
    /\ Return(c)
    /\ UNCHANGED <<socktype, linked, segments, hainfo_cnt, client>>

-------------------------------------------------------------------------------
(*  Copies from and to a segment  *)

(* Mutant: the place in the client's own table is sent, as ToSymbol does.   *)
Bug_LocalIndex(c) ==
    /\ At(c, "idle")
    /\ \E i \in 0 .. held_cnt[c] - 1 :
          /\ held[c][i].segment # 0
          /\ Goto(c, "memcpy", i, held[c][i].segment)
    /\ UNCHANGED <<socktype, linked, server, client>>

(* cudaMemcpy sends the index that the server gave ...                     *)
cudaMemcpy(c) ==
    /\ At(c, "idle")
    /\ \E i \in 0 .. held_cnt[c] - 1 :
          /\ held[c][i].segment # 0
          /\ Goto(c, "memcpy", held[c][i].idx, held[c][i].segment)
    /\ UNCHANGED <<socktype, linked, server, client>>

(* ... and cudaMemcpyToSymbol the place in the client's own table.         *)
cudaMemcpyToSymbol(c) ==
    /\ At(c, "idle")
    /\ \E i \in 0 .. held_cnt[c] - 1 :
          /\ held[c][i].segment # 0
          /\ Goto(c, "to_symbol", i, held[c][i].segment)
    /\ UNCHANGED <<socktype, linked, server, client>>

(* The segment a copy uses, 0 if the server refuses the index.             *)
UsedSegment(i) ==
    IF i >= hainfo_cnt \/ hainfo[i].idx # i THEN 0 ELSE hainfo[i].segment

cuda_memcpy_shm(c) ==
    /\ At(c, "memcpy")
    /\ copied' = [copied EXCEPT ![c] = [meant |-> call[c].meant,
                                        used |-> UsedSegment(call[c].index)]]
    /\ Return(c)
    /\ UNCHANGED <<socktype, linked, server, held, held_cnt>>

(* The same handler, reached through cuda_memcpy_to_symbol_shm_1_svc; what *)
(* it moves is not compared, see the README.                               *)
cuda_memcpy_to_symbol_shm(c) ==
    /\ At(c, "to_symbol")
    /\ Return(c)
    /\ UNCHANGED <<socktype, linked, server, client>>

-------------------------------------------------------------------------------
(* The process ends, and another one may start.                            *)
client_exits(c) ==
    /\ held' = [held EXCEPT ![c] = [i \in Index |-> Cleared]]
    /\ held_cnt' = [held_cnt EXCEPT ![c] = 0]
    /\ copied' = [copied EXCEPT ![c] = [meant |-> 0, used |-> 0]]
    /\ Return(c)
    /\ UNCHANGED <<socktype, linked, server>>

Next ==
    \E c \in Clients :
        \/ cudaHostAlloc(c)
        \/ cuda_host_alloc(c)
        \/ host_alloc_registration_fails(c)
        \/ host_alloc_ftruncate_fails(c)
        \/ host_alloc_open_fails(c)
        \/ client_maps(c)
        \/ client_shm_open_fails(c)
        \/ client_mmap_fails(c)
        \/ cuda_host_alloc_regshm(c)
        \/ regshm_fails(c)
        \/ client_unlinks(c)
        \/ cudaFreeHost(c)
        \/ cuda_free_host(c)
        \/ cudaMemcpy(c)
        \/ cudaMemcpyToSymbol(c)
        \/ cuda_memcpy_shm(c)
        \/ cuda_memcpy_to_symbol_shm(c)
        \/ client_exits(c)

Spec == Init /\ [][Next]_vars

-------------------------------------------------------------------------------
(*  Properties  *)

Places == {"idle", "host_alloc", "open", "regshm", "unlink", "free_host", "memcpy", "to_symbol"}

(* Every index that is sent in a call is one of an entry, whatever failed  *)
(* before.  The counters end where the tables do because the model does:   *)
(* nothing in the code compares them with the 64 entries there are.        *)
TypeOK ==
    /\ socktype \in {"TCP", "UNIX"}
    /\ segments \in 0 .. MaxSegments
    /\ linked \in [Index -> 0 .. MaxSegments]
    /\ hainfo \in [Index -> Entry]
    /\ hainfo_cnt \in 0 .. Slots
    /\ held \in [Clients -> [Index -> Entry]]
    /\ held_cnt \in [Clients -> 0 .. Slots]
    /\ call \in [Clients -> [at : Places, index : Index, meant : 0 .. MaxSegments]]
    /\ copied \in [Clients -> [meant : 0 .. MaxSegments, used : 0 .. MaxSegments]]

Live(c, i) == held[c][i].segment # 0

(* No two allocations in use, of one client or of two, are the same        *)
(* memory: a name that an allocation left behind, on a failure or because  *)
(* its client was killed, is never opened for another allocation that      *)
(* lives beside it (cuda_host_alloc_1_svc, cudaHostAlloc).                 *)
AllocationsAreApart ==
    \A c, d \in Clients : \A i, j \in Index :
        Live(c, i) /\ Live(d, j) /\ held[c][i].segment = held[d][j].segment
            => c = d /\ i = j

(* The server's entry under a client's index maps the client's segment.    *)
(* Over UNIX it may also be gone, for another client can have freed it.    *)
EntriesLead ==
    \A c \in Clients : \A i \in Index :
        Live(c, i) =>
            \/ hainfo[held[c][i].idx] = held[c][i]
            \/ socktype = "UNIX" /\ hainfo[held[c][i].idx] = Cleared

(* cudaMemcpy with memory of cudaHostAlloc moves the caller's own bytes,   *)
(* whatever other clients allocate, free or leave behind meanwhile.  Over  *)
(* TCP it is never refused; over UNIX the check of cuda_memcpy_shm_1_svc   *)
(* refuses the copy when another client freed the entry.                   *)
CopiesOwnMemory ==
    \A c \in Clients :
        \/ copied[c].used = copied[c].meant
        \/ socktype = "UNIX" /\ copied[c].used = 0

===============================================================================
