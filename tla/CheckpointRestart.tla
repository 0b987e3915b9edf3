-------------------------- MODULE CheckpointRestart ---------------------------
(***************************************************************************)
(* Checkpoint and restart of the device memory of one client: the RPC      *)
(* server (cpu-server-runtime.c) records every call, a checkpoint (cr.c)   *)
(* writes the records and the memory of every cudaMalloc record to files,  *)
(* a restarted server replays the records from the files and translates    *)
(* the pointers of the client, which was itself restored by CRIU.          *)
(*                                                                         *)
(* The server is single-threaded: an RPC handler is one step.  The         *)
(* contents of a block is one value.                                       *)
(***************************************************************************)
EXTENDS Integers, Sequences, FiniteSets, SequencesExt

CONSTANTS
  Addr,         \* device addresses: numbers, for ranges and for the bisection
  Sizes,        \* the sizes a client asks for
  Values,       \* what a client writes into a block
  Undefined,    \* the contents of memory nobody has written
  Stores,       \* how the client changes memory: a subset of StoreKinds
  Placement,    \* where cudaMalloc puts a block: "lowest", "fresh" or "any"
  Faults,       \* what may go wrong: a subset of FaultKinds
  MaxRecords,   \* bound on the calls recorded by a serving server
  MaxCheckpoints, MaxRestarts, MaxFaults  \* bounds on these events

FaultKinds == {"crash", "write", "open", "memory"}

(* skipped: calls whose records the replay passes over (cudaMemcpy,        *)
(* cudaMemset, kernel launches); replayed: calls that it repeats           *)
(* (cudaMemset3D and the other variants of cudaMemset, cuBLAS); shared:    *)
(* copies through shared memory, parallel: copies over several             *)
(* connections, which it repeats without the client's bytes.               *)
StoreKinds == {"skipped", "replayed", "shared", "parallel"}

ASSUME AddressesAreNumbers == Addr \subseteq Nat \ {0}
ASSUME SizesArePositive == Sizes \subseteq Nat \ {0}
ASSUME UndefinedIsNotAValue == Undefined \notin Values
ASSUME StoresAreKnown == Stores \subseteq StoreKinds
ASSUME PlacementIsKnown == Placement \in {"lowest", "fresh", "any"}
ASSUME FaultsAreKnown == Faults \subseteq FaultKinds
ASSUME BoundsAreNumbers == MaxRecords \in Nat /\ MaxCheckpoints \in Nat
                           /\ MaxRestarts \in Nat /\ MaxFaults \in Nat

VARIABLES
  mode,          \* what the server does: serving, dumping, down, restoring,
                 \* or joining a thread that does not end
  pos,           \* the record the loop of a dump or a restore has come to
  bypass,        \* rm_memory's bypass: TRUE in a server that restored nothing
  map_res,       \* rm_memory's translations, sorted by client address
  new_res,       \* rm_memory's addresses allocated in this run
  api_records,   \* the recorder's list
  dev,           \* the live blocks of the device, by address
  file_records,  \* ckp/api_records
  file_mem,      \* the files ckp/mem-0x<address>
  missed,        \* addresses whose file this dump could not open last time
  client,        \* the blocks the client holds, by its pointers to them
  saved,         \* the client's side at the last checkpoint reported done
  checkpoint,    \* how good the files are: see CheckpointStates
  faithful,      \* this server started afresh or from a complete checkpoint
  used           \* how much of the bounds has been used

memVars == <<map_res, new_res, dev>>
fileVars == <<file_records, file_mem, missed>>
ghosts == <<saved, checkpoint, faithful>>
vars == <<mode, pos, bypass, memVars, api_records, fileVars, client, ghosts, used>>

Block == [size : Sizes, data : Values \cup {Undefined}]
Calls == {"malloc", "free", "memset", "memcpy_shm", "memcpy_mt_htod",
          "memcpy_mt_sync"}
Record == [fn : Calls, ptr : Addr, size : Sizes, err : BOOLEAN,
           data : Values \cup {Undefined}]
Translation == [client : Addr, cuda : Addr, size : Sizes]

(* none: no checkpoint yet; writing: its files are being replaced (or were *)
(* when the server died); damaged: something has gone wrong; complete and  *)
(* doubtful: reported as created, doubtful although a file was missed or   *)
(* the server or its records were none that a restart can rely on.         *)
CheckpointStates == {"none", "writing", "damaged", "doubtful", "complete"}

(* The server has said "checkpoint successfully created" of the files.     *)
Reported == checkpoint \in {"doubtful", "complete"}

With(f, a, b) == [x \in DOMAIN f \cup {a} |-> IF x = a THEN b ELSE f[x]]
Without(f, a) == [x \in DOMAIN f \ {a} |-> f[x]]
NoBlocks == [a \in {} |-> 0]

SpendFault == used' = [used EXCEPT !.faults = @ + 1]
MayFail(kind) == kind \in Faults /\ used.faults < MaxFaults

Init ==
  /\ mode = "serving" /\ pos = 1
  /\ bypass = TRUE /\ map_res = <<>> /\ new_res = {}
  /\ api_records = <<>> /\ dev = NoBlocks
  /\ file_records = <<>> /\ file_mem = NoBlocks /\ missed = {}
  /\ client = NoBlocks /\ saved = NoBlocks
  /\ checkpoint = "none" /\ faithful = TRUE
  /\ used = [checkpoints |-> 0, restarts |-> 0, faults |-> 0]

------------------------------------------------------------------------------
(* The CUDA driver, as far as the server's code relies on it.              *)

Cells(a, size) == a .. a + size - 1
Room(size) ==
  {a \in Addr : /\ Cells(a, size) \subseteq Addr
                /\ \A b \in DOMAIN dev :
                     Cells(a, size) \cap Cells(b, dev[b].size) = {}}

(* An address that no restored block of the client has.                    *)
Unshadowed(size) ==
  {a \in Addr : \A i \in 1 .. Len(map_res) :
     Cells(a, size) \cap Cells(map_res[i].client, map_res[i].size) = {}}

(* lowest: a deterministic driver; any: nothing is known of it; fresh: it  *)
(* never hands a client an address that a restored block goes by.          *)
Places(size) ==
  {a \in Room(size) :
     /\ Placement = "lowest" => \A b \in Room(size) : a <= b
     /\ Placement = "fresh" /\ mode = "serving" => a \in Unshadowed(size)}

(* The live block that holds size cells from p on.                         *)
Around(p, size) ==
  {b \in DOMAIN dev : b <= p /\ p + size <= b + dev[b].size}

(* cudaFree refuses a pointer that is not the start of a live block.       *)
CudaFree(p) == dev' = Without(dev, p)

------------------------------------------------------------------------------
(* The memory manager: memory_mg_get and memory_mg_add_sorted as one step  *)
(* each (MemoryMg has their loops).                                        *)

Covers(e, a) == a = e.client \/ (e.client < a /\ a < e.client + e.size)

Bisect(m, a) ==
  LET look[w \in (0 .. Len(m)) \X (-1 .. Len(m) - 1)] ==
        LET mid == w[1] + (w[2] - w[1]) \div 2
            e == m[mid + 1]
        IN  IF w[2] < w[1] THEN a
            ELSE IF e.client > a THEN IF mid = 0 THEN a ELSE look[<<w[1], mid - 1>>]
            ELSE IF Covers(e, a) THEN e.cuda + (a - e.client)
            ELSE look[<<mid + 1, w[2]>>]
  IN  look[<<0, Len(m) - 1>>]

Bug_NeverTranslate(a) == a
memory_mg_get(a) == IF bypass THEN a ELSE Bisect(map_res, a)

Below(a) == Cardinality({i \in 1 .. Len(map_res) : map_res[i].client < a})

(* A block already present keeps its size.                                 *)
Bug_KeepFirst(a, p, size) ==
  IF \E i \in 1 .. Len(map_res) : map_res[i].client = a
  THEN UNCHANGED map_res
  ELSE map_res' = InsertAt(map_res, Below(a) + 1,
                           [client |-> a, cuda |-> p, size |-> size])
memory_mg_add_sorted(a, p, size) ==
  IF \E i \in 1 .. Len(map_res) : map_res[i].client = a
  THEN map_res' = [i \in 1 .. Len(map_res) |->
                     IF map_res[i].client = a THEN [map_res[i] EXCEPT !.cuda = p]
                                              ELSE map_res[i]]
  ELSE map_res' = InsertAt(map_res, Below(a) + 1,
                           [client |-> a, cuda |-> p, size |-> size])

------------------------------------------------------------------------------
(* The RPC handlers. *)

Recorded(fn, ptr, size, err, data) ==
  Append(api_records, [fn |-> fn, ptr |-> ptr, size |-> size, err |-> err,
                       data |-> data])

Serving == mode = "serving" /\ Len(api_records) < MaxRecords

(* cuda_malloc_1_svc: the client gets the address the driver returned.     *)
cuda_malloc(size) ==
  /\ Serving
  /\ \E p \in Places(size) :
       /\ dev' = With(dev, p, [size |-> size, data |-> Undefined])
       /\ client' = With(client, p, [size |-> size, data |-> Undefined])
       /\ new_res' = new_res \cup {p}
       /\ api_records' = Recorded("malloc", p, size, FALSE, Undefined)
  /\ UNCHANGED <<mode, pos, bypass, map_res, fileVars, ghosts, used>>

(* cudaMalloc fails: the call is recorded all the same, with whatever the  *)
(* result's pointer field held, and that enters new_res.                   *)
cuda_malloc_fails(size) ==
  /\ Serving /\ MayFail("memory")
  /\ Room(size) = {}
  /\ \E garbage \in Addr :
       /\ api_records' = Recorded("malloc", garbage, size, TRUE, Undefined)
       /\ new_res' = new_res \cup {garbage}
  /\ SpendFault
  /\ UNCHANGED <<mode, pos, bypass, map_res, dev, fileVars, client, ghosts>>

Bug_FreeNotRecorded(a) ==
  /\ Serving
  /\ CudaFree(memory_mg_get(a))
  /\ client' = Without(client, a)
  /\ UNCHANGED <<mode, pos, bypass, map_res, new_res, api_records, fileVars,
                 ghosts, used>>

Bug_FreeUntranslated(a) ==
  /\ Serving
  /\ CudaFree(a)
  /\ client' = Without(client, a)
  /\ api_records' = Recorded("free", a, client[a].size, FALSE, Undefined)
  /\ UNCHANGED <<mode, pos, bypass, map_res, new_res, fileVars, ghosts, used>>

(* cuda_free_1_svc: the malloc's record and the translation stay.  Nobody  *)
(* looks at the result recorded for a free, so its err is left FALSE.      *)
cuda_free(a) ==
  /\ Serving
  /\ CudaFree(memory_mg_get(a))
  /\ client' = Without(client, a)
  /\ api_records' = Recorded("free", a, client[a].size, FALSE, Undefined)
  /\ UNCHANGED <<mode, pos, bypass, map_res, new_res, fileVars, ghosts, used>>

(* What a store of v makes of size cells of the device from p on, and from *)
(* the client's pointer a on.                                              *)
Filled(p, size, v) ==
  [b \in DOMAIN dev |-> IF b \in Around(p, size) THEN [dev[b] EXCEPT !.data = v]
                                                ELSE dev[b]]
Stored(a, size, v) == Filled(memory_mg_get(a), size, v)

Wrote(a, v) == client' = [client EXCEPT ![a].data = v]
Store(a, v) == dev' = Stored(a, client[a].size, v) /\ Wrote(a, v)

(* cudaMemcpy to or on the device, cudaMemset or a kernel gives a block    *)
(* new contents.  cr_restore_resources passes over the records of these    *)
(* calls (CUDA_MEMCPY_HTOD and _DTOD, CUDA_MEMSET, CUDA_LAUNCH_KERNEL and  *)
(* _COOPERATIVE_KERNEL), so they are left out.                             *)
cuda_memcpy_htod(a, v) ==
  /\ mode = "serving" /\ "skipped" \in Stores
  /\ Store(a, v)
  /\ UNCHANGED <<mode, pos, bypass, map_res, new_res, api_records, fileVars,
                 ghosts, used>>

(* cudaMemset3D does the same, and is replayed; so are the other variants  *)
(* of cudaMemset and the operations of cuBLAS.                             *)
cuda_memset_3d(a, v) ==
  /\ Serving /\ "replayed" \in Stores
  /\ Store(a, v)
  /\ api_records' = Recorded("memset", a, client[a].size, FALSE, v)
  /\ UNCHANGED <<mode, pos, bypass, map_res, new_res, fileVars, ghosts, used>>

(* A copy from memory shared with the client.  In a restored server the    *)
(* segment of an older cudaHostAlloc is a new one, that nobody has written *)
(* to, and the copy succeeds.                                              *)
cuda_memcpy_shm(a, v) ==
  /\ Serving /\ "shared" \in Stores
  /\ Wrote(a, v)
  /\ \/ dev' = Stored(a, client[a].size, v)
     \/ ~ bypass /\ dev' = Stored(a, client[a].size, Undefined)
  /\ api_records' = Recorded("memcpy_shm", a, client[a].size, FALSE, v)
  /\ UNCHANGED <<mode, pos, bypass, map_res, new_res, fileVars, ghosts, used>>

(* A copy over several connections, from CUDA_MEMCPY_MT_HTOD to its        *)
(* CUDA_MEMCPY_MT_SYNC (MtMemcpy has what happens between them); one to    *)
(* the host has two records as well.                                       *)
cuda_memcpy_mt(a, v) ==
  LET call(fn) == [fn |-> fn, ptr |-> a, size |-> client[a].size, err |-> FALSE,
                   data |-> v]
  IN  /\ Serving /\ Len(api_records) + 1 < MaxRecords /\ "parallel" \in Stores
      /\ Store(a, v)
      /\ api_records' = api_records \o <<call("memcpy_mt_htod"), call("memcpy_mt_sync")>>
      /\ UNCHANGED <<mode, pos, bypass, map_res, new_res, fileVars, ghosts, used>>

------------------------------------------------------------------------------
(* cricket_server_checkpoint: the files are rewritten in place, first the  *)
(* records, then the memory, one cudaMalloc record after another.          *)

(* Whether a restart may rely on what this server is going to write.       *)
Reliable == faithful /\ \A i \in 1 .. Len(api_records) :
                          api_records[i].fn = "malloc" => ~ api_records[i].err

(* cr_dump writes all records.                                             *)
cr_dump ==
  /\ mode = "serving" /\ used.checkpoints < MaxCheckpoints
  /\ file_records' = api_records /\ missed' = {}
  /\ mode' = "dumping" /\ pos' = 1
  /\ checkpoint' = IF Reliable THEN "writing" ELSE "damaged"
  /\ used' = [used EXCEPT !.checkpoints = @ + 1]
  /\ UNCHANGED <<bypass, memVars, api_records, file_mem, client, saved,
                 faithful>>

(* cr_dump fails part-way: the checkpoint is reported as failed, and the   *)
(* old records are gone; a crash here leaves the same files.               *)
cr_dump_fails ==
  /\ mode = "serving" /\ MayFail("write")
  /\ \E n \in 0 .. Len(api_records) : file_records' = SubSeq(api_records, 1, n)
  /\ checkpoint' = "damaged"
  /\ SpendFault
  /\ UNCHANGED <<mode, pos, bypass, memVars, api_records, file_mem, missed,
                 client, saved, faithful>>

Dumping == mode = "dumping" /\ pos <= Len(api_records)
AtMalloc == Dumping /\ api_records[pos].fn = "malloc"
Current == api_records[pos]

(* What cudaMemcpy reads from where the record says the block is: the      *)
(* pointer is not translated.                                              *)
Readable == Around(Current.ptr, Current.size)

dump_skips_record ==
  /\ Dumping /\ Current.fn # "malloc"
  /\ pos' = pos + 1
  /\ UNCHANGED <<mode, bypass, memVars, api_records, fileVars, client, ghosts, used>>

(* cr_dump_memory_entry: an older file of that address is overwritten.     *)
Bug_FirstFileStays ==
  /\ AtMalloc
  /\ \E b \in Readable :
       file_mem' = IF Current.ptr \in DOMAIN file_mem THEN file_mem
                   ELSE With(file_mem, Current.ptr,
                             [size |-> Current.size, data |-> dev[b].data])
  /\ pos' = pos + 1
  /\ UNCHANGED <<mode, bypass, memVars, api_records, file_records, missed,
                 client, ghosts, used>>

Bug_SkipLastRecord ==
  /\ AtMalloc
  /\ \E b \in Readable :
       file_mem' = IF pos = Len(api_records) THEN file_mem
                   ELSE With(file_mem, Current.ptr,
                             [size |-> Current.size, data |-> dev[b].data])
  /\ pos' = pos + 1
  /\ UNCHANGED <<mode, bypass, memVars, api_records, file_records, missed,
                 client, ghosts, used>>

cr_dump_memory_entry ==
  /\ AtMalloc
  /\ \E b \in Readable :
       file_mem' = With(file_mem, Current.ptr,
                        [size |-> Current.size, data |-> dev[b].data])
  /\ missed' = missed \ {Current.ptr}
  /\ pos' = pos + 1
  /\ UNCHANGED <<mode, bypass, memVars, api_records, file_records, client,
                 ghosts, used>>

(* cudaMemcpy fails, as it does on freed memory: no error is passed on.    *)
dump_entry_unreadable ==
  /\ AtMalloc /\ Readable = {}
  /\ pos' = pos + 1
  /\ UNCHANGED <<mode, bypass, memVars, api_records, fileVars, client, ghosts, used>>

Bug_UnopenedEndsDump ==
  /\ AtMalloc /\ Readable # {} /\ MayFail("open")
  /\ missed' = missed \cup {Current.ptr}
  /\ pos' = Len(api_records) + 1
  /\ checkpoint' = "damaged"
  /\ SpendFault
  /\ UNCHANGED <<mode, bypass, memVars, api_records, file_records, file_mem,
                 client, saved, faithful>>

(* fopen fails: no error is passed on either.  An older file of that       *)
(* address stays.                                                          *)
dump_entry_unopened ==
  /\ AtMalloc /\ Readable # {} /\ MayFail("open")
  /\ missed' = missed \cup {Current.ptr}
  /\ pos' = pos + 1
  /\ checkpoint' = "damaged"
  /\ SpendFault
  /\ UNCHANGED <<mode, bypass, memVars, api_records, file_records, file_mem,
                 client, saved, faithful>>

(* fwrite fails: the one error that is passed on.  The file is too short.  *)
dump_entry_fails ==
  /\ AtMalloc /\ Readable # {} /\ MayFail("write")
  /\ file_mem' = With(file_mem, Current.ptr, [size |-> 0, data |-> Undefined])
  /\ checkpoint' = "damaged"
  /\ mode' = "serving"
  /\ SpendFault
  /\ UNCHANGED <<pos, bypass, memVars, api_records, file_records, missed, client,
                 saved, faithful>>

(* "checkpoint successfully created."  The client is dumped by CRIU.       *)
checkpoint_created ==
  /\ mode = "dumping" /\ pos > Len(api_records)
  /\ mode' = "serving"
  /\ saved' = client
  /\ checkpoint' = IF checkpoint = "writing" THEN "complete" ELSE "doubtful"
  /\ UNCHANGED <<pos, bypass, memVars, api_records, fileVars, client, faithful,
                 used>>

------------------------------------------------------------------------------
(* The server process ends; the files stay, the memory of the device does  *)
(* not.  It is told to (SIGINT, or SIGUSR2 after a checkpoint) while it    *)
(* serves; a crash also strikes in the middle of a dump or a restore.      *)
Stop ==
  /\ mode' = "down"
  /\ dev' = NoBlocks /\ api_records' = <<>> /\ map_res' = <<>> /\ new_res' = {}
  /\ client' = NoBlocks
  /\ UNCHANGED <<pos, bypass, fileVars, saved, checkpoint, faithful>>

svc_exit == mode = "serving" /\ Stop /\ UNCHANGED used

Crash ==
  /\ mode # "down" /\ MayFail("crash")
  /\ Stop /\ SpendFault

Bug_ResumeAtPos ==
  /\ mode = "down" /\ checkpoint # "none" /\ used.restarts < MaxRestarts
  /\ mode' = "restoring" /\ UNCHANGED pos
  /\ bypass' = FALSE
  /\ client' = saved
  /\ faithful' = (checkpoint = "complete")
  /\ used' = [used EXCEPT !.restarts = @ + 1]
  /\ UNCHANGED <<memVars, api_records, fileVars, saved, checkpoint>>

(* CRICKET_RESTORE=yes: the managers start empty, without bypass.  The     *)
(* client's image is the one made at the last checkpoint.                  *)
server_runtime_restore ==
  /\ mode = "down" /\ checkpoint # "none" /\ used.restarts < MaxRestarts
  /\ mode' = "restoring" /\ pos' = 1
  /\ bypass' = FALSE
  /\ client' = saved
  /\ faithful' = (checkpoint = "complete")
  /\ used' = [used EXCEPT !.restarts = @ + 1]
  /\ UNCHANGED <<memVars, api_records, fileVars, saved, checkpoint>>

Restoring == mode = "restoring" /\ pos <= Len(file_records)
Replayed == file_records[pos]
HasFile == Replayed.ptr \in DOMAIN file_mem
ShortFile == HasFile /\ file_mem[Replayed.ptr].size < Replayed.size

Contents == IF HasFile THEN file_mem[Replayed.ptr].data ELSE Undefined

Keep == api_records' = Append(api_records, Replayed)

GiveUp ==
  /\ mode' = "serving"
  /\ faithful' = FALSE
  /\ UNCHANGED pos

GoOn ==
  /\ pos' = pos + 1
  /\ UNCHANGED <<mode, faithful>>

(* cr_restore_memory: a new block for the record, under its old pointer.   *)
cr_restore_memory ==
  /\ Restoring /\ Replayed.fn = "malloc" /\ ~ ShortFile
  /\ \E p \in Places(Replayed.size) :
       /\ dev' = With(dev, p, [size |-> Replayed.size, data |-> Contents])
       /\ memory_mg_add_sorted(Replayed.ptr, p, Replayed.size)
  /\ Keep /\ GoOn
  /\ UNCHANGED <<bypass, new_res, fileVars, client, saved, checkpoint, used>>

(* The file is shorter than the record's size: the result is whatever the  *)
(* variable ret held, and nothing has been allocated.                      *)
restore_short_file ==
  /\ Restoring /\ Replayed.fn = "malloc" /\ ShortFile
  /\ Keep
  /\ GoOn \/ GiveUp
  /\ UNCHANGED <<bypass, memVars, fileVars, client, saved, checkpoint, used>>

(* cudaMalloc fails: cr_restore gives up.                                  *)
restore_out_of_memory ==
  /\ Restoring /\ Replayed.fn = "malloc" /\ ~ ShortFile
  /\ Room(Replayed.size) = {}
  /\ Keep /\ GiveUp
  /\ UNCHANGED <<bypass, memVars, fileVars, client, saved, checkpoint, used>>

Bug_FreeNotReplayed ==
  /\ Restoring /\ Replayed.fn # "malloc"
  /\ Keep /\ GoOn
  /\ UNCHANGED <<bypass, map_res, new_res, dev, fileVars, client, saved,
                 checkpoint, used>>

(* cr_call_record runs the handler of the call again, which records it a   *)
(* second time.  A copy from shared memory reads a new segment or is       *)
(* refused; one over several connections waits for a client that does not  *)
(* come, or, without a number of its own, for nobody.                      *)
cr_call_record ==
  /\ Restoring
  /\ \/ Replayed.fn = "free" /\ CudaFree(memory_mg_get(Replayed.ptr))
     \/ /\ Replayed.fn = "memset"
        /\ dev' = Stored(Replayed.ptr, Replayed.size, Replayed.data)
     \/ /\ Replayed.fn = "memcpy_shm"
        /\ dev' \in {dev, Stored(Replayed.ptr, Replayed.size, Undefined)}
     \/ Replayed.fn \in {"memcpy_mt_htod", "memcpy_mt_sync"} /\ UNCHANGED dev
  /\ api_records' = api_records \o <<Replayed, Replayed>>
  /\ GoOn
  /\ UNCHANGED <<bypass, map_res, new_res, fileVars, client, saved, checkpoint,
                 used>>

(* The number of the transfer to wait for is not recorded.  If what the    *)
(* replay passes in its place is that of a replayed copy, the server joins *)
(* a thread that waits for the connections of that copy's client.          *)
replayed_sync_waits ==
  /\ Restoring /\ Replayed.fn = "memcpy_mt_sync"
  /\ \E i \in 1 .. pos - 1 : file_records[i].fn = "memcpy_mt_htod"
  /\ mode' = "joining"
  /\ UNCHANGED <<pos, bypass, memVars, api_records, fileVars, client, ghosts, used>>

Bug_MissedEnd ==
  /\ mode = "restoring" /\ pos > Len(file_records) + 1
  /\ mode' = "serving"
  /\ UNCHANGED <<pos, bypass, memVars, api_records, fileVars, client, ghosts, used>>

restore_complete ==
  /\ mode = "restoring" /\ pos > Len(file_records)
  /\ mode' = "serving"
  /\ UNCHANGED <<pos, bypass, memVars, api_records, fileVars, client, ghosts, used>>

------------------------------------------------------------------------------
Handler ==
  \/ \E size \in Sizes : cuda_malloc(size) \/ cuda_malloc_fails(size)
  \/ \E a \in DOMAIN client : cuda_free(a)
  \/ \E a \in DOMAIN client, v \in Values :
       \/ cuda_memcpy_htod(a, v) \/ cuda_memset_3d(a, v)
       \/ cuda_memcpy_shm(a, v) \/ cuda_memcpy_mt(a, v)

DumpStep ==
  \/ dump_skips_record \/ cr_dump_memory_entry \/ dump_entry_unreadable
  \/ dump_entry_unopened \/ dump_entry_fails \/ checkpoint_created

RestoreStep ==
  \/ cr_restore_memory \/ restore_short_file \/ restore_out_of_memory
  \/ cr_call_record \/ replayed_sync_waits \/ restore_complete

Next ==
  \/ Handler
  \/ cr_dump \/ cr_dump_fails \/ DumpStep
  \/ svc_exit \/ Crash
  \/ server_runtime_restore \/ RestoreStep

Spec == Init /\ [][Next]_vars

(* The loops of a dump and of a restore run without waiting for anybody.   *)
(* Nothing is asked of the client, of operators or of faults.              *)
FairSpec == Spec /\ WF_vars(DumpStep) /\ WF_vars(RestoreStep)

------------------------------------------------------------------------------
Map(S) == UNION {[D -> S] : D \in SUBSET Addr}

(* The type invariant; the dump's position stays in the records it dumps.  *)
TypeOK ==
  /\ mode \in {"serving", "dumping", "down", "restoring", "joining"}
  /\ bypass \in BOOLEAN /\ faithful \in BOOLEAN
  /\ checkpoint \in CheckpointStates
  /\ map_res \in Seq(Translation) /\ new_res \subseteq Addr
  /\ api_records \in Seq(Record) /\ file_records \in Seq(Record)
  /\ dev \in Map(Block) /\ client \in Map(Block) /\ saved \in Map(Block)
  /\ file_mem \in Map(Block \cup [size : {0}, data : {Undefined}])
  /\ missed \subseteq Addr
  /\ used \in [checkpoints : Nat, restarts : Nat, faults : Nat]
  /\ pos \in Nat \ {0}
  /\ mode = "dumping" => pos <= Len(api_records) + 1
  /\ mode = "restoring" => pos <= Len(file_records) + 1

Settled == mode = "serving" /\ faithful

(* In a server that started afresh or was restored from a complete         *)
(* checkpoint, every pointer the client holds leads to a live block of the *)
(* size it asked for with the contents it wrote, whatever was checkpointed,*)
(* freed, reused and replayed on the way.                                  *)
ClientSeesItsMemory ==
  Settled => \A a \in DOMAIN client :
    LET p == memory_mg_get(a)
    IN  /\ p \in DOMAIN dev
        /\ dev[p].size = client[a].size
        /\ client[a].data \in {Undefined, dev[p].data}

(* Every live block of the device belongs to exactly one of the client's   *)
(* pointers: the replay leaves no block behind that nobody can free, and   *)
(* no two pointers name one block.                                         *)
NoBlockIsLost ==
  Settled => /\ DOMAIN dev = {memory_mg_get(a) : a \in DOMAIN client}
             /\ Cardinality(DOMAIN dev) = Cardinality(DOMAIN client)

(* The recorder's list says what the client holds, though frees never      *)
(* cancel mallocs in it and every restart doubles the frees.               *)
LastOn(a) == LET on == {i \in 1 .. Len(api_records) :
                          api_records[i].ptr = a
                          /\ api_records[i].fn \in {"malloc", "free"}
                          /\ (api_records[i].fn = "malloc" => ~ api_records[i].err)}
             IN  {i \in on : \A j \in on : j <= i}
Holds(a) == \E i \in LastOn(a) : api_records[i].fn = "malloc"
RecordsTellWhatIsHeld ==
  Settled => \A a \in Addr : Holds(a) <=> a \in DOMAIN client

(* A checkpoint that was reported as created, of a server and with records *)
(* a restart can rely on and with no file missed, has for every block of   *)
(* the client's image a file of its size with its contents.                *)
ImageIsOnDisk ==
  \A a \in DOMAIN saved :
    /\ a \in DOMAIN file_mem
    /\ file_mem[a].size = saved[a].size
    /\ saved[a].data \in {Undefined, file_mem[a].data}
CheckpointCovers == checkpoint = "complete" => ImageIsOnDisk

(* The address cudaMalloc returned in this run reaches the block that was  *)
(* allocated there (resource-mg.h:28-29).                                  *)
ActualAddressesPassThrough ==
  Settled => \A a \in new_res \cap DOMAIN client \cap DOMAIN dev :
               memory_mg_get(a) = a

(* The pointers recorded for cudaMallocs that failed.                      *)
Garbled ==
  {file_records[i].ptr : i \in {j \in 1 .. Len(file_records) :
     file_records[j].fn = "malloc" /\ file_records[j].err}}

(* Of a server that has not restored anything, a checkpoint reported as    *)
(* created has the client's blocks on disk, all but those whose own file   *)
(* could not be opened: with any placement by the driver, with sizes that  *)
(* differ, addresses that are reused and any stores.  The garbage recorded *)
(* for a cudaMalloc that failed can shorten a block's file, never give it  *)
(* other contents (cr_dump_memory, cpu-server.c:94-95).                    *)
FirstCheckpointCovers ==
  bypass /\ Reported => \A a \in DOMAIN saved \ missed :
    /\ a \in DOMAIN file_mem
    /\ file_mem[a].size = saved[a].size \/ a \in Garbled
    /\ saved[a].data \in {Undefined, file_mem[a].data}

(* What a client finds in its block at a, if it has written it.            *)
Found(a) ==
  LET p == memory_mg_get(a)
      data == IF client[a].data = Undefined THEN Undefined ELSE dev[p].data
  IN  IF p \in DOMAIN dev THEN [size |-> dev[p].size, data |-> data]
      ELSE [size |-> 0, data |-> Undefined]

Up == mode \in {"serving", "dumping"}
State == IF ~ Up THEN "down" ELSE IF faithful THEN "up" ELSE "lost"
Memory == IF State = "up" THEN [a \in DOMAIN client |-> Found(a)] ELSE NoBlocks
Image == IF checkpoint = "complete" THEN saved ELSE NoBlocks
Promise == INSTANCE ClientMemory WITH
  Pointers <- Addr, state <- State, memory <- Memory,
  good <- checkpoint = "complete", saved <- Image

(* The memory the client finds on the device, through translation, replay  *)
(* and reuse of addresses, is the memory ClientMemory promises: it changes *)
(* by the client's calls, one block at a time, and a restart gives back    *)
(* what was there at the last complete checkpoint (cr_restore,             *)
(* memory_mg_get).                                                         *)
ImplementsClientMemory == Promise!Spec

(* A restore ends, the server comes to serve or is stopped, unless the     *)
(* sync of a copy over several connections is among its records: then it   *)
(* may wait for ever (cr_call_record, mt_memcpy_sync_server).              *)
SyncRecorded == \E i \in 1 .. Len(file_records) : file_records[i].fn = "memcpy_mt_sync"
RestoreEnds ==
  (mode = "restoring" /\ ~ SyncRecorded) ~> (mode \in {"serving", "down"})
==============================================================================
