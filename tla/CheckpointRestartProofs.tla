----------------------- MODULE CheckpointRestartProofs ------------------------
(***************************************************************************)
(* Theorems about CheckpointRestart.  TypeCorrect and                      *)
(* FirstCheckpointAlwaysCovers hold for every set of addresses, sizes and  *)
(* values, every placement, every kind of fault and every bound; the       *)
(* theorems about restored servers at the end on the conditions of         *)
(* Regular, without which the findings in the README show they fail.       *)
(***************************************************************************)
EXTENDS CheckpointRestart, FiniteSetTheorems, SequenceTheorems,
        WellFoundedInduction, TLAPS

(* Type correctness. *)

LEMMA WithIsMap ==
  ASSUME NEW S, NEW f \in Map(S), NEW a \in Addr, NEW b \in S
  PROVE  With(f, a, b) \in Map(S)
<1>1. DOMAIN f \subseteq Addr /\ \A x \in DOMAIN f : f[x] \in S
  BY DEF Map
<1> DEFINE D == DOMAIN f \cup {a}
<1>2. With(f, a, b) \in [D -> S] /\ D \in SUBSET Addr
  BY <1>1 DEF With
<1> QED BY <1>2 DEF Map

LEMMA WithoutIsMap ==
  ASSUME NEW S, NEW f \in Map(S), NEW a
  PROVE  Without(f, a) \in Map(S)
<1>1. DOMAIN f \subseteq Addr /\ \A x \in DOMAIN f : f[x] \in S
  BY DEF Map
<1> DEFINE D == DOMAIN f \ {a}
<1>2. Without(f, a) \in [D -> S] /\ D \in SUBSET Addr
  BY <1>1 DEF Without
<1> QED BY <1>2 DEF Map

LEMMA NoBlocksIsMap == ASSUME NEW S PROVE NoBlocks \in Map(S)
<1>1. NoBlocks \in [{} -> S]
  BY DEF NoBlocks
<1> QED BY <1>1 DEF Map

LEMMA MapFacts ==
  ASSUME NEW S, NEW f \in Map(S)
  PROVE  DOMAIN f \subseteq Addr /\ \A x \in DOMAIN f : f[x] \in S
BY DEF Map

(* A map changed at places of its domain only. *)
LEMMA SameDomainIsMap ==
  ASSUME NEW S, NEW f \in Map(S), NEW g,
         g = [x \in DOMAIN f |-> g[x]], \A x \in DOMAIN f : g[x] \in S
  PROVE  g \in Map(S)
<1>1. DOMAIN f \in SUBSET Addr
  BY MapFacts
<1>2. g \in [DOMAIN f -> S]
  OBVIOUS
<1> QED BY <1>1, <1>2 DEF Map

(* memory_mg_add_sorted keeps a sequence of translations. *)
LEMMA AddSortedType ==
  ASSUME map_res \in Seq(Translation),
         NEW a \in Addr, NEW p \in Addr, NEW size \in Sizes,
         memory_mg_add_sorted(a, p, size)
  PROVE  map_res' \in Seq(Translation)
<1>1. Len(map_res) \in Nat /\ \A i \in 1 .. Len(map_res) : map_res[i] \in Translation
  OBVIOUS
<1>2. CASE \E i \in 1 .. Len(map_res) : map_res[i].client = a
  <2> DEFINE m(i) == IF map_res[i].client = a
                     THEN [map_res[i] EXCEPT !.cuda = p] ELSE map_res[i]
  <2>1. \A i \in 1 .. Len(map_res) : m(i) \in Translation
    BY <1>1 DEF Translation
  <2>2. map_res' = [i \in 1 .. Len(map_res) |-> m(i)]
    BY <1>2 DEF memory_mg_add_sorted
  <2> HIDE DEF m
  <2> QED BY <1>1, <2>1, <2>2
<1>3. CASE ~ \E i \in 1 .. Len(map_res) : map_res[i].client = a
  <2> DEFINE e == [client |-> a, cuda |-> p, size |-> size]
             B == {i \in 1 .. Len(map_res) : map_res[i].client < a}
  <2>1. IsFiniteSet(1 .. Len(map_res)) /\ Cardinality(1 .. Len(map_res)) = Len(map_res)
    BY <1>1, FS_Interval, SMTT(30)
  <2>2. Cardinality(B) \in 0 .. Len(map_res)
    <3>1. B \subseteq 1 .. Len(map_res)
      OBVIOUS
    <3> HIDE DEF B
    <3>2. IsFiniteSet(B) /\ Cardinality(B) <= Len(map_res)
      BY <2>1, <3>1, FS_Subset
    <3>3. Cardinality(B) \in Nat
      BY <3>2, FS_CardinalityType
    <3> QED BY <1>1, <3>2, <3>3
  <2>3. e \in Translation
    BY DEF Translation
  <2>4. map_res' = InsertAt(map_res, Cardinality(B) + 1, e)
    BY <1>3 DEF memory_mg_add_sorted, Below
  <2> HIDE DEF e, B
  <2>5. Cardinality(B) + 1 \in 1 .. Len(map_res) + 1
    BY <1>1, <2>2
  <2>6. InsertAt(map_res, Cardinality(B) + 1, e) \in Seq(Translation)
    BY <1>1, <2>3, <2>5 DEF InsertAt
  <2> QED BY <2>4, <2>6
<1> QED BY <1>2, <1>3

LEMMA NewDataType ==
  ASSUME NEW b \in Block, NEW v \in Values \cup {Undefined}
  PROVE  [b EXCEPT !.data = v] \in Block
BY DEF Block

LEMMA FilledType ==
  ASSUME dev \in Map(Block), NEW p, NEW size, NEW v \in Values \cup {Undefined}
  PROVE  Filled(p, size, v) \in Map(Block)
<1> DEFINE hit == Around(p, size)
           new == [b \in DOMAIN dev |->
                     IF b \in hit THEN [dev[b] EXCEPT !.data = v] ELSE dev[b]]
<1>1. Filled(p, size, v) = new
  BY DEF Filled
<1> HIDE DEF hit
<1>2. \A b \in DOMAIN dev : new[b] \in Block
  BY MapFacts, NewDataType
<1>3. new = [b \in DOMAIN dev |-> new[b]]
  OBVIOUS
<1> HIDE DEF new
<1> QED BY <1>1, <1>2, <1>3, SameDomainIsMap

LEMMA StoreType ==
  ASSUME dev \in Map(Block), client \in Map(Block), NEW a \in DOMAIN client,
         NEW v \in Values, Wrote(a, v), NEW p, NEW size,
         NEW d \in Values \cup {Undefined}, dev' = Filled(p, size, d)
  PROVE  dev' \in Map(Block) /\ client' \in Map(Block)
<1>1. dev' \in Map(Block)
  BY FilledType
<1>2. client' = [client EXCEPT ![a].data = v]
  BY DEF Wrote
<1>3. \A b \in DOMAIN client : client'[b] \in Block
  <2>1. client[a] \in Block /\ client'[a] = [client[a] EXCEPT !.data = v]
    BY <1>2, MapFacts
  <2>2. client'[a] \in Block
    BY <2>1, NewDataType
  <2> QED BY <1>2, <2>2, MapFacts
<1>4. client' = [b \in DOMAIN client |-> client'[b]]
  BY <1>2
<1> QED BY <1>1, <1>3, <1>4, SameDomainIsMap

UsedType == [checkpoints : Nat, restarts : Nat, faults : Nat]

LEMMA CountersType ==
  ASSUME used \in UsedType
  PROVE  /\ [used EXCEPT !.faults = @ + 1] \in UsedType
         /\ [used EXCEPT !.checkpoints = @ + 1] \in UsedType
         /\ [used EXCEPT !.restarts = @ + 1] \in UsedType
<1>1. /\ [used EXCEPT !.faults = @ + 1] \in UsedType
      /\ [used EXCEPT !.checkpoints = @ + 1] \in UsedType
  BY DEF UsedType
<1>2. [used EXCEPT !.restarts = @ + 1] \in UsedType
  BY DEF UsedType
<1> QED BY <1>1, <1>2

LEMMA TypeInit == Init => TypeOK
<1> SUFFICES ASSUME Init PROVE TypeOK
  OBVIOUS
<1>1. /\ NoBlocks \in Map(Block)
      /\ NoBlocks \in Map(Block \cup [size : {0}, data : {Undefined}])
  BY NoBlocksIsMap
<1>2. bypass \in BOOLEAN /\ faithful \in BOOLEAN
  BY Zenon DEF Init
<1>3. used \in [checkpoints : Nat, restarts : Nat, faults : Nat]
  BY DEF Init
<1>4. /\ map_res \in Seq(Translation) /\ new_res \subseteq Addr /\ missed \subseteq Addr
      /\ api_records \in Seq(Record) /\ file_records \in Seq(Record)
      /\ mode = "serving" /\ pos = 1 /\ checkpoint \in CheckpointStates
  BY DEF Init, CheckpointStates
<1>5. /\ dev = NoBlocks /\ client = NoBlocks /\ saved = NoBlocks
      /\ file_mem = NoBlocks
  BY DEF Init
<1> QED BY <1>1, <1>2, <1>3, <1>4, <1>5 DEF TypeOK

(* What the fields of the records in the two lists are.                    *)
LEMMA CurrentType ==
  ASSUME TypeOK, Dumping
  PROVE  /\ Current \in Record /\ Current.ptr \in Addr /\ Current.size \in Sizes
         /\ pos + 1 \in Nat \ {0} /\ pos + 1 <= Len(api_records) + 1
<1>1. pos \in 1 .. Len(api_records) /\ Len(api_records) \in Nat
  BY DEF TypeOK, Dumping
<1>2. Current \in Record
  BY <1>1 DEF TypeOK, Current
<1> QED BY <1>1, <1>2 DEF Record

LEMMA ReplayedType ==
  ASSUME TypeOK, Restoring
  PROVE  /\ Replayed \in Record /\ Replayed.ptr \in Addr /\ Replayed.size \in Sizes
         /\ Replayed.data \in Values \cup {Undefined}
         /\ pos + 1 \in Nat \ {0} /\ pos + 1 <= Len(file_records) + 1
<1>1. pos \in 1 .. Len(file_records) /\ Len(file_records) \in Nat
  BY DEF TypeOK, Restoring
<1>2. Replayed \in Record
  BY <1>1 DEF TypeOK, Replayed
<1> QED BY <1>1, <1>2 DEF Record

(* The part of a step that the loop of a restore takes. *)
LEMMA RestoreKeepsType ==
  ASSUME TypeOK, Restoring, GoOn \/ GiveUp,
         UNCHANGED <<bypass, new_res, fileVars, client, saved, checkpoint, used>>,
         api_records' \in Seq(Record), map_res' \in Seq(Translation),
         dev' \in Map(Block)
  PROVE  TypeOK'
<1>1. pos + 1 \in Nat \ {0} /\ pos + 1 <= Len(file_records) + 1
  BY ReplayedType
<1>2. CASE GoOn
  BY <1>1, <1>2 DEF TypeOK, Restoring, GoOn, fileVars
<1>3. CASE GiveUp
  BY <1>3 DEF TypeOK, GiveUp, fileVars
<1> QED BY <1>2, <1>3

LEMMA HandlerType == ASSUME TypeOK, Handler PROVE TypeOK'
<1>1. ASSUME NEW size \in Sizes, cuda_malloc(size) PROVE TypeOK'
  <2>1. PICK p \in Places(size) :
          /\ dev' = With(dev, p, [size |-> size, data |-> Undefined])
          /\ client' = With(client, p, [size |-> size, data |-> Undefined])
          /\ new_res' = new_res \cup {p}
          /\ api_records' = Recorded("malloc", p, size, FALSE, Undefined)
    BY <1>1 DEF cuda_malloc
  <2>2. p \in Addr
    BY DEF Places, Room
  <2>3. [size |-> size, data |-> Undefined] \in Block
    BY DEF Block
  <2>4. dev' \in Map(Block) /\ client' \in Map(Block)
    BY <2>1, <2>2, <2>3, WithIsMap DEF TypeOK
  <2>5. [fn |-> "malloc", ptr |-> p, size |-> size, err |-> FALSE,
        data |-> Undefined] \in Record
    BY <2>2 DEF Record, Calls
  <2>6. api_records' \in Seq(Record)
    BY <2>1, <2>5 DEF TypeOK, Recorded
  <2> QED BY <1>1, <2>1, <2>2, <2>4, <2>6
          DEF TypeOK, cuda_malloc, Serving, fileVars, ghosts
<1>2. ASSUME NEW size \in Sizes, cuda_malloc_fails(size) PROVE TypeOK'
  <2>1. PICK g \in Addr :
          /\ api_records' = Recorded("malloc", g, size, TRUE, Undefined)
          /\ new_res' = new_res \cup {g}
    BY <1>2 DEF cuda_malloc_fails
  <2>2. [fn |-> "malloc", ptr |-> g, size |-> size, err |-> TRUE,
        data |-> Undefined] \in Record
    BY DEF Record, Calls
  <2>3. api_records' \in Seq(Record)
    BY <2>1, <2>2 DEF TypeOK, Recorded
  <2>4. used' \in [checkpoints : Nat, restarts : Nat, faults : Nat]
    BY <1>2, CountersType DEF TypeOK, cuda_malloc_fails, SpendFault, UsedType
  <2> QED BY <1>2, <2>1, <2>3, <2>4
          DEF TypeOK, cuda_malloc_fails, Serving, fileVars, ghosts
<1>3. ASSUME NEW a \in DOMAIN client, cuda_free(a) PROVE TypeOK'
  <2>0. a \in Addr /\ client[a] \in Block
    BY MapFacts DEF TypeOK
  <2>1. a \in Addr /\ client[a].size \in Sizes
    BY <2>0 DEF Block
  <2>2. [fn |-> "free", ptr |-> a, size |-> client[a].size, err |-> FALSE,
        data |-> Undefined] \in Record
    BY <2>1 DEF Record, Calls
  <2>3. api_records' \in Seq(Record)
    BY <1>3, <2>2 DEF TypeOK, cuda_free, Recorded
  <2>4. dev' \in Map(Block) /\ client' \in Map(Block)
    BY <1>3, WithoutIsMap DEF TypeOK, cuda_free, CudaFree
  <2> QED BY <1>3, <2>3, <2>4 DEF TypeOK, cuda_free, Serving, fileVars, ghosts
<1>4. ASSUME NEW a \in DOMAIN client, NEW v \in Values, cuda_memcpy_htod(a, v)
      PROVE  TypeOK'
  <2>1. dev' \in Map(Block) /\ client' \in Map(Block)
    BY <1>4, StoreType DEF TypeOK, cuda_memcpy_htod, Store, Stored
  <2> QED BY <1>4, <2>1 DEF TypeOK, cuda_memcpy_htod, fileVars, ghosts
<1>5. ASSUME NEW a \in DOMAIN client, NEW v \in Values, cuda_memset_3d(a, v)
      PROVE  TypeOK'
  <2>1. dev' \in Map(Block) /\ client' \in Map(Block)
    BY <1>5, StoreType DEF TypeOK, cuda_memset_3d, Store, Stored
  <2>2. a \in Addr /\ client[a] \in Block
    BY MapFacts DEF TypeOK
  <2>3. [fn |-> "memset", ptr |-> a, size |-> client[a].size, err |-> FALSE,
         data |-> v] \in Record
    BY <2>2 DEF Record, Block, Calls
  <2>4. api_records' \in Seq(Record)
    BY <1>5, <2>3 DEF TypeOK, cuda_memset_3d, Recorded
  <2> QED BY <1>5, <2>1, <2>4 DEF TypeOK, cuda_memset_3d, Serving, fileVars, ghosts
<1>6. ASSUME NEW a \in DOMAIN client, NEW v \in Values, cuda_memcpy_shm(a, v)
      PROVE  TypeOK'
  <2>1. dev' \in Map(Block) /\ client' \in Map(Block)
    BY <1>6, StoreType DEF TypeOK, cuda_memcpy_shm, Stored
  <2>2. a \in Addr /\ client[a] \in Block
    BY MapFacts DEF TypeOK
  <2>3. [fn |-> "memcpy_shm", ptr |-> a, size |-> client[a].size, err |-> FALSE,
         data |-> v] \in Record
    BY <2>2 DEF Record, Block, Calls
  <2>4. api_records' \in Seq(Record)
    BY <1>6, <2>3 DEF TypeOK, cuda_memcpy_shm, Recorded
  <2> QED BY <1>6, <2>1, <2>4 DEF TypeOK, cuda_memcpy_shm, Serving, fileVars, ghosts
<1>7. ASSUME NEW a \in DOMAIN client, NEW v \in Values, cuda_memcpy_mt(a, v)
      PROVE  TypeOK'
  <2>1. dev' \in Map(Block) /\ client' \in Map(Block)
    BY <1>7, StoreType DEF TypeOK, cuda_memcpy_mt, Store, Stored
  <2> DEFINE call(fn) == [fn |-> fn, ptr |-> a, size |-> client[a].size, err |-> FALSE,
                          data |-> v]
  <2>2. a \in Addr /\ client[a] \in Block
    BY MapFacts DEF TypeOK
  <2>3. call("memcpy_mt_htod") \in Record /\ call("memcpy_mt_sync") \in Record
    BY <2>2 DEF Record, Block, Calls
  <2>4. api_records' = api_records \o <<call("memcpy_mt_htod"), call("memcpy_mt_sync")>>
    BY <1>7 DEF cuda_memcpy_mt
  <2>5. api_records' \in Seq(Record)
    BY <2>3, <2>4 DEF TypeOK
  <2> QED BY <1>7, <2>1, <2>5 DEF TypeOK, cuda_memcpy_mt, Serving, fileVars, ghosts
<1> QED BY <1>1, <1>2, <1>3, <1>4, <1>5, <1>6, <1>7 DEF Handler

LEMMA DumpType ==
  ASSUME TypeOK, cr_dump \/ cr_dump_fails \/ DumpStep PROVE TypeOK'
<1>1. CASE cr_dump
  BY <1>1, SMTT(30) DEF TypeOK, cr_dump, memVars, CheckpointStates
<1>2. CASE cr_dump_fails
  <2>1. PICK n \in 0 .. Len(api_records) : file_records' = SubSeq(api_records, 1, n)
    BY <1>2 DEF cr_dump_fails
  <2>2. file_records' \in Seq(Record)
    BY <2>1 DEF TypeOK
  <2>3. used' \in [checkpoints : Nat, restarts : Nat, faults : Nat]
    BY <1>2, CountersType DEF TypeOK, cr_dump_fails, SpendFault, UsedType
  <2> QED BY <1>2, <2>2, <2>3 DEF TypeOK, cr_dump_fails, memVars, CheckpointStates
<1>3. CASE dump_skips_record \/ dump_entry_unreadable \/ dump_entry_unopened
  <2>1. Dumping
    BY <1>3 DEF dump_skips_record, dump_entry_unreadable, dump_entry_unopened, AtMalloc
  <2>2. pos + 1 \in Nat \ {0} /\ pos + 1 <= Len(api_records) + 1 /\ mode = "dumping"
    BY <2>1, CurrentType DEF Dumping
  <2>3. used' \in [checkpoints : Nat, restarts : Nat, faults : Nat]
    BY <1>3, CountersType DEF TypeOK, dump_skips_record, dump_entry_unreadable,
       dump_entry_unopened, SpendFault, UsedType
  <2>4. missed' \subseteq Addr
    BY <1>3, <2>1, CurrentType DEF TypeOK, dump_skips_record, dump_entry_unreadable,
       dump_entry_unopened, fileVars
  <2> QED BY <1>3, <2>2, <2>3, <2>4 DEF TypeOK, dump_skips_record,
             dump_entry_unreadable, dump_entry_unopened, memVars, fileVars,
             ghosts, CheckpointStates
<1>4. CASE cr_dump_memory_entry \/ dump_entry_fails
  <2> DEFINE S == Block \cup [size : {0}, data : {Undefined}]
  <2>1. Dumping
    BY <1>4 DEF cr_dump_memory_entry, dump_entry_fails, AtMalloc
  <2>2. /\ pos + 1 \in Nat \ {0} /\ pos + 1 <= Len(api_records) + 1
        /\ mode = "dumping" /\ Current.ptr \in Addr /\ Current.size \in Sizes
    BY <2>1, CurrentType DEF Dumping
  <2>3. PICK e \in S : file_mem' = With(file_mem, Current.ptr, e)
    <3>1. CASE cr_dump_memory_entry
      <4>1. PICK b \in Readable :
              file_mem' = With(file_mem, Current.ptr,
                               [size |-> Current.size, data |-> dev[b].data])
        BY <3>1 DEF cr_dump_memory_entry
      <4>2. dev[b] \in Block
        BY <4>1, MapFacts DEF Readable, Around, TypeOK
      <4>3. [size |-> Current.size, data |-> dev[b].data] \in S
        BY <2>2, <4>2 DEF Block
      <4> QED BY <4>1, <4>3
    <3>2. CASE dump_entry_fails
      <4>1. [size |-> 0, data |-> Undefined] \in S
        OBVIOUS
      <4> QED BY <3>2, <4>1 DEF dump_entry_fails
    <3> QED BY <1>4, <3>1, <3>2
  <2>4. file_mem' \in Map(S)
    BY <2>2, <2>3, WithIsMap DEF TypeOK
  <2>5. used' \in [checkpoints : Nat, restarts : Nat, faults : Nat]
    BY <1>4, CountersType DEF TypeOK, cr_dump_memory_entry, dump_entry_fails,
       SpendFault, UsedType
  <2> QED BY <1>4, <2>2, <2>4, <2>5
          DEF TypeOK, cr_dump_memory_entry, dump_entry_fails, memVars,
              ghosts, CheckpointStates
<1>5. CASE checkpoint_created
  BY <1>5 DEF TypeOK, checkpoint_created, memVars, fileVars, CheckpointStates
<1> QED BY <1>1, <1>2, <1>3, <1>4, <1>5 DEF DumpStep

LEMMA StopType == ASSUME TypeOK, svc_exit \/ Crash PROVE TypeOK'
<1>1. NoBlocks \in Map(Block)
  BY NoBlocksIsMap
<1>2. Stop /\ (UNCHANGED used \/ SpendFault)
  BY DEF svc_exit, Crash
<1>3. used' \in [checkpoints : Nat, restarts : Nat, faults : Nat]
  BY <1>2, CountersType DEF TypeOK, SpendFault, UsedType
<1> QED BY <1>1, <1>2, <1>3 DEF TypeOK, Stop, fileVars

LEMMA RestoreType ==
  ASSUME TypeOK, server_runtime_restore \/ RestoreStep PROVE TypeOK'
<1>1. CASE server_runtime_restore
  <2>1. used' \in [checkpoints : Nat, restarts : Nat, faults : Nat]
    BY <1>1, CountersType DEF TypeOK, server_runtime_restore, UsedType
  <2>2. bypass' \in BOOLEAN /\ faithful' \in BOOLEAN
    BY <1>1, Zenon DEF server_runtime_restore
  <2>3. /\ UNCHANGED <<memVars, api_records, fileVars, saved, checkpoint>>
        /\ mode' = "restoring" /\ pos' = 1 /\ client' = saved
    BY <1>1, Zenon DEF server_runtime_restore
  <2> QED BY <2>1, <2>2, <2>3 DEF TypeOK, memVars, fileVars
<1>2. CASE cr_restore_memory
  <2>1. Restoring
    BY <1>2 DEF cr_restore_memory
  <2>2. /\ Replayed \in Record /\ Replayed.ptr \in Addr /\ Replayed.size \in Sizes
    BY <2>1, ReplayedType
  <2>3. PICK p \in Places(Replayed.size) :
          /\ dev' = With(dev, p, [size |-> Replayed.size, data |-> Contents])
          /\ memory_mg_add_sorted(Replayed.ptr, p, Replayed.size)
    BY <1>2 DEF cr_restore_memory
  <2>4. p \in Addr
    BY DEF Places, Room
  <2>5. Contents \in Values \cup {Undefined}
    BY MapFacts DEF Contents, HasFile, TypeOK, Block
  <2>6. [size |-> Replayed.size, data |-> Contents] \in Block
    BY <2>2, <2>5 DEF Block
  <2>7. dev' \in Map(Block)
    BY <2>3, <2>4, <2>6, WithIsMap DEF TypeOK
  <2>8. map_res' \in Seq(Translation)
    BY <2>2, <2>3, <2>4, AddSortedType DEF TypeOK
  <2>9. api_records' \in Seq(Record)
    BY <1>2, <2>2 DEF cr_restore_memory, Keep, TypeOK
  <2> QED BY <1>2, <2>1, <2>7, <2>8, <2>9, RestoreKeepsType DEF cr_restore_memory
<1>3. CASE restore_short_file \/ restore_out_of_memory
  <2>0. Keep
    BY <1>3 DEF restore_short_file, restore_out_of_memory
  <2>1. Restoring
    BY <1>3 DEF restore_short_file, restore_out_of_memory
  <2>2. api_records' \in Seq(Record)
    BY <1>3, <2>0, <2>1, ReplayedType DEF Keep, TypeOK
  <2>3. UNCHANGED <<map_res, new_res, dev>>
    BY <1>3 DEF restore_short_file, restore_out_of_memory, memVars
  <2>4. map_res' \in Seq(Translation) /\ dev' \in Map(Block)
    BY <2>3 DEF TypeOK
  <2>5. /\ GoOn \/ GiveUp
        /\ UNCHANGED <<bypass, new_res, fileVars, client, saved, checkpoint, used>>
    BY <1>3, <2>3 DEF restore_short_file, restore_out_of_memory
  <2> QED BY <2>1, <2>2, <2>4, <2>5, RestoreKeepsType
<1>4. CASE cr_call_record
  <2>1. Restoring
    BY <1>4 DEF cr_call_record
  <2>2. <<Replayed, Replayed>> \in Seq(Record)
    BY <2>1, ReplayedType
  <2>3. api_records' \in Seq(Record)
    BY <1>4, <2>2 DEF cr_call_record, TypeOK
  <2>4. map_res' \in Seq(Translation)
    BY <1>4 DEF cr_call_record, TypeOK
  <2>5. dev' \in Map(Block)
    <3>1. CASE CudaFree(memory_mg_get(Replayed.ptr)) \/ dev' = dev
      BY <3>1, WithoutIsMap DEF CudaFree, TypeOK
    <3>2. ASSUME NEW v \in {Replayed.data, Undefined},
                 dev' = Stored(Replayed.ptr, Replayed.size, v)
          PROVE  dev' \in Map(Block)
      BY <2>1, <3>2, ReplayedType, FilledType DEF TypeOK, Stored
    <3> QED BY <1>4, <3>1, <3>2 DEF cr_call_record
  <2> QED BY <2>5, <1>4, <2>1, <2>3, <2>4, RestoreKeepsType DEF cr_call_record
<1>5. CASE restore_complete \/ replayed_sync_waits
  BY <1>5 DEF TypeOK, restore_complete, replayed_sync_waits, memVars, fileVars, ghosts
<1> QED BY <1>1, <1>2, <1>3, <1>4, <1>5 DEF RestoreStep

LEMMA TypeNext == ASSUME TypeOK, [Next]_vars PROVE TypeOK'
<1>1. CASE UNCHANGED vars
  BY <1>1 DEF TypeOK, vars, memVars, fileVars, ghosts
<1> QED BY <1>1, HandlerType, DumpType, StopType, RestoreType DEF Next

(* Type correctness; in particular the loops of a dump and of a replay     *)
(* never read past the end of their list of records.                       *)
THEOREM TypeCorrect == Spec => []TypeOK
BY TypeInit, TypeNext, PTL DEF Spec

------------------------------------------------------------------------------
(***************************************************************************)
(* What a first run reports as a checkpoint covers the client's memory.    *)
(*                                                                         *)
(* FirstCheckpointCovers is not inductive.  A file is right in the end     *)
(* because the last cudaMalloc recorded on its address that did not fail   *)
(* is the live one (Tracked), because the dump comes to that record after  *)
(* every older one on the address (Written), and because the bytes it      *)
(* reads belong to that block and no other (Apart, Exact).  A failed one   *)
(* that comes later with the same address reads from the same block.       *)
(***************************************************************************)
Apart ==
  \A a, b \in DOMAIN dev :
    a # b => a + dev[a].size <= b \/ b + dev[b].size <= a

Exact == bypass => dev = client

(* A record that makes no block and frees none.                            *)
Passing(r) == r.fn \notin {"malloc", "free"} \/ (r.fn = "malloc" /\ r.err)

LastMalloc(i, a) ==
  /\ i \in 1 .. Len(api_records)
  /\ api_records[i].fn = "malloc" /\ ~ api_records[i].err /\ api_records[i].ptr = a
  /\ \A j \in 1 .. Len(api_records) :
       j > i /\ api_records[j].ptr = a => Passing(api_records[j])

Tracked ==
  bypass =>
    \A a \in DOMAIN client : \E i \in 1 .. Len(api_records) :
      LastMalloc(i, a) /\ api_records[i].size = client[a].size

OnDisk(a) ==
  /\ a \in DOMAIN file_mem
  /\ file_mem[a].size = client[a].size \/ a \in Garbled
  /\ file_mem[a].data = client[a].data

Written ==
  bypass /\ mode = "dumping" =>
    /\ file_records = api_records
    /\ \A a \in DOMAIN client \ missed, i \in 1 .. Len(api_records) :
         LastMalloc(i, a) /\ i < pos /\ api_records[i].size = client[a].size
           => OnDisk(a)

Modes ==
  /\ mode = "dumping" => checkpoint \in {"writing", "damaged"}
  /\ mode = "restoring" => ~ bypass

FirstInv ==
  TypeOK /\ Apart /\ Exact /\ Tracked /\ Written /\ Modes /\ FirstCheckpointCovers

(* A cell of the address space lies in one block at most.                  *)
LEMMA BlockFacts ==
  ASSUME TypeOK, NEW b \in DOMAIN dev
  PROVE  b \in Nat \ {0} /\ b \in Addr /\ dev[b] \in Block /\ dev[b].size \in Nat \ {0}
<1>1. b \in Addr /\ dev[b] \in Block
  BY MapFacts DEF TypeOK
<1> QED BY <1>1, AddressesAreNumbers, SizesArePositive DEF Block

LEMMA RoomIsApart ==
  ASSUME TypeOK, NEW size \in Sizes, NEW p \in Room(size), NEW b \in DOMAIN dev
  PROVE  p + size <= b \/ b + dev[b].size <= p
<1>1. /\ p \in Nat \ {0} /\ size \in Nat \ {0}
      /\ b \in Nat \ {0} /\ dev[b].size \in Nat \ {0}
  BY BlockFacts, AddressesAreNumbers, SizesArePositive DEF Room
<1>2. Cells(p, size) \cap Cells(b, dev[b].size) = {}
  BY DEF Room
<1> SUFFICES ASSUME b < p + size, p < b + dev[b].size PROVE FALSE
  BY <1>1
<1>3. CASE p <= b
  <2>1. b \in Cells(p, size) /\ b \in Cells(b, dev[b].size)
    BY <1>1, <1>3 DEF Cells
  <2> QED BY <1>2, <2>1
<1>4. CASE b <= p
  <2>1. p \in Cells(p, size) /\ p \in Cells(b, dev[b].size)
    BY <1>1, <1>4 DEF Cells
  <2> QED BY <1>2, <2>1
<1> QED BY <1>1, <1>3, <1>4

(* cudaMalloc puts a block where no other is.                              *)
LEMMA NewBlockIsApart ==
  ASSUME TypeOK, Apart, NEW size \in Sizes, NEW p \in Room(size), NEW d,
         dev' = With(dev, p, [size |-> size, data |-> d])
  PROVE  Apart' /\ p \notin DOMAIN dev
<1>1. p \in Nat \ {0} /\ size \in Nat \ {0}
  BY AddressesAreNumbers, SizesArePositive DEF Room
<1>2. p \notin DOMAIN dev
  BY <1>1, RoomIsApart, BlockFacts
<1>3. /\ DOMAIN dev' = DOMAIN dev \cup {p} /\ dev'[p].size = size
      /\ \A b \in DOMAIN dev : dev'[b] = dev[b]
  BY <1>2 DEF With
<1>4. ASSUME NEW a \in DOMAIN dev', NEW b \in DOMAIN dev', a # b
      PROVE  a + dev'[a].size <= b \/ b + dev'[b].size <= a
  <2>1. CASE a \in DOMAIN dev /\ b \in DOMAIN dev
    BY <1>3, <1>4, <2>1 DEF Apart
  <2>2. CASE a = p
    <3>1. b \in DOMAIN dev
      BY <1>3, <1>4, <2>2
    <3> QED BY <1>3, <2>2, <3>1, RoomIsApart
  <2>3. CASE b = p
    <3>1. a \in DOMAIN dev
      BY <1>3, <1>4, <2>3
    <3> QED BY <1>3, <2>3, <3>1, RoomIsApart
  <2> QED BY <1>3, <1>4, <2>1, <2>2, <2>3
<1> QED BY <1>2, <1>4 DEF Apart

LEMMA FewerBlocksAreApart ==
  ASSUME Apart, NEW p, dev' = Without(dev, p) PROVE Apart'
<1>1. /\ DOMAIN dev' \subseteq DOMAIN dev
      /\ \A b \in DOMAIN dev' : dev'[b] = dev[b]
  BY DEF Without
<1> QED BY <1>1 DEF Apart

(* A pointer to a block finds that block alone.                            *)
LEMMA AroundIsOne ==
  ASSUME TypeOK, Apart, NEW a \in DOMAIN dev
  PROVE  Around(a, dev[a].size) = {a}
<1>1. a \in Nat /\ dev[a].size \in Nat \ {0}
  BY BlockFacts
<1>2. a \in Around(a, dev[a].size)
  BY <1>1 DEF Around
<1>3. ASSUME NEW b \in Around(a, dev[a].size), b # a PROVE FALSE
  <2>1. /\ b \in DOMAIN dev /\ b <= a /\ a + dev[a].size <= b + dev[b].size
        /\ b \in Nat /\ dev[b].size \in Nat
    BY BlockFacts DEF Around
  <2>2. a + dev[a].size <= b \/ b + dev[b].size <= a
    BY <1>3, <2>1 DEF Apart
  <2> QED BY <1>1, <2>1, <2>2
<1> QED BY <1>2, <1>3

LEMMA FirstInit == Init => FirstInv
<1> SUFFICES ASSUME Init PROVE FirstInv
  OBVIOUS
<1>1. TypeOK
  BY TypeInit
<1>2. /\ dev = NoBlocks /\ client = NoBlocks /\ saved = NoBlocks
      /\ mode = "serving" /\ checkpoint = "none" /\ DOMAIN NoBlocks = {}
  BY DEF Init, NoBlocks
<1> QED BY <1>1, <1>2
        DEF FirstInv, Apart, Exact, Tracked, Written, Modes,
            FirstCheckpointCovers, Reported

(* What a step leaves true by leaving the files and the image alone.       *)
LEMMA ImageKept ==
  ASSUME FirstInv, UNCHANGED <<bypass, checkpoint, saved, fileVars>>
  PROVE  FirstCheckpointCovers'
BY DEF FirstInv, FirstCheckpointCovers, Reported, Garbled, fileVars

(* After a server has restored something only Apart is left to show.       *)
LEMMA RestoredInv ==
  ASSUME TypeOK', Apart', ~ bypass', mode' # "dumping" PROVE FirstInv'
BY DEF FirstInv, Exact, Tracked, Written, Modes, FirstCheckpointCovers

(* More records: last ones that no new record concerns stay last, and what *)
(* is tracked stays so while the client keeps its blocks.                  *)
LEMMA LastStays ==
  ASSUME NEW n \in Nat, Len(api_records) = n, Len(api_records') \in Nat,
         Len(api_records') >= n,
         \A j \in 1 .. n : api_records'[j] = api_records[j],
         NEW i, NEW a, LastMalloc(i, a),
         \A j \in n + 1 .. Len(api_records') :
           api_records'[j].ptr # a \/ Passing(api_records'[j])
  PROVE  LastMalloc(i, a)' /\ i \in 1 .. n /\ api_records'[i] = api_records[i]
<1>1. i \in 1 .. n /\ i \in 1 .. Len(api_records') /\ api_records'[i] = api_records[i]
  BY DEF LastMalloc
<1>2. ASSUME NEW j \in 1 .. Len(api_records'), j > i, api_records'[j].ptr = a
      PROVE  Passing(api_records'[j])
  <2>1. CASE j \in 1 .. n
    BY <1>1, <1>2, <2>1 DEF LastMalloc
  <2>2. CASE j \in n + 1 .. Len(api_records')
    BY <1>2, <2>2
  <2> QED BY <2>1, <2>2
<1> QED BY <1>1, <1>2 DEF LastMalloc, Passing

LEMMA TrackedStays ==
  ASSUME FirstInv, UNCHANGED bypass, Len(api_records') \in Nat,
         Len(api_records') >= Len(api_records),
         \A j \in 1 .. Len(api_records) : api_records'[j] = api_records[j],
         \A a \in DOMAIN client' :
           /\ a \in DOMAIN client /\ client'[a].size = client[a].size
           /\ \A j \in Len(api_records) + 1 .. Len(api_records') :
                api_records'[j].ptr # a \/ Passing(api_records'[j])
  PROVE  Tracked'
<1> SUFFICES ASSUME bypass, NEW a \in DOMAIN client'
             PROVE  \E i \in 1 .. Len(api_records') :
                      LastMalloc(i, a)' /\ api_records'[i].size = client'[a].size
  BY DEF Tracked
<1>1. PICK i \in 1 .. Len(api_records) :
        LastMalloc(i, a) /\ api_records[i].size = client[a].size
  BY DEF FirstInv, Tracked
<1>2. Len(api_records) \in Nat
  BY DEF FirstInv, TypeOK
<1>3. LastMalloc(i, a)' /\ api_records'[i] = api_records[i]
  BY <1>1, <1>2, LastStays
<1> QED BY <1>1, <1>2, <1>3

LEMMA RecordedFacts ==
  ASSUME TypeOK, NEW fn, NEW p, NEW size, NEW err, NEW data,
         api_records' = Recorded(fn, p, size, err, data)
  PROVE  LET n == Len(api_records) IN
         /\ n \in Nat /\ Len(api_records') = n + 1
         /\ \A i \in 1 .. n : api_records'[i] = api_records[i]
         /\ api_records'[n + 1].fn = fn /\ api_records'[n + 1].ptr = p
         /\ api_records'[n + 1].size = size /\ api_records'[n + 1].err = err
BY DEF TypeOK, Recorded

LEMMA MallocFirst ==
  ASSUME FirstInv, NEW size \in Sizes, cuda_malloc(size), TypeOK'
  PROVE  FirstInv'
<1> DEFINE n == Len(api_records)
           blk == [size |-> size, data |-> Undefined]
<1>1. PICK p \in Places(size) :
        /\ dev' = With(dev, p, blk) /\ client' = With(client, p, blk)
        /\ api_records' = Recorded("malloc", p, size, FALSE, Undefined)
  BY DEF cuda_malloc
<1>2. /\ mode = "serving" /\ UNCHANGED <<mode, bypass, fileVars, checkpoint, saved>>
  BY DEF cuda_malloc, Serving, ghosts
<1>3. p \in Room(size) /\ p \in Addr
  BY DEF Places, Room
<1>4. Apart' /\ p \notin DOMAIN dev
  BY <1>1, <1>3, NewBlockIsApart DEF FirstInv
<1>5. Exact'
  BY <1>1, <1>2 DEF FirstInv, Exact
<1>6. /\ n \in Nat /\ Len(api_records') = n + 1
      /\ \A i \in 1 .. n : api_records'[i] = api_records[i]
      /\ api_records'[n + 1].fn = "malloc" /\ ~ api_records'[n + 1].err
      /\ api_records'[n + 1].ptr = p /\ api_records'[n + 1].size = size
  BY <1>1, RecordedFacts DEF FirstInv
<1>7. Tracked'
  <2> SUFFICES ASSUME bypass, NEW a \in DOMAIN client'
               PROVE  \E i \in 1 .. n + 1 :
                        LastMalloc(i, a)' /\ api_records'[i].size = client'[a].size
    BY <1>2, <1>6 DEF Tracked
  <2>1. CASE a = p
    <3>1. PICK k \in 1 .. n + 1 : k = n + 1
      BY <1>6
    <3>2. LastMalloc(k, a)'
      BY <1>6, <2>1, <3>1 DEF LastMalloc
    <3>3. client'[a].size = size
      BY <1>1, <2>1 DEF With
    <3>4. api_records'[k].size = size
      BY <1>6, <3>1
    <3> QED BY <3>2, <3>3, <3>4
  <2>2. CASE a # p
    <3>1. a \in DOMAIN client /\ client'[a] = client[a]
      BY <1>1, <2>2 DEF With
    <3>3. PICK i \in 1 .. n : LastMalloc(i, a) /\ api_records[i].size = client[a].size
      BY <3>1 DEF FirstInv, Tracked
    <3>4. /\ Len(api_records') \in Nat /\ Len(api_records') >= n
          /\ \A j \in n + 1 .. Len(api_records') : api_records'[j].ptr # a
      <4>1. \A j \in n + 1 .. Len(api_records') : j = n + 1
        BY <1>6
      <4> QED BY <1>6, <2>2, <4>1
    <3>5. LastMalloc(i, a)' /\ api_records'[i] = api_records[i]
      BY <1>6, <3>3, <3>4, LastStays
    <3> QED BY <1>6, <3>1, <3>3, <3>5
  <2> QED BY <2>1, <2>2
<1>8. Written' /\ Modes'
  BY <1>2 DEF Written, Modes
<1>9. FirstCheckpointCovers'
  BY <1>2, ImageKept
<1> QED BY <1>4, <1>5, <1>7, <1>8, <1>9 DEF FirstInv

(* A handler that makes no block and frees none, whatever it records and   *)
(* stores.                                                                 *)
LEMMA PassingFirst ==
  ASSUME FirstInv, TypeOK', mode = "serving", Apart', Exact',
         UNCHANGED <<mode, bypass, fileVars, checkpoint, saved>>,
         Len(api_records') >= Len(api_records),
         \A j \in 1 .. Len(api_records) : api_records'[j] = api_records[j],
         \A j \in Len(api_records) + 1 .. Len(api_records') : Passing(api_records'[j]),
         DOMAIN client' = DOMAIN client,
         \A b \in DOMAIN client : client'[b].size = client[b].size
  PROVE  FirstInv'
<1>1. Len(api_records') \in Nat
  BY DEF TypeOK
<1>2. Tracked'
  BY <1>1, TrackedStays
<1>3. Written' /\ Modes'
  BY DEF Written, Modes
<1>4. FirstCheckpointCovers'
  BY ImageKept
<1> QED BY <1>2, <1>3, <1>4 DEF FirstInv

LEMMA MallocFailsFirst ==
  ASSUME FirstInv, NEW size \in Sizes, cuda_malloc_fails(size), TypeOK'
  PROVE  FirstInv'
<1>1. PICK g \in Addr : api_records' = Recorded("malloc", g, size, TRUE, Undefined)
  BY DEF cuda_malloc_fails
<1>2. /\ mode = "serving" /\ UNCHANGED <<mode, bypass, dev, client, fileVars,
                                         checkpoint, saved>>
  BY DEF cuda_malloc_fails, Serving, ghosts
<1>3. Apart' /\ Exact'
  BY <1>2 DEF FirstInv, Apart, Exact
<1>4. /\ Len(api_records) \in Nat /\ Len(api_records') = Len(api_records) + 1
      /\ \A j \in 1 .. Len(api_records) : api_records'[j] = api_records[j]
      /\ Passing(api_records'[Len(api_records) + 1])
  BY <1>1, RecordedFacts DEF FirstInv, Passing
<1> QED BY <1>2, <1>3, <1>4, PassingFirst

LEMMA FreeFirst ==
  ASSUME FirstInv, NEW a \in DOMAIN client, cuda_free(a), TypeOK'
  PROVE  FirstInv'
<1> DEFINE n == Len(api_records)
<1>1. /\ dev' = Without(dev, memory_mg_get(a)) /\ client' = Without(client, a)
      /\ api_records' = Recorded("free", a, client[a].size, FALSE, Undefined)
      /\ mode = "serving" /\ UNCHANGED <<mode, bypass, fileVars, checkpoint, saved>>
  BY DEF cuda_free, Serving, ghosts, CudaFree
<1>3. Apart'
  BY <1>1, FewerBlocksAreApart DEF FirstInv
<1>4. Exact'
  BY <1>1 DEF FirstInv, Exact, memory_mg_get
<1>5. /\ n \in Nat /\ Len(api_records') = n + 1
      /\ \A i \in 1 .. n : api_records'[i] = api_records[i]
      /\ api_records'[n + 1].ptr = a
  BY <1>1, RecordedFacts DEF FirstInv
<1>6. Tracked'
  <2>1. \A b \in DOMAIN client' :
          b \in DOMAIN client /\ client'[b] = client[b] /\ b # a
    BY <1>1 DEF Without
  <2>2. \A j \in n + 1 .. Len(api_records') : api_records'[j].ptr = a
    <3>1. \A j \in n + 1 .. Len(api_records') : j = n + 1
      BY <1>5
    <3> QED BY <1>5, <3>1
  <2>3. Len(api_records') \in Nat /\ Len(api_records') >= n
    BY <1>5
  <2> HIDE DEF n
  <2> QED BY <1>1, <1>5, <2>1, <2>2, <2>3, TrackedStays DEF n
<1>7. Written' /\ Modes'
  BY <1>1 DEF Written, Modes
<1>8. FirstCheckpointCovers'
  BY <1>1, ImageKept
<1> QED BY <1>3, <1>4, <1>6, <1>7, <1>8 DEF FirstInv

(* Writing into a block writes into no other.  In a first run both ways of *)
(* finding it find it.                                                     *)
LEMMA StoreFirst ==
  ASSUME FirstInv, NEW a \in DOMAIN client, NEW v \in Values, Wrote(a, v),
         NEW d, NEW p, dev' = Filled(p, client[a].size, d), UNCHANGED bypass,
         bypass => p = a /\ d = v
  PROVE  /\ Apart' /\ Exact'
         /\ DOMAIN client' = DOMAIN client
         /\ \A b \in DOMAIN client : client'[b].size = client[b].size
<1>1. client' = [client EXCEPT ![a].data = v]
  BY DEF Wrote
<1>2. /\ DOMAIN client' = DOMAIN client
      /\ \A b \in DOMAIN client : client'[b].size = client[b].size
  <2>1. \A b \in DOMAIN client : client[b] \in Block
    BY MapFacts DEF FirstInv, TypeOK
  <2> QED BY <1>1, <2>1 DEF Block
<1>3. /\ DOMAIN dev' = DOMAIN dev
      /\ \A b \in DOMAIN dev : dev'[b].size = dev[b].size
  <2>1. \A b \in DOMAIN dev : dev[b] \in Block
    BY MapFacts DEF FirstInv, TypeOK
  <2> QED BY <2>1 DEF Block, Filled
<1>4. Apart'
  BY <1>3 DEF FirstInv, Apart
<1>5. ASSUME bypass' PROVE dev' = client'
  <2>1. bypass /\ dev = client /\ p = a /\ d = v
    BY <1>5 DEF FirstInv, Exact
  <2>2. Around(p, client[a].size) = {a}
    BY <2>1, AroundIsOne DEF FirstInv
  <2>3. dev' = [b \in DOMAIN dev |-> IF b \in {a} THEN [dev[b] EXCEPT !.data = v]
                                                  ELSE dev[b]]
    BY <2>1, <2>2 DEF Filled
  <2>4. client' = [b \in DOMAIN client |-> IF b = a THEN [client[b] EXCEPT !.data = v]
                                                     ELSE client[b]]
    BY <1>1
  <2> QED BY <2>1, <2>3, <2>4
<1> QED BY <1>2, <1>4, <1>5 DEF Exact

LEMMA MemcpyFirst ==
  ASSUME FirstInv, NEW a \in DOMAIN client, NEW v \in Values,
         cuda_memcpy_htod(a, v), TypeOK'
  PROVE  FirstInv'
<1>1. /\ Wrote(a, v) /\ dev' = Filled(memory_mg_get(a), client[a].size, v)
      /\ mode = "serving"
      /\ UNCHANGED <<mode, bypass, api_records, fileVars, checkpoint, saved>>
  BY DEF cuda_memcpy_htod, ghosts, Store, Stored
<1>2. bypass => memory_mg_get(a) = a
  BY DEF memory_mg_get
<1>3. /\ Apart' /\ Exact' /\ DOMAIN client' = DOMAIN client
      /\ \A b \in DOMAIN client : client'[b].size = client[b].size
  BY <1>1, <1>2, StoreFirst
<1>4. Len(api_records) \in Nat
  BY DEF FirstInv, TypeOK
<1>5. \A j \in Len(api_records) + 1 .. Len(api_records) : FALSE
  BY <1>4
<1> QED BY <1>1, <1>3, <1>4, <1>5, PassingFirst

LEMMA RecordedStoreFirst ==
  ASSUME FirstInv, NEW a \in DOMAIN client, NEW v \in Values,
         cuda_memset_3d(a, v) \/ cuda_memcpy_shm(a, v), TypeOK'
  PROVE  FirstInv'
<1>1. PICK fn \in {"memset", "memcpy_shm"} :
        api_records' = Recorded(fn, a, client[a].size, FALSE, v)
  BY DEF cuda_memset_3d, cuda_memcpy_shm
<1>2. PICK d : /\ dev' = Filled(memory_mg_get(a), client[a].size, d)
               /\ bypass => d = v
  BY DEF cuda_memset_3d, cuda_memcpy_shm, Store, Stored
<1>3. /\ Wrote(a, v) /\ mode = "serving"
      /\ UNCHANGED <<mode, bypass, fileVars, checkpoint, saved>>
  BY DEF cuda_memset_3d, cuda_memcpy_shm, Serving, ghosts, Store
<1>4. bypass => memory_mg_get(a) = a
  BY DEF memory_mg_get
<1>5. /\ Apart' /\ Exact' /\ DOMAIN client' = DOMAIN client
      /\ \A b \in DOMAIN client : client'[b].size = client[b].size
  BY <1>2, <1>3, <1>4, StoreFirst
<1>6. /\ Len(api_records) \in Nat /\ Len(api_records') = Len(api_records) + 1
      /\ \A j \in 1 .. Len(api_records) : api_records'[j] = api_records[j]
      /\ Passing(api_records'[Len(api_records) + 1])
  BY <1>1, RecordedFacts DEF FirstInv, Passing
<1> QED BY <1>3, <1>5, <1>6, PassingFirst

LEMMA ParallelFirst ==
  ASSUME FirstInv, NEW a \in DOMAIN client, NEW v \in Values,
         cuda_memcpy_mt(a, v), TypeOK'
  PROVE  FirstInv'
<1> DEFINE n == Len(api_records)
           call(fn) == [fn |-> fn, ptr |-> a, size |-> client[a].size, err |-> FALSE,
                        data |-> v]
<1>1. /\ Wrote(a, v) /\ dev' = Filled(memory_mg_get(a), client[a].size, v)
      /\ mode = "serving"
      /\ api_records' = api_records \o <<call("memcpy_mt_htod"), call("memcpy_mt_sync")>>
      /\ UNCHANGED <<mode, bypass, fileVars, checkpoint, saved>>
  BY DEF cuda_memcpy_mt, Serving, ghosts, Store, Stored
<1>2. /\ Apart' /\ Exact' /\ DOMAIN client' = DOMAIN client
      /\ \A b \in DOMAIN client : client'[b].size = client[b].size
  <2>1. bypass => memory_mg_get(a) = a
    BY DEF memory_mg_get
  <2> QED BY <1>1, <2>1, StoreFirst
<1>3. /\ n \in Nat /\ Len(api_records') = n + 2
      /\ \A j \in 1 .. n : api_records'[j] = api_records[j]
      /\ api_records'[n + 1] = call("memcpy_mt_htod")
      /\ api_records'[n + 2] = call("memcpy_mt_sync")
  BY <1>1 DEF FirstInv, TypeOK
<1>4. Passing(api_records'[n + 1]) /\ Passing(api_records'[n + 2])
  BY <1>3 DEF Passing
<1> HIDE DEF call
<1>5. \A j \in n + 1 .. Len(api_records') : j = n + 1 \/ j = n + 2
  BY <1>3
<1> QED BY <1>1, <1>2, <1>3, <1>4, <1>5, PassingFirst

LEMMA DumpStartFirst ==
  ASSUME FirstInv, cr_dump \/ cr_dump_fails, TypeOK' PROVE FirstInv'
<1>1. /\ UNCHANGED <<bypass, dev, client, api_records, saved>>
      /\ checkpoint' \in {"writing", "damaged"}
      /\ mode' = "dumping" => file_records' = api_records /\ pos' = 1
      /\ mode' # "restoring"
  BY DEF cr_dump, cr_dump_fails, memVars
<1>2. Apart' /\ Exact' /\ Tracked'
  BY <1>1 DEF FirstInv, Apart, Exact, Tracked, LastMalloc, Passing
<1>3. Written'
  BY <1>1 DEF Written
<1>4. Modes' /\ FirstCheckpointCovers'
  BY <1>1 DEF Modes, FirstCheckpointCovers, Reported
<1> QED BY <1>2, <1>3, <1>4 DEF FirstInv

(* What the steps of the dump's loop have in common: nothing but the files *)
(* changes, so it remains to show that the files written so far are right. *)
LEMMA DumpLoopFirst ==
  ASSUME FirstInv, TypeOK', mode = "dumping",
         UNCHANGED <<bypass, dev, client, api_records, saved>>,
         mode' \in {"dumping", "serving"}, checkpoint' \in {checkpoint, "damaged"},
         Written'
  PROVE  FirstInv'
<1>1. Apart' /\ Exact' /\ Tracked'
  BY DEF FirstInv, Apart, Exact, Tracked, LastMalloc, Passing
<1>2. checkpoint \in {"writing", "damaged"}
  BY DEF FirstInv, Modes
<1>3. Modes' /\ FirstCheckpointCovers'
  BY <1>2 DEF Modes, FirstCheckpointCovers, Reported
<1> QED BY <1>1, <1>3 DEF FirstInv

(* The loop comes to a record.  If it is the last cudaMalloc on a block of *)
(* the client's, memory can be read there, and it is that block's.         *)
LEMMA LastMallocIsReadable ==
  ASSUME FirstInv, bypass, NEW a \in DOMAIN client, AtMalloc,
         LastMalloc(pos, a), Current.size = client[a].size
  PROVE  Current.ptr = a /\ a \in DOMAIN dev /\ dev[a] = client[a] /\ Readable = {a}
<1>1. Current.ptr = a /\ dev = client
  BY DEF FirstInv, Exact, LastMalloc, Current
<1>2. Around(a, dev[a].size) = {a}
  BY <1>1, AroundIsOne DEF FirstInv
<1> QED BY <1>1, <1>2 DEF Readable

(* Whatever is read from where a block begins is read from that block.     *)
LEMMA ReadFromStart ==
  ASSUME FirstInv, NEW a \in DOMAIN dev, AtMalloc, Current.ptr = a, NEW c \in Readable
  PROVE  c = a
<1>1. a \in Nat /\ dev[a].size \in Nat \ {0}
  BY BlockFacts DEF FirstInv
<1>2. /\ c \in DOMAIN dev /\ c <= a /\ a + Current.size <= c + dev[c].size
      /\ c \in Nat /\ dev[c].size \in Nat
  BY BlockFacts DEF FirstInv, Readable, Around
<1>3. Current.size \in Nat \ {0}
  BY CurrentType, SizesArePositive DEF FirstInv, AtMalloc
<1>4. c # a => a + dev[a].size <= c \/ c + dev[c].size <= a
  BY <1>2 DEF FirstInv, Apart
<1> QED BY <1>1, <1>2, <1>3, <1>4

(* Steps of the loop that change no file: a record they pass over is no    *)
(* last cudaMalloc on a block of the client's, or is entered in missed.    *)
LEMMA PassedOver ==
  ASSUME FirstInv, TypeOK', Dumping,
         UNCHANGED <<mode, bypass, dev, client, api_records, saved, file_records, file_mem>>,
         pos' = pos + 1, checkpoint' \in {checkpoint, "damaged"}, missed \subseteq missed',
         \A a \in DOMAIN client \ missed' :
           ~ (bypass /\ LastMalloc(pos, a) /\ Current.size = client[a].size)
  PROVE  FirstInv'
<1>1. mode = "dumping" /\ pos \in 1 .. Len(api_records)
  BY DEF Dumping, FirstInv, TypeOK
<1>2. Written'
  <2> SUFFICES ASSUME bypass, NEW a \in DOMAIN client \ missed',
                      NEW i \in 1 .. Len(api_records), LastMalloc(i, a), i < pos + 1,
                      api_records[i].size = client[a].size
               PROVE  OnDisk(a)
    BY <1>1 DEF FirstInv, Written, OnDisk, LastMalloc, Passing, Garbled
  <2>1. i # pos
    BY DEF Current
  <2> QED BY <1>1, <2>1 DEF FirstInv, Written
<1> QED BY <1>1, <1>2, DumpLoopFirst

LEMMA DumpEntryFirst ==
  ASSUME FirstInv, cr_dump_memory_entry, TypeOK' PROVE FirstInv'
<1>1. PICK c \in Readable :
        file_mem' = With(file_mem, Current.ptr,
                         [size |-> Current.size, data |-> dev[c].data])
  BY DEF cr_dump_memory_entry
<1>2. /\ UNCHANGED <<mode, bypass, dev, client, api_records, saved, checkpoint,
                     file_records>>
      /\ mode = "dumping" /\ pos' = pos + 1 /\ pos \in 1 .. Len(api_records)
      /\ missed' = missed \ {Current.ptr} /\ AtMalloc
  BY DEF cr_dump_memory_entry, AtMalloc, Dumping, memVars, ghosts, FirstInv, TypeOK
<1>3. Written'
  <2> SUFFICES ASSUME bypass, NEW a \in DOMAIN client \ missed',
                      NEW i \in 1 .. Len(api_records), LastMalloc(i, a), i < pos + 1,
                      api_records[i].size = client[a].size
               PROVE  /\ a \in DOMAIN file_mem'
                      /\ file_mem'[a].size = client[a].size \/ a \in Garbled
                      /\ file_mem'[a].data = client[a].data
    BY <1>2 DEF FirstInv, Written, OnDisk, LastMalloc, Passing, Garbled
  <2>0. file_records = api_records /\ dev = client
    BY <1>2 DEF FirstInv, Written, Exact
  <2>1. CASE i = pos
    <3>1. Current.ptr = a /\ c = a /\ dev[a] = client[a] /\ Current.size = client[a].size
      BY <1>2, <2>1, LastMallocIsReadable DEF Current
    <3> QED BY <1>1, <3>1 DEF With
  <2>2. CASE i < pos /\ Current.ptr # a
    <3>1. OnDisk(a)
      BY <1>2, <2>2 DEF FirstInv, Written
    <3> QED BY <1>1, <2>2, <3>1 DEF OnDisk, With
  <2>3. CASE i < pos /\ Current.ptr = a
    <3>1. c = a
      BY <1>1, <1>2, <2>0, <2>3, ReadFromStart
    <3>2. a \in Garbled
      BY <1>2, <2>0, <2>3 DEF LastMalloc, Passing, Current, AtMalloc, Garbled
    <3> QED BY <1>1, <2>0, <2>3, <3>1, <3>2 DEF With
  <2> QED BY <1>2, <2>1, <2>2, <2>3
<1> QED BY <1>2, <1>3, DumpLoopFirst

LEMMA DumpSkipFirst ==
  ASSUME FirstInv, dump_skips_record \/ dump_entry_unreadable, TypeOK'
  PROVE  FirstInv'
<1>1. /\ UNCHANGED <<mode, bypass, dev, client, api_records, saved, checkpoint,
                     file_records, file_mem, missed>>
      /\ Dumping /\ pos' = pos + 1
  BY DEF dump_skips_record, dump_entry_unreadable, AtMalloc, memVars, fileVars, ghosts
<1>2. ASSUME NEW a \in DOMAIN client, bypass, LastMalloc(pos, a),
             Current.size = client[a].size
      PROVE  FALSE
  <2>1. CASE dump_skips_record
    BY <1>2, <2>1 DEF dump_skips_record, LastMalloc, Current
  <2>2. CASE dump_entry_unreadable
    <3>1. Readable = {a}
      BY <1>2, <2>2, LastMallocIsReadable DEF dump_entry_unreadable
    <3> QED BY <2>2, <3>1 DEF dump_entry_unreadable
  <2> QED BY <2>1, <2>2
<1> QED BY <1>1, <1>2, PassedOver

LEMMA DumpUnopenedFirst ==
  ASSUME FirstInv, dump_entry_unopened, TypeOK' PROVE FirstInv'
<1>1. /\ UNCHANGED <<mode, bypass, dev, client, api_records, saved, file_records,
                     file_mem>>
      /\ Dumping /\ pos' = pos + 1 /\ checkpoint' = "damaged"
      /\ missed' = missed \cup {Current.ptr}
  BY DEF dump_entry_unopened, AtMalloc, memVars
<1>2. \A a \in DOMAIN client \ missed' : ~ LastMalloc(pos, a)
  BY <1>1 DEF LastMalloc, Current
<1> QED BY <1>1, <1>2, PassedOver

LEMMA DumpFailsFirst ==
  ASSUME FirstInv, dump_entry_fails, TypeOK' PROVE FirstInv'
<1>1. /\ UNCHANGED <<bypass, dev, client, api_records, saved>>
      /\ mode = "dumping" /\ mode' = "serving" /\ checkpoint' = "damaged"
  BY DEF dump_entry_fails, AtMalloc, Dumping, memVars
<1>2. Written'
  BY <1>1 DEF Written
<1> QED BY <1>1, <1>2, DumpLoopFirst

(* At the end of the loop the image is what the client holds, and every    *)
(* block of it that was not missed is on disk.                             *)
LEMMA CreatedFirst ==
  ASSUME FirstInv, checkpoint_created, TypeOK' PROVE FirstInv'
<1>1. /\ UNCHANGED <<bypass, dev, client, api_records, file_records, file_mem, missed>>
      /\ mode = "dumping" /\ mode' = "serving" /\ saved' = client
      /\ pos > Len(api_records) /\ pos \in Nat
  BY DEF checkpoint_created, memVars, fileVars, FirstInv, TypeOK
<1>2. Apart' /\ Exact' /\ Tracked'
  BY <1>1 DEF FirstInv, Apart, Exact, Tracked, LastMalloc, Passing
<1>3. Written' /\ Modes'
  BY <1>1 DEF Written, Modes
<1>4. FirstCheckpointCovers'
  <2> SUFFICES ASSUME bypass, NEW a \in DOMAIN client \ missed PROVE OnDisk(a)
    BY <1>1 DEF FirstCheckpointCovers, OnDisk, Garbled
  <2>2. PICK i \in 1 .. Len(api_records) :
          LastMalloc(i, a) /\ api_records[i].size = client[a].size
    BY DEF FirstInv, Tracked
  <2>3. i < pos
    BY <1>1, <2>2 DEF FirstInv, TypeOK
  <2> QED BY <1>1, <2>2, <2>3 DEF FirstInv, Written
<1> QED BY <1>2, <1>3, <1>4 DEF FirstInv

LEMMA StopFirst ==
  ASSUME FirstInv, svc_exit \/ Crash, TypeOK' PROVE FirstInv'
<1>1. Stop
  BY DEF svc_exit, Crash
<1>2. /\ dev' = NoBlocks /\ client' = NoBlocks /\ mode' = "down"
      /\ DOMAIN NoBlocks = {}
      /\ UNCHANGED <<bypass, checkpoint, saved, fileVars>>
  BY <1>1 DEF Stop, NoBlocks
<1>3. Apart' /\ Exact' /\ Tracked' /\ Written' /\ Modes'
  BY <1>2 DEF Apart, Exact, Tracked, Written, Modes
<1> QED BY <1>2, <1>3, ImageKept DEF FirstInv

LEMMA RestoreFirst ==
  ASSUME FirstInv, server_runtime_restore \/ RestoreStep, TypeOK'
  PROVE  FirstInv'
<1>1. CASE server_runtime_restore
  <2>1. ~ bypass' /\ mode' = "restoring" /\ dev' = dev
    BY <1>1 DEF server_runtime_restore, memVars
  <2>2. Apart'
    BY <2>1 DEF FirstInv, Apart
  <2> QED BY <2>1, <2>2, RestoredInv
<1>2. CASE RestoreStep
  <2>1. mode = "restoring" /\ bypass' = bypass /\ mode' # "dumping"
    BY <1>2 DEF RestoreStep, cr_restore_memory, restore_short_file,
       restore_out_of_memory, cr_call_record, replayed_sync_waits,
       restore_complete, Restoring, GoOn, GiveUp
  <2>2. ~ bypass'
    BY <2>1 DEF FirstInv, Modes
  <2>3. Apart'
    <3>1. CASE cr_restore_memory
      <4>1. PICK p \in Places(Replayed.size) :
              dev' = With(dev, p, [size |-> Replayed.size, data |-> Contents])
        BY <3>1 DEF cr_restore_memory
      <4>2. p \in Room(Replayed.size) /\ Replayed.size \in Sizes
        BY <3>1, ReplayedType DEF Places, cr_restore_memory, FirstInv
      <4> QED BY <4>1, <4>2, NewBlockIsApart DEF FirstInv
    <3>2. CASE cr_call_record
      <4>1. CASE CudaFree(memory_mg_get(Replayed.ptr))
        BY <4>1, FewerBlocksAreApart DEF CudaFree, FirstInv
      <4>2. ASSUME NEW v, dev' = Stored(Replayed.ptr, Replayed.size, v)
            PROVE  Apart'
        <5>1. \A b \in DOMAIN dev : dev[b] \in Block
          BY MapFacts DEF FirstInv, TypeOK
        <5>2. /\ DOMAIN dev' = DOMAIN dev
              /\ \A b \in DOMAIN dev : dev'[b].size = dev[b].size
          BY <4>2, <5>1 DEF Stored, Filled, Block
        <5> QED BY <5>2 DEF FirstInv, Apart
      <4>3. CASE dev' = dev
        BY <4>3 DEF FirstInv, Apart
      <4> QED BY <3>2, <4>1, <4>2, <4>3 DEF cr_call_record
    <3>3. CASE \/ restore_short_file \/ restore_out_of_memory
               \/ replayed_sync_waits \/ restore_complete
      <4>1. dev' = dev
        BY <3>3 DEF restore_short_file, restore_out_of_memory, replayed_sync_waits,
           restore_complete, memVars
      <4> QED BY <4>1 DEF FirstInv, Apart
    <3> QED BY <1>2, <3>1, <3>2, <3>3 DEF RestoreStep
  <2> QED BY <2>1, <2>2, <2>3, RestoredInv
<1> QED BY <1>1, <1>2

LEMMA FirstNext == ASSUME FirstInv, [Next]_vars PROVE FirstInv'
<1>1. TypeOK'
  BY TypeNext DEF FirstInv
<1>2. CASE UNCHANGED vars
  <2>1. UNCHANGED <<bypass, dev, client, api_records, fileVars, saved, checkpoint,
                    mode, pos>>
    BY <1>2 DEF vars, memVars, ghosts
  <2>2. Apart' /\ Exact' /\ Tracked' /\ Written' /\ Modes'
    BY <2>1 DEF FirstInv, Apart, Exact, Tracked, Written, Modes, LastMalloc,
                Passing, OnDisk, Garbled, fileVars
  <2> QED BY <1>1, <2>1, <2>2, ImageKept DEF FirstInv
<1>3. CASE Handler
  BY <1>1, <1>3, MallocFirst, MallocFailsFirst, FreeFirst, MemcpyFirst,
     RecordedStoreFirst, ParallelFirst DEF Handler
<1>4. CASE cr_dump \/ cr_dump_fails \/ DumpStep
  BY <1>1, <1>4, DumpStartFirst, DumpEntryFirst, DumpSkipFirst, DumpUnopenedFirst,
     DumpFailsFirst, CreatedFirst DEF DumpStep
<1>5. CASE svc_exit \/ Crash \/ server_runtime_restore \/ RestoreStep
  BY <1>1, <1>5, StopFirst, RestoreFirst
<1> QED BY <1>2, <1>3, <1>4, <1>5 DEF Next

LEMMA FirstInvAlways == Spec => []FirstInv
BY FirstInit, FirstNext, PTL DEF Spec

(* Whatever a server that has not restored anything reports as created has *)
(* every block of the client's image on disk, all but those whose file the *)
(* dump could not open: for any sizes, stores and faults and any reuse of  *)
(* addresses, with records of failed allocations among the others, which   *)
(* can only shorten the file of a block they happen to name.               *)
THEOREM FirstCheckpointAlwaysCovers == Spec => []FirstCheckpointCovers
<1>1. FirstInv => FirstCheckpointCovers
  BY DEF FirstInv
<1> QED BY <1>1, FirstInvAlways, PTL

------------------------------------------------------------------------------
LEMMA LeastOf ==
  ASSUME NEW T, T \subseteq Nat, T # {}
  PROVE  \E n \in T : \A m \in T : n <= m
<1> DEFINE R == OpToRel(<, Nat)
<1>1. IsWellFoundedOn(R, Nat)
  BY NatLessThanWellFounded
<1>2. \A m, n \in Nat : m < n => <<m, n>> \in R
  BY DEF OpToRel
<1> HIDE DEF R
<1>3. \E x \in T : \A y \in T : ~ (<<y, x>> \in R)
  BY <1>1, WFMin
<1>4. PICK x \in T : \A y \in T : ~ (<<y, x>> \in R)
  BY <1>3, Zenon
<1>5. \A y \in T : ~ (y < x)
  BY <1>2, <1>4, Zenon
<1> QED BY <1>5

Windows(m) == (0 .. Len(m)) \X (-1 .. Len(m) - 1)
Middle(w) == w[1] + (w[2] - w[1]) \div 2

(* One turn of the loop of memory_mg_search_map.                           *)
Turn(look, m, w, a) ==
  LET e == m[Middle(w) + 1]
  IN  IF w[2] < w[1] THEN a
      ELSE IF e.client > a
      THEN IF Middle(w) = 0 THEN a ELSE look[<<w[1], Middle(w) - 1>>]
      ELSE IF Covers(e, a) THEN e.cuda + (a - e.client)
      ELSE look[<<Middle(w) + 1, w[2]>>]

Loops(look, m, a) == look = [w \in Windows(m) |-> Turn(look, m, w, a)]

LEMMA BisectLoops ==
  ASSUME NEW m, NEW a, NEW f, Loops(f, m, a)
  PROVE  \E g : Loops(g, m, a) /\ Bisect(m, a) = g[<<0, Len(m) - 1>>]
<1> DEFINE g == CHOOSE look : Loops(look, m, a)
<1>1. Loops(g, m, a)
  BY Zenon
<1>2. Bisect(m, a) = g[<<0, Len(m) - 1>>]
  BY Zenon DEF Bisect, Loops, Turn, Middle, Windows
<1> QED BY <1>1, <1>2, Zenon

LEMMA WindowFacts ==
  ASSUME NEW m \in Seq(Translation), NEW w \in Windows(m), w[1] <= w[2]
  PROVE  /\ w = <<w[1], w[2]>> /\ w[1] \in Nat /\ w[2] \in Nat
         /\ Middle(w) \in w[1] .. w[2] /\ Middle(w) + 1 \in 1 .. Len(m)
         /\ m[Middle(w) + 1] \in Translation
         /\ Middle(w) # 0 => <<w[1], Middle(w) - 1>> \in Windows(m)
         /\ <<Middle(w) + 1, w[2]>> \in Windows(m)
<1>1. Len(m) \in Nat
  OBVIOUS
<1>2. w[1] \in 0 .. Len(m) /\ w[2] \in -1 .. Len(m) - 1 /\ w = <<w[1], w[2]>>
  BY DEF Windows
<1>3. Middle(w) \in w[1] .. w[2]
  BY <1>1, <1>2 DEF Middle
<1> HIDE DEF Middle
<1>4. Middle(w) + 1 \in 1 .. Len(m)
  BY <1>1, <1>2, <1>3
<1> QED BY <1>1, <1>2, <1>3, <1>4 DEF Windows

(* The loop has one result, since the window shrinks at every turn.        *)
LEMMA LoopsAgree ==
  ASSUME NEW m \in Seq(Translation), NEW a, NEW f, NEW g,
         Loops(f, m, a), Loops(g, m, a), NEW w \in Windows(m)
  PROVE  f[w] = g[w]
<1> DEFINE size(v) == v[2] - v[1] + Len(m) + 2
           Bad == {v \in Windows(m) : f[v] # g[v]}
           Far == {size(v) : v \in Bad}
<1>1. \A v \in Windows(m) : v[1] \in 0 .. Len(m) /\ v[2] \in -1 .. Len(m) - 1 /\ size(v) \in Nat
  BY DEF Windows
<1>2. \A v \in Windows(m) : f[v] = Turn(f, m, v, a) /\ g[v] = Turn(g, m, v, a)
  BY Zenon DEF Loops
<1> SUFFICES ASSUME Bad # {} PROVE FALSE
  OBVIOUS
<1>3. PICK n \in Far : \A k \in Far : n <= k
  <2>1. Far \subseteq Nat /\ Far # {}
    BY <1>1
  <2> HIDE DEF Far
  <2> QED BY <2>1, LeastOf, Zenon
<1>4. PICK v \in Bad : n = size(v)
  BY <1>3
<1>5. v \in Windows(m) /\ f[v] # g[v] /\ \A u \in Windows(m) : size(u) < size(v) => f[u] = g[u]
  <2>1. v \in Windows(m) /\ f[v] # g[v]
    OBVIOUS
  <2>2. ASSUME NEW u \in Windows(m), size(u) < size(v), f[u] # g[u] PROVE FALSE
    <3>1. size(u) \in Far
      BY <2>2
    <3>2. n <= size(u) /\ size(u) \in Nat /\ n = size(v)
      BY <1>1, <1>3, <1>4, <3>1
    <3> HIDE DEF size
    <3> QED BY <1>1, <2>1, <2>2, <3>2
  <2> QED BY <2>1, <2>2
<1> HIDE DEF Bad, Far
<1>6. CASE v[2] < v[1]
  BY <1>2, <1>5, <1>6 DEF Turn
<1>7. CASE v[1] <= v[2]
  <2> DEFINE l == <<v[1], Middle(v) - 1>>
             r == <<Middle(v) + 1, v[2]>>
  <2>1. /\ Middle(v) \in v[1] .. v[2] /\ v[1] \in Nat /\ v[2] \in Nat
        /\ Middle(v) # 0 => l \in Windows(m)
        /\ r \in Windows(m)
    BY <1>5, <1>7, WindowFacts
  <2> HIDE DEF Middle
  <2>2. size(l) < size(v) /\ size(r) < size(v)
    <3>1. l[1] = v[1] /\ l[2] = Middle(v) - 1 /\ r[1] = Middle(v) + 1 /\ r[2] = v[2]
      OBVIOUS
    <3>2. Len(m) \in Nat
      OBVIOUS
    <3> HIDE DEF l, r
    <3> QED BY <2>1, <3>1, <3>2, SMTT(30)
  <2>3. (Middle(v) # 0 => f[l] = g[l]) /\ f[r] = g[r]
    BY <1>5, <2>1, <2>2
  <2> HIDE DEF size
  <2> QED BY <1>2, <1>5, <2>3 DEF Turn
<1> QED BY <1>1, <1>5, <1>6, <1>7

LEMMA BisectIs ==
  ASSUME NEW m \in Seq(Translation), NEW a, NEW f, Loops(f, m, a)
  PROVE  Bisect(m, a) = f[<<0, Len(m) - 1>>]
<1>1. PICK g : Loops(g, m, a) /\ Bisect(m, a) = g[<<0, Len(m) - 1>>]
  BY BisectLoops
<1>2. <<0, Len(m) - 1>> \in Windows(m)
  BY DEF Windows
<1> QED BY <1>1, <1>2, LoopsAgree

(* When every block is where it was, nothing is moved, whatever entry the  *)
(* search stops at.                                                        *)
LEMMA NothingMoves ==
  ASSUME NEW m \in Seq(Translation), NEW a \in Addr,
         \A i \in 1 .. Len(m) : m[i].client = m[i].cuda
  PROVE  Bisect(m, a) = a
<1> DEFINE f == [w \in Windows(m) |-> a]
<1>1. ASSUME NEW w \in Windows(m) PROVE a = Turn(f, m, w, a)
  <2>1. CASE w[2] < w[1]
    BY <2>1 DEF Turn
  <2>2. CASE w[1] <= w[2]
    <3> DEFINE e == m[Middle(w) + 1]
    <3>1. e.client = e.cuda /\ e.client \in Nat /\ a \in Nat
      BY <2>2, WindowFacts, AddressesAreNumbers DEF Translation
    <3>2. /\ Middle(w) # 0 => f[<<w[1], Middle(w) - 1>>] = a
          /\ f[<<Middle(w) + 1, w[2]>>] = a
      BY <2>2, WindowFacts
    <3>3. e.cuda + (a - e.client) = a
      BY <3>1
    <3> HIDE DEF f
    <3> QED BY <3>2, <3>3 DEF Turn
  <2> QED BY <2>1, <2>2 DEF Windows
<1>2. Loops(f, m, a)
  <2>1. f = [w \in Windows(m) |-> Turn(f, m, w, a)]
    BY <1>1
  <2> QED BY <2>1, Zenon DEF Loops
<1>3. <<0, Len(m) - 1>> \in Windows(m)
  BY DEF Windows
<1> QED BY <1>2, <1>3, BisectIs

LEMMA TranslationFacts ==
  ASSUME NEW e \in Translation
  PROVE  /\ e.client \in Addr /\ e.client \in Nat
         /\ e.cuda \in Addr /\ e.cuda \in Nat /\ e.size \in Sizes
BY AddressesAreNumbers DEF Translation

LEMMA ListFacts ==
  ASSUME NEW m \in Seq(Translation)
  PROVE  /\ Len(m) \in Nat
         /\ \A i \in 1 .. Len(m) : /\ m[i] \in Translation
                                   /\ m[i].client \in Addr /\ m[i].client \in Nat
                                   /\ m[i].cuda \in Addr /\ m[i].cuda \in Nat
<1>1. Len(m) \in Nat /\ \A i \in 1 .. Len(m) : m[i] \in Translation
  OBVIOUS
<1> QED BY <1>1, TranslationFacts

SortedList(m) == \A i, j \in 1 .. Len(m) : i < j => m[i].client < m[j].client

(* With blocks of one cell an entry catches its own address only.          *)
LEMMA UnitCovers ==
  ASSUME Sizes \subseteq {1}, NEW e \in Translation, NEW a \in Addr
  PROVE  Covers(e, a) <=> e.client = a
<1>1. e.size = 1 /\ e.client \in Nat /\ a \in Nat
  BY AddressesAreNumbers DEF Translation
<1> QED BY <1>1 DEF Covers

LEMMA EntryIsFound ==
  ASSUME Sizes \subseteq {1}, NEW m \in Seq(Translation), SortedList(m), NEW i \in 1 .. Len(m)
  PROVE  Bisect(m, m[i].client) = m[i].cuda
<1> DEFINE a == m[i].client
           has(w) == i - 1 \in w[1] .. w[2]
           f == [w \in Windows(m) |-> IF has(w) THEN m[i].cuda ELSE a]
<1>1. a \in Addr /\ a \in Nat /\ m[i].cuda \in Nat
  <2>1. m[i] \in Translation
    OBVIOUS
  <2> QED BY <2>1, AddressesAreNumbers DEF Translation
<1>2. ASSUME NEW w \in Windows(m)
      PROVE  f[w] = Turn(f, m, w, a)
  <2>1. CASE w[2] < w[1]
    BY <2>1 DEF Turn, Windows
  <2>2. CASE w[1] <= w[2]
    <3> DEFINE e == m[Middle(w) + 1]
               l == <<w[1], Middle(w) - 1>>
               r == <<Middle(w) + 1, w[2]>>
    <3>1. /\ w[1] \in Nat /\ w[2] \in Nat /\ Middle(w) \in w[1] .. w[2]
          /\ Middle(w) + 1 \in 1 .. Len(m) /\ e \in Translation
          /\ (Middle(w) # 0 => l \in Windows(m)) /\ r \in Windows(m)
      BY <2>2, WindowFacts
    <3>2. e.client \in Nat /\ e.cuda \in Nat
      BY <3>1, AddressesAreNumbers DEF Translation
    <3>3. /\ e.client > a <=> Middle(w) > i - 1
          /\ e.client = a <=> Middle(w) = i - 1
      <4>1. /\ Middle(w) + 1 < i => e.client < a
            /\ i < Middle(w) + 1 => a < e.client
        BY <3>1 DEF SortedList
      <4> QED BY <1>1, <3>1, <3>2, <4>1, SMTT(30)
    <3>4. Covers(e, a) <=> e.client = a
      BY <1>1, <3>1, UnitCovers
    <3>5. /\ Middle(w) # 0 => f[l] = IF i - 1 \in w[1] .. Middle(w) - 1 THEN m[i].cuda ELSE a
          /\ f[r] = IF i - 1 \in Middle(w) + 1 .. w[2] THEN m[i].cuda ELSE a
          /\ f[w] = IF i - 1 \in w[1] .. w[2] THEN m[i].cuda ELSE a
      BY <3>1
    <3> HIDE DEF f, Middle
    <3>6. CASE e.client > a
      <4>1. Middle(w) # 0 /\ f[l] = f[w]
        BY <3>1, <3>3, <3>5, <3>6
      <4>2. ~ w[2] < w[1] /\ e.client > a
        BY <3>1, <3>6
      <4>3. Turn(f, m, w, a) = f[l]
        BY <4>1, <4>2 DEF Turn
      <4> QED BY <4>1, <4>3
    <3>7. CASE e.client = a
      <4>1. f[w] = m[i].cuda /\ e = m[i]
        BY <3>1, <3>3, <3>5, <3>7
      <4>2. e.cuda + (a - e.client) = e.cuda
        BY <1>1, <3>2, <3>7
      <4>3. ~ w[2] < w[1] /\ ~ e.client > a /\ Covers(e, a)
        BY <3>1, <3>2, <3>4, <3>7
      <4>4. Turn(f, m, w, a) = e.cuda + (a - e.client)
        BY <4>3 DEF Turn
      <4> QED BY <4>1, <4>2, <4>4
    <3>8. CASE e.client < a
      <4>1. f[r] = f[w]
        BY <1>1, <3>1, <3>2, <3>3, <3>5, <3>8
      <4>2. ~ w[2] < w[1] /\ ~ e.client > a /\ ~ Covers(e, a)
        BY <1>1, <3>1, <3>2, <3>4, <3>8
      <4>3. Turn(f, m, w, a) = f[r]
        BY <4>2 DEF Turn
      <4> QED BY <4>1, <4>3
    <3> QED BY <1>1, <3>2, <3>6, <3>7, <3>8
  <2> QED BY <2>1, <2>2 DEF Windows
<1>3. Loops(f, m, a)
  <2>1. f = [w \in Windows(m) |-> Turn(f, m, w, a)]
    BY <1>2
  <2> QED BY <2>1, Zenon DEF Loops
<1>4. <<0, Len(m) - 1>> \in Windows(m) /\ i - 1 \in 0 .. Len(m) - 1
  BY DEF Windows
<1>5. Bisect(m, a) = f[<<0, Len(m) - 1>>]
  BY <1>3, BisectIs
<1> QED BY <1>4, <1>5

LEMMA OthersPassThrough ==
  ASSUME Sizes \subseteq {1}, NEW m \in Seq(Translation), NEW a \in Addr,
         \A i \in 1 .. Len(m) : m[i].client # a
  PROVE  Bisect(m, a) = a
<1> DEFINE f == [w \in Windows(m) |-> a]
<1>1. ASSUME NEW w \in Windows(m) PROVE a = Turn(f, m, w, a)
  <2>1. CASE w[2] < w[1]
    BY <2>1 DEF Turn
  <2>2. CASE w[1] <= w[2]
    <3>1. ~ Covers(m[Middle(w) + 1], a)
      BY <2>2, WindowFacts, UnitCovers
    <3>2. /\ Middle(w) # 0 => f[<<w[1], Middle(w) - 1>>] = a
          /\ f[<<Middle(w) + 1, w[2]>>] = a
      BY <2>2, WindowFacts
    <3> HIDE DEF f
    <3> QED BY <3>1, <3>2 DEF Turn
  <2> QED BY <2>1, <2>2 DEF Windows
<1>2. Loops(f, m, a)
  <2>1. f = [w \in Windows(m) |-> Turn(f, m, w, a)]
    BY <1>1
  <2> QED BY <2>1, Zenon DEF Loops
<1>3. <<0, Len(m) - 1>> \in Windows(m)
  BY DEF Windows
<1> QED BY <1>2, <1>3, BisectIs

(* Inserting e at p moves the elements from there on up by one place.      *)
Shifted(s, t, p, e) ==
  \A j \in 1 .. Len(s) + 1 :
    t[j] = IF j < p THEN s[j] ELSE IF j = p THEN e ELSE s[j - 1]

LEMMA InsertAtIsShift ==
  ASSUME NEW S, NEW s \in Seq(S), NEW i \in 1 .. Len(s) + 1, NEW e \in S
  PROVE  /\ InsertAt(s, i, e) \in Seq(S)
         /\ Len(InsertAt(s, i, e)) = Len(s) + 1
         /\ Shifted(s, InsertAt(s, i, e), i, e)
<1> DEFINE lo == SubSeq(s, 1, i - 1)
           hi == SubSeq(s, i, Len(s))
<1>1. lo \in Seq(S) /\ Len(lo) = i - 1 /\ \A j \in 1 .. i - 1 : lo[j] = s[j]
  OBVIOUS
<1>2. /\ hi \in Seq(S) /\ Len(hi) = Len(s) - i + 1
      /\ \A j \in 1 .. Len(s) - i + 1 : hi[j] = s[i + j - 1]
  OBVIOUS
<1>3. <<e>> \in Seq(S) /\ Len(<<e>>) = 1 /\ <<e>>[1] = e
  OBVIOUS
<1> HIDE DEF lo, hi
<1>4. /\ (lo \o <<e>>) \in Seq(S) /\ Len(lo \o <<e>>) = i
      /\ \A j \in 1 .. i : (lo \o <<e>>)[j] = IF j < i THEN s[j] ELSE e
  BY <1>1, <1>3
<1> DEFINE left == lo \o <<e>>
<1> HIDE DEF left
<1>5. left \in Seq(S) /\ Len(left) = i
      /\ \A j \in 1 .. i : left[j] = IF j < i THEN s[j] ELSE e
  BY <1>4 DEF left
<1>6. /\ (left \o hi) \in Seq(S) /\ Len(left \o hi) = Len(s) + 1
      /\ \A j \in 1 .. Len(s) + 1 :
           (left \o hi)[j] = IF j <= i THEN left[j] ELSE hi[j - i]
  <2>1. Len(left) + Len(hi) = Len(s) + 1
    BY <1>2, <1>5
  <2>2. left \in Seq(S) /\ hi \in Seq(S)
    BY <1>2, <1>5
  <2>3. /\ left \o hi \in Seq(S) /\ Len(left \o hi) = Len(left) + Len(hi)
        /\ \A j \in 1 .. Len(left) + Len(hi) :
             (left \o hi)[j] = IF j <= Len(left) THEN left[j]
                                                ELSE hi[j - Len(left)]
    BY <2>2, ConcatProperties, Zenon
  <2>4. Len(left) = i
    BY <1>5
  <2> QED BY <2>1, <2>3, <2>4
<1>7. InsertAt(s, i, e) = left \o hi
  BY DEF InsertAt, left, lo, hi
<1> QED BY <1>2, <1>5, <1>6, <1>7 DEF Shifted

Smaller(m, a) == {i \in 1 .. Len(m) : m[i].client < a}

(* On a sorted list the entries with smaller addresses are the first ones. *)
LEMMA SmallerAreFirst ==
  ASSUME NEW m \in Seq(Translation), SortedList(m), NEW a \in Addr
  PROVE  /\ Cardinality(Smaller(m, a)) \in 0 .. Len(m)
         /\ \A i \in 1 .. Len(m) : i <= Cardinality(Smaller(m, a)) <=> m[i].client < a
<1> DEFINE Rest == {i \in 1 .. Len(m) + 1 : i \in 1 .. Len(m) => ~ m[i].client < a}
<1>1. Len(m) \in Nat /\ a \in Nat /\ \A i \in 1 .. Len(m) : m[i].client \in Nat
  BY ListFacts, AddressesAreNumbers
<1>2. PICK n \in Rest : \A k \in Rest : n <= k
  <2>1. Rest \subseteq Nat /\ Len(m) + 1 \in Rest
    BY <1>1
  <2> HIDE DEF Rest
  <2> QED BY <2>1, LeastOf, Zenon
<1>3. n \in 1 .. Len(m) + 1
  OBVIOUS
<1>4. ASSUME NEW i \in 1 .. Len(m) PROVE i <= n - 1 <=> m[i].client < a
  <2>1. CASE i <= n - 1
    BY <1>1, <1>2, <1>3, <2>1
  <2>2. CASE n <= i
    <3>1. ~ m[n].client < a /\ n \in 1 .. Len(m)
      BY <1>1, <1>3, <2>2
    <3>2. m[n].client <= m[i].client
      BY <1>1, <1>3, <2>2, <3>1 DEF SortedList
    <3> QED BY <1>1, <1>3, <2>2, <3>1, <3>2
  <2> QED BY <1>1, <1>3, <2>1, <2>2
<1>5. Smaller(m, a) = 1 .. n - 1
  BY <1>1, <1>3, <1>4 DEF Smaller
<1>6. Cardinality(1 .. n - 1) = n - 1
  BY <1>1, <1>3, FS_Interval
<1> QED BY <1>1, <1>3, <1>4, <1>5, <1>6

(* n is m with an entry that leads from a to p.                            *)
Entered(m, n, a, p) ==
  /\ \E i \in 1 .. Len(n) : n[i].client = a /\ n[i].cuda = p
  /\ \A i \in 1 .. Len(n) :
       \/ n[i].client = a /\ n[i].cuda = p
       \/ \E j \in 1 .. Len(m) : n[i].client = m[j].client /\ n[i].cuda = m[j].cuda
  /\ \A j \in 1 .. Len(m) : m[j].client # a =>
       \E i \in 1 .. Len(n) : n[i].client = m[j].client /\ n[i].cuda = m[j].cuda

LEMMA InsertEnters ==
  ASSUME NEW m \in Seq(Translation), SortedList(m), NEW e \in Translation,
         \A i \in 1 .. Len(m) : m[i].client # e.client,
         NEW n, n = InsertAt(m, Cardinality(Smaller(m, e.client)) + 1, e)
  PROVE  SortedList(n) /\ Entered(m, n, e.client, e.cuda)
<1> DEFINE k == Cardinality(Smaller(m, e.client)) + 1
<1>1. Len(m) \in Nat /\ e.client \in Addr /\ e.client \in Nat
      /\ \A i \in 1 .. Len(m) : m[i].client \in Nat
  BY ListFacts, TranslationFacts
<1>2. k \in 1 .. Len(m) + 1 /\ \A i \in 1 .. Len(m) : i < k <=> m[i].client < e.client
  <2>1. /\ Cardinality(Smaller(m, e.client)) \in 0 .. Len(m)
        /\ \A i \in 1 .. Len(m) :
             i <= Cardinality(Smaller(m, e.client)) <=> m[i].client < e.client
    BY <1>1, SmallerAreFirst
  <2> QED BY <1>1, <2>1
<1>3. n = InsertAt(m, k, e)
  OBVIOUS
<1> HIDE DEF k
<1>4. Len(n) = Len(m) + 1 /\ Shifted(m, n, k, e)
  <2>1. Len(InsertAt(m, k, e)) = Len(m) + 1 /\ Shifted(m, InsertAt(m, k, e), k, e)
    BY <1>2, InsertAtIsShift
  <2> QED BY <1>3, <2>1
<1>5. \A i \in 1 .. Len(n) :
        n[i] = IF i < k THEN m[i] ELSE IF i = k THEN e ELSE m[i - 1]
  BY <1>4 DEF Shifted
<1>6. SortedList(n)
  <2> SUFFICES ASSUME NEW i \in 1 .. Len(n), NEW j \in 1 .. Len(n), i < j
               PROVE  n[i].client < n[j].client
    BY DEF SortedList
  <2>1. /\ i < k => n[i] = m[i] /\ i \in 1 .. Len(m)
        /\ i = k => n[i] = e
        /\ i > k => n[i] = m[i - 1] /\ i - 1 \in 1 .. Len(m)
        /\ j < k => n[j] = m[j] /\ j \in 1 .. Len(m)
        /\ j = k => n[j] = e
        /\ j > k => n[j] = m[j - 1] /\ j - 1 \in 1 .. Len(m)
    BY <1>1, <1>2, <1>4, <1>5
  <2>2. CASE j < k
    BY <1>1, <1>2, <2>1, <2>2 DEF SortedList
  <2>3. CASE j = k
    BY <1>1, <1>2, <2>1, <2>3
  <2>4. CASE j > k /\ i < k
    <3>1. m[i].client < e.client /\ ~ m[j - 1].client < e.client
      BY <1>1, <1>2, <2>1, <2>4
    <3> QED BY <1>1, <2>1, <2>4, <3>1
  <2>5. CASE j > k /\ i = k
    <3>1. ~ m[j - 1].client < e.client /\ m[j - 1].client # e.client
      BY <1>1, <1>2, <2>1, <2>5
    <3> QED BY <1>1, <2>1, <2>5, <3>1
  <2>6. CASE j > k /\ i > k
    BY <1>1, <1>2, <2>1, <2>6 DEF SortedList
  <2> QED BY <1>2, <2>2, <2>3, <2>4, <2>5, <2>6
<1>7. ASSUME NEW i \in 1 .. Len(n)
      PROVE  \/ n[i].client = e.client /\ n[i].cuda = e.cuda
             \/ \E j \in 1 .. Len(m) : n[i].client = m[j].client /\ n[i].cuda = m[j].cuda
  <2>1. i < k => n[i] = m[i] /\ i \in 1 .. Len(m)
    BY <1>1, <1>2, <1>4, <1>5
  <2>2. i > k => n[i] = m[i - 1] /\ i - 1 \in 1 .. Len(m)
    BY <1>1, <1>2, <1>4, <1>5
  <2>3. i = k => n[i] = e
    BY <1>5
  <2> QED BY <1>2, <2>1, <2>2, <2>3
<1>8. ASSUME NEW j \in 1 .. Len(m)
      PROVE  \E i \in 1 .. Len(n) : n[i].client = m[j].client /\ n[i].cuda = m[j].cuda
  <2>1. j < k => n[j] = m[j] /\ j \in 1 .. Len(n)
    BY <1>1, <1>2, <1>4, <1>5
  <2>2. j >= k => n[j + 1] = m[j] /\ j + 1 \in 1 .. Len(n)
    BY <1>1, <1>2, <1>4, <1>5
  <2> QED BY <1>2, <2>1, <2>2
<1>9. n[k] = e /\ k \in 1 .. Len(n)
  BY <1>1, <1>2, <1>4, <1>5
<1> QED BY <1>6, <1>7, <1>8, <1>9 DEF Entered

LEMMA OverwriteEnters ==
  ASSUME NEW m \in Seq(Translation), SortedList(m), NEW a, NEW p,
         \E i \in 1 .. Len(m) : m[i].client = a,
         NEW n, n = [i \in 1 .. Len(m) |-> IF m[i].client = a THEN [m[i] EXCEPT !.cuda = p]
                                                             ELSE m[i]]
  PROVE  SortedList(n) /\ Entered(m, n, a, p)
<1>1. Len(n) = Len(m) /\ Len(m) \in Nat
  OBVIOUS
<1>2. ASSUME NEW i \in 1 .. Len(m)
      PROVE  n[i].client = m[i].client /\ n[i].cuda = IF m[i].client = a THEN p ELSE m[i].cuda
  <2>1. m[i] \in Translation
    OBVIOUS
  <2> QED BY <2>1 DEF Translation
<1>3. SortedList(n)
  BY <1>1, <1>2 DEF SortedList
<1> QED BY <1>1, <1>2, <1>3 DEF Entered

(* Where a driver that takes the lowest free address, and one that gives   *)
(* a client no address of a restored block, lead a restored client back to *)
(* its memory: see README.                                                 *)
Deterministic == Placement = "lowest" /\ \A s, t \in Sizes : s = t
Elsewhere == Placement = "fresh" /\ Sizes \subseteq {1} /\ MaxCheckpoints <= 1
Regular == /\ Deterministic \/ Elsewhere
           /\ Stores \subseteq {"skipped"} /\ "write" \notin Faults

(* What memory_mg_get makes of the client's addresses.                     *)
Way(b, m) == [a \in Addr |-> IF b THEN a ELSE Bisect(m, a)]
Here == Way(bypass, map_res)

LEMMA WayIsGet == \A a \in Addr : memory_mg_get(a) = Here[a]
BY DEF Here, Way, memory_mg_get

(* w leads from the addresses of H to the blocks of d, one to one.         *)
Leads(w, d, H) ==
  /\ \A a \in H : w[a] \in DOMAIN d
  /\ \A a, b \in H : w[a] = w[b] => a = b
  /\ \A p \in DOMAIN d : \E a \in H : w[a] = p

LEMMA AddSortedMaps ==
  ASSUME map_res \in Seq(Translation), SortedList(map_res), ~ bypass, UNCHANGED bypass,
         NEW a \in Addr, NEW p \in Addr, NEW size \in Sizes,
         memory_mg_add_sorted(a, p, size)
  PROVE  /\ SortedList(map_res)' /\ Entered(map_res, map_res', a, p)
         /\ Sizes \subseteq {1} => Here' = [Here EXCEPT ![a] = p]
<1> DEFINE n == map_res'
           m == map_res
<1>1. SortedList(n) /\ Entered(m, n, a, p)
  <2>1. CASE \E i \in 1 .. Len(m) : m[i].client = a
    BY <2>1, OverwriteEnters DEF memory_mg_add_sorted
  <2>2. CASE ~ \E i \in 1 .. Len(m) : m[i].client = a
    <3> DEFINE e == [client |-> a, cuda |-> p, size |-> size]
    <3>1. e \in Translation /\ e.client = a /\ e.cuda = p
      BY DEF Translation
    <3>2. Below(a) = Cardinality(Smaller(m, a))
      BY DEF Below, Smaller
    <3>3. n = InsertAt(m, Cardinality(Smaller(m, a)) + 1, e)
      BY <2>2, <3>2 DEF memory_mg_add_sorted
    <3> HIDE DEF e
    <3>4. SortedList(n) /\ Entered(m, n, e.client, e.cuda)
      BY <2>2, <3>1, <3>3, InsertEnters
    <3> QED BY <3>1, <3>4
  <2> QED BY <2>1, <2>2
<1>2. n \in Seq(Translation)
  BY AddSortedType
<1>3. ASSUME Sizes \subseteq {1}, NEW b \in Addr
      PROVE  Bisect(n, b) = IF b = a THEN p ELSE Bisect(m, b)
  <2>1. CASE b = a
    <3>1. PICK i \in 1 .. Len(n) : n[i].client = a /\ n[i].cuda = p
      BY <1>1 DEF Entered
    <3>2. Bisect(n, n[i].client) = n[i].cuda
      BY <1>1, <1>2, <1>3, EntryIsFound
    <3> QED BY <2>1, <3>1, <3>2
  <2>2. CASE b # a /\ \E j \in 1 .. Len(m) : m[j].client = b
    <3>1. PICK j \in 1 .. Len(m) : m[j].client = b
      BY <2>2
    <3>2. PICK i \in 1 .. Len(n) : n[i].client = m[j].client /\ n[i].cuda = m[j].cuda
      BY <1>1, <2>2, <3>1 DEF Entered
    <3>3. Bisect(n, n[i].client) = n[i].cuda
      BY <1>1, <1>2, <1>3, EntryIsFound
    <3>4. Bisect(m, m[j].client) = m[j].cuda
      BY <1>3, EntryIsFound
    <3> QED BY <2>2, <3>1, <3>2, <3>3, <3>4
  <2>3. CASE b # a /\ \A j \in 1 .. Len(m) : m[j].client # b
    <3>1. \A i \in 1 .. Len(n) : n[i].client # b
      BY <1>1, <2>3 DEF Entered
    <3>2. Bisect(n, b) = b
      BY <1>2, <1>3, <3>1, OthersPassThrough
    <3>3. Bisect(m, b) = b
      BY <1>3, <2>3, OthersPassThrough
    <3> QED BY <2>3, <3>2, <3>3
  <2> QED BY <2>1, <2>2, <2>3
<1>4. Sizes \subseteq {1} => Here' = [Here EXCEPT ![a] = p]
  BY <1>3 DEF Here, Way
<1> QED BY <1>1, <1>4

SameAddresses(m) == \A i \in 1 .. Len(m) : m[i].client = m[i].cuda

LEMMA SameAddressesPassThrough ==
  ASSUME map_res \in Seq(Translation), bypass \/ SameAddresses(map_res)
  PROVE  \A a \in Addr : Here[a] = a
BY NothingMoves DEF Here, Way, SameAddresses

LEMMA LeadsNew ==
  ASSUME NEW w \in [Addr -> Addr], NEW d, NEW H \in SUBSET Addr, Leads(w, d, H),
         NEW a \in Addr \ H, NEW p \in Addr \ DOMAIN d, NEW v
  PROVE  Leads([w EXCEPT ![a] = p], With(d, p, v), H \cup {a})
<1> DEFINE u == [w EXCEPT ![a] = p]
<1>1. DOMAIN With(d, p, v) = DOMAIN d \cup {p}
  BY DEF With
<1>2. u[a] = p /\ \A b \in H : u[b] = w[b]
  OBVIOUS
<1> HIDE DEF u
<1> QED BY <1>1, <1>2 DEF Leads

LEMMA LeadsLess ==
  ASSUME NEW w, NEW d, NEW H, Leads(w, d, H), NEW a \in H
  PROVE  Leads(w, Without(d, w[a]), H \ {a})
<1>1. DOMAIN Without(d, w[a]) = DOMAIN d \ {w[a]}
  BY DEF Without
<1> QED BY <1>1 DEF Leads

------------------------------------------------------------------------------
(* What a list of records says of the blocks there are.                    *)

Vacant(L, n) ==
  {a \in Addr : /\ Cells(a, n) \subseteq Addr
                /\ \A b \in L : Cells(a, n) \cap Cells(b, n) = {}}

(* The call of r makes of the blocks at L those at M, and where addresses  *)
(* can be foreseen it has got the one that was to be expected.             *)
Makes(L, r, M) ==
  \/ /\ r.fn = "malloc" /\ ~ r.err /\ r.ptr \notin L /\ M = L \cup {r.ptr}
     /\ Deterministic => /\ r.ptr \in Vacant(L, r.size)
                         /\ \A b \in Vacant(L, r.size) : r.ptr <= b
  \/ /\ r.fn = "free" /\ M = L \ {r.ptr}
     /\ Deterministic \/ r.ptr \in L

Traces(rs) ==
  {t \in [0 .. Len(rs) -> SUBSET Addr] :
     t[0] = {} /\ \A i \in 1 .. Len(rs) : Makes(t[i - 1], rs[i], t[i])}
Told(rs, L) == \E t \in Traces(rs) : t[Len(rs)] = L

LEMMA ToldNothing == Told(<<>>, {})
<1> DEFINE t == [i \in 0 .. 0 |-> {}]
<1>1. t \in Traces(<<>>) /\ t[Len(<<>>)] = {}
  BY DEF Traces
<1> QED BY <1>1 DEF Told

LEMMA ToldMore ==
  ASSUME NEW rs \in Seq(Record), NEW L, Told(rs, L), NEW r \in Record,
         NEW M \in SUBSET Addr, Makes(L, r, M)
  PROVE  Told(Append(rs, r), M)
<1> DEFINE n == Len(rs)
           ss == Append(rs, r)
<1>1. PICK t \in Traces(rs) : t[n] = L
  BY DEF Told
<1>2. t \in [0 .. n -> SUBSET Addr] /\ t[0] = {}
      /\ \A i \in 1 .. n : Makes(t[i - 1], rs[i], t[i])
  BY DEF Traces
<1> DEFINE u == [i \in 0 .. n + 1 |-> IF i = n + 1 THEN M ELSE t[i]]
<1>3. n \in Nat /\ Len(ss) = n + 1 /\ ss[n + 1] = r /\ \A i \in 1 .. n : ss[i] = rs[i]
  OBVIOUS
<1> HIDE DEF ss
<1>4. u \in [0 .. n + 1 -> SUBSET Addr] /\ u[0] = {} /\ u[n + 1] = M
      /\ \A i \in 0 .. n : u[i] = t[i]
  BY <1>2, <1>3
<1> HIDE DEF n, u
<1>5. ASSUME NEW i \in 1 .. n + 1 PROVE Makes(u[i - 1], ss[i], u[i])
  <2>1. CASE i = n + 1
    <3>1. u[i - 1] = L /\ ss[i] = r /\ u[i] = M
      BY <1>1, <1>3, <1>4, <2>1
    <3> QED BY <3>1
  <2>2. CASE i \in 1 .. n
    <3>1. u[i - 1] = t[i - 1] /\ ss[i] = rs[i] /\ u[i] = t[i]
      BY <1>3, <1>4, <2>2
    <3> QED BY <1>2, <2>2, <3>1
  <2> QED BY <1>3, <2>1, <2>2
<1>6. u \in Traces(ss)
  BY <1>3, <1>4, <1>5 DEF Traces
<1>7. Told(ss, M)
  BY <1>3, <1>4, <1>6 DEF Told
<1> QED BY <1>7 DEF ss

Clean(rs) == \A i \in 1 .. Len(rs) : rs[i].fn = "malloc" => ~ rs[i].err

(* The last word of the records on an address.                             *)
Concerns(r, a) == /\ r.ptr = a /\ r.fn \in {"malloc", "free"}
                  /\ r.fn = "malloc" => ~ r.err
SaysHeld(rs, a) ==
  \E i \in 1 .. Len(rs) : /\ Concerns(rs[i], a) /\ rs[i].fn = "malloc"
                          /\ \A j \in 1 .. Len(rs) : Concerns(rs[j], a) => j <= i
Tells(rs, H) == \A a \in Addr : SaysHeld(rs, a) <=> a \in H

LEMMA SaysNext ==
  ASSUME NEW rs \in Seq(Record), NEW r \in Record, NEW a
  PROVE  SaysHeld(Append(rs, r), a)
           <=> IF Concerns(r, a) THEN r.fn = "malloc" ELSE SaysHeld(rs, a)
<1> DEFINE n == Len(rs)
           ss == Append(rs, r)
<1>1. n \in Nat /\ Len(ss) = n + 1 /\ ss[n + 1] = r /\ \A i \in 1 .. n : ss[i] = rs[i]
  OBVIOUS
<1> HIDE DEF n, ss
<1>2. CASE Concerns(r, a)
  <2>1. ASSUME NEW i \in 1 .. n + 1, \A j \in 1 .. n + 1 : Concerns(ss[j], a) => j <= i
        PROVE  i = n + 1
    BY <1>1, <1>2, <2>1
  <2>2. \A j \in 1 .. n + 1 : j <= n + 1
    BY <1>1
  <2> QED BY <1>1, <1>2, <2>1, <2>2 DEF SaysHeld, ss
<1>3. CASE ~ Concerns(r, a)
  <2>1. ASSUME SaysHeld(rs, a) PROVE SaysHeld(ss, a)
    BY <1>1, <1>3, <2>1 DEF SaysHeld, n
  <2>2. ASSUME SaysHeld(ss, a) PROVE SaysHeld(rs, a)
    BY <1>1, <1>3, <2>2 DEF SaysHeld, n
  <2> QED BY <1>3, <2>1, <2>2 DEF ss
<1> QED BY <1>2, <1>3

LEMMA TellsMore ==
  ASSUME NEW rs \in Seq(Record), NEW r \in Record, NEW H \in SUBSET Addr, NEW G, Tells(rs, H),
         \/ r.fn = "malloc" /\ ~ r.err /\ G = H \cup {r.ptr}
         \/ r.fn = "free" /\ G = H \ {r.ptr}
         \/ r.fn = "malloc" /\ r.err /\ G = H
  PROVE  Tells(Append(rs, r), G)
<1>1. ASSUME NEW a \in Addr PROVE SaysHeld(Append(rs, r), a) <=> a \in G
  <2>1. SaysHeld(Append(rs, r), a)
          <=> IF Concerns(r, a) THEN r.fn = "malloc" ELSE SaysHeld(rs, a)
    BY SaysNext
  <2>2. SaysHeld(rs, a) <=> a \in H
    BY DEF Tells
  <2> QED BY <2>1, <2>2 DEF Concerns
<1> QED BY <1>1 DEF Tells

LEMMA TellsNothing == Tells(<<>>, {})
BY DEF Tells, SaysHeld

------------------------------------------------------------------------------
(* What a restored client finds: the invariant.                            *)

(* c is a client that finds what it wrote in the blocks of d.              *)
Finds(w, d, c) ==
  /\ Leads(w, d, DOMAIN c)
  /\ \A a \in DOMAIN c : c[a].data \in {Undefined, d[w[a]].data}

(* The blocks of d are those at H, with the contents of the files of f.    *)
PutBack(w, d, H, f) ==
  /\ Leads(w, d, H)
  /\ \A a \in H : d[w[a]].data = IF a \in DOMAIN f THEN f[a].data ELSE Undefined

(* The first n records of rs have the contents of their blocks in files.   *)
Filed(rs, n, f, d) ==
  \A i \in 1 .. n :
    rs[i].fn = "malloc" /\ rs[i].ptr \in DOMAIN d =>
      rs[i].ptr \in DOMAIN f /\ f[rs[i].ptr].data = d[rs[i].ptr].data

(* No address is translated to another one.                                *)
Plain == bypass \/ Deterministic

Down == mode = "down" =>
          map_res = <<>> /\ dev = NoBlocks /\ api_records = <<>> /\ new_res = {}
Again == /\ mode = "restoring" => ~ bypass /\ new_res = {}
         /\ ~ bypass => checkpoint # "none"
         /\ Elsewhere /\ used.checkpoints = 0 => checkpoint = "none"
Listed == /\ SortedList(map_res)
          /\ Deterministic /\ faithful => SameAddresses(map_res)
          /\ Elsewhere /\ "memory" \notin Faults =>
               \A i \in 1 .. Len(map_res) : map_res[i].client \notin new_res
Sized == \A a \in DOMAIN file_mem : file_mem[a].size \in Sizes
Finite == IsFiniteSet(DOMAIN client) /\ IsFiniteSet(DOMAIN saved)
Stands ==
  mode \in {"serving", "dumping"} /\ faithful =>
    /\ Finds(Here, dev, client)
    /\ Tells(api_records, DOMAIN client)
    /\ Plain /\ Clean(api_records) => Told(api_records, DOMAIN client)
Dumps ==
  mode = "dumping" =>
    /\ file_records = api_records /\ checkpoint \in {"writing", "damaged"}
    /\ checkpoint = "writing" =>
         faithful /\ Plain /\ Clean(api_records) /\ Filed(api_records, pos - 1, file_mem, dev)
Completes ==
  checkpoint = "complete" =>
    mode # "dumping" /\ ImageIsOnDisk /\ Told(file_records, DOMAIN saved)
Restores ==
  mode = "restoring" /\ faithful =>
    /\ checkpoint = "complete" /\ client = saved
    /\ \E t \in Traces(file_records) :
         /\ t[Len(file_records)] = DOMAIN saved
         /\ PutBack(Here, dev, t[pos - 1], file_mem)
         /\ Tells(api_records, t[pos - 1])
         /\ Deterministic => Told(api_records, t[pos - 1])

KeptInv == /\ TypeOK /\ Down /\ Again /\ Listed /\ Sized /\ Finite
           /\ Stands /\ Dumps /\ Completes /\ Restores

LEMMA TypeParts ==
  ASSUME TypeOK
  PROVE  /\ map_res \in Seq(Translation) /\ dev \in Map(Block) /\ client \in Map(Block)
         /\ saved \in Map(Block) /\ api_records \in Seq(Record)
         /\ file_records \in Seq(Record) /\ used.checkpoints \in Nat
         /\ DOMAIN dev \subseteq Addr /\ DOMAIN client \subseteq Addr
         /\ DOMAIN saved \subseteq Addr
         /\ \A a \in DOMAIN dev : dev[a] \in Block /\ dev[a].size \in Sizes
         /\ \A a \in DOMAIN client : client[a] \in Block /\ client[a].size \in Sizes
         /\ \A a \in DOMAIN saved : saved[a] \in Block /\ saved[a].size \in Sizes
<1>1. /\ DOMAIN dev \subseteq Addr /\ \A a \in DOMAIN dev : dev[a] \in Block
      /\ DOMAIN client \subseteq Addr /\ \A a \in DOMAIN client : client[a] \in Block
      /\ DOMAIN saved \subseteq Addr /\ \A a \in DOMAIN saved : saved[a] \in Block
  BY MapFacts DEF TypeOK
<1>2. \A b \in Block : b.size \in Sizes
  BY DEF Block
<1> QED BY <1>1, <1>2 DEF TypeOK

LEMMA OneSize == ASSUME Regular, NEW s \in Sizes, NEW t \in Sizes PROVE s = t
BY DEF Regular, Deterministic, Elsewhere

(* Blocks have one size: what reaches into one reaches its start.          *)
LEMMA AroundIsStart ==
  ASSUME Regular, TypeOK, NEW p \in Addr, NEW size \in Sizes
  PROVE  Around(p, size) = {p} \cap DOMAIN dev
<1>1. ASSUME NEW b \in DOMAIN dev PROVE b <= p /\ p + size <= b + dev[b].size <=> b = p
  <2>1. b \in Nat /\ p \in Nat /\ size \in Nat /\ dev[b].size = size
    BY TypeParts, OneSize, AddressesAreNumbers, SizesArePositive
  <2> QED BY <2>1
<1> QED BY <1>1 DEF Around

LEMMA RoomIsVacant ==
  ASSUME Regular, TypeOK, NEW size \in Sizes
  PROVE  Room(size) = Vacant(DOMAIN dev, size)
<1>1. \A b \in DOMAIN dev : dev[b].size = size
  BY TypeParts, OneSize
<1> QED BY <1>1 DEF Room, Vacant

LEMMA RoomIsFree ==
  ASSUME TypeOK, NEW size \in Sizes, NEW p \in Room(size)
  PROVE  p \in Addr \ DOMAIN dev
<1>1. ASSUME p \in DOMAIN dev PROVE FALSE
  <2>1. p + size <= p \/ p + dev[p].size <= p
    BY <1>1, RoomIsApart
  <2>2. size \in Nat \ {0} /\ p \in Nat /\ dev[p].size \in Nat \ {0}
    BY <1>1, TypeParts, AddressesAreNumbers, SizesArePositive
  <2> QED BY <2>1, <2>2
<1> QED BY <1>1 DEF Room

LEMMA HereType == ASSUME TypeOK PROVE DOMAIN Here = Addr
BY DEF Here, Way

(* Where no address is translated, the client's blocks are the device's.   *)
LEMMA PlainIsDirect ==
  ASSUME KeptInv, faithful, Plain
  PROVE  /\ \A a \in Addr : Here[a] = a
         /\ \A H \in SUBSET Addr : Leads(Here, dev, H) => DOMAIN dev = H
<1>1. map_res \in Seq(Translation) /\ (bypass \/ SameAddresses(map_res))
  BY TypeParts DEF KeptInv, Plain, Listed
<1>2. \A a \in Addr : Here[a] = a
  BY <1>1, SameAddressesPassThrough
<1>3. DOMAIN dev \subseteq Addr
  BY TypeParts DEF KeptInv
<1> QED BY <1>2, <1>3 DEF Leads

(* A handler leaves the managers' lists and the checkpoint alone.          *)
LEMMA HandlersKeep ==
  ASSUME KeptInv, TypeOK', mode = "serving",
         UNCHANGED <<mode, pos, bypass, map_res, fileVars, ghosts>>,
         used'.checkpoints = used.checkpoints, IsFiniteSet(DOMAIN client'),
         Elsewhere /\ "memory" \notin Faults =>
           \A i \in 1 .. Len(map_res) : map_res[i].client \notin new_res',
         Stands'
  PROVE  KeptInv'
BY DEF KeptInv, Down, Again, Listed, Sized, Finite, Dumps, Completes, Restores,
       ImageIsOnDisk, fileVars, ghosts

LEMMA HereKept == ASSUME UNCHANGED <<bypass, map_res>> PROVE Here' = Here
BY DEF Here

LEMMA WithIs ==
  ASSUME NEW f, NEW a, NEW b
  PROVE  /\ DOMAIN With(f, a, b) = DOMAIN f \cup {a} /\ With(f, a, b)[a] = b
         /\ \A x \in DOMAIN f : x # a => With(f, a, b)[x] = f[x]
BY DEF With

LEMMA WithoutIs ==
  ASSUME NEW f, NEW a
  PROVE  /\ DOMAIN Without(f, a) = DOMAIN f \ {a}
         /\ \A x \in DOMAIN f \ {a} : Without(f, a)[x] = f[x]
BY DEF Without

NewRecord(fn, p, size, err, v) ==
  [fn |-> fn, ptr |-> p, size |-> size, err |-> err, data |-> v]

LEMMA CleanLess ==
  ASSUME NEW rs \in Seq(Record), NEW r, Clean(Append(rs, r))
  PROVE  Clean(rs) /\ (r.fn = "malloc" => ~ r.err)
<1>1. Len(Append(rs, r)) = Len(rs) + 1 /\ Append(rs, r)[Len(rs) + 1] = r
      /\ Len(rs) \in Nat /\ \A i \in 1 .. Len(rs) : Append(rs, r)[i] = rs[i]
  OBVIOUS
<1> QED BY <1>1 DEF Clean

(* A handler that records a call and changes the blocks accordingly.       *)
LEMMA RecordedStands ==
  ASSUME Regular, KeptInv, TypeOK', mode = "serving", UNCHANGED <<mode, bypass, faithful>>,
         NEW r \in Record, api_records' = Append(api_records, r),
         faithful => Finds(Here, dev, client)',
         r.fn = "malloc" /\ ~ r.err =>
           DOMAIN client' = DOMAIN client \cup {r.ptr},
         r.fn = "free" => DOMAIN client' = DOMAIN client \ {r.ptr},
         r.fn = "malloc" /\ r.err => DOMAIN client' = DOMAIN client,
         r.fn \in {"malloc", "free"},
         faithful /\ Plain /\ (r.fn = "malloc" => ~ r.err) => Makes(DOMAIN client, r, DOMAIN client')
  PROVE  Stands'
<1> SUFFICES ASSUME faithful PROVE Stands'
  BY DEF Stands
<1>1. /\ Tells(api_records, DOMAIN client) /\ api_records \in Seq(Record)
      /\ Plain /\ Clean(api_records) => Told(api_records, DOMAIN client)
      /\ DOMAIN client \in SUBSET Addr /\ DOMAIN client' \in SUBSET Addr
  <2>1. DOMAIN client' \subseteq Addr
    BY MapFacts DEF TypeOK
  <2> QED BY <2>1, TypeParts DEF KeptInv, Stands
<1>2. r.err \in BOOLEAN
  BY DEF Record
<1>3. Tells(api_records', DOMAIN client')
  <2>1. \/ r.fn = "malloc" /\ ~ r.err /\ DOMAIN client' = DOMAIN client \cup {r.ptr}
        \/ r.fn = "free" /\ DOMAIN client' = DOMAIN client \ {r.ptr}
        \/ r.fn = "malloc" /\ r.err /\ DOMAIN client' = DOMAIN client
    BY <1>2
  <2> QED BY <1>1, <2>1, TellsMore
<1>4. ASSUME Plain, Clean(api_records') PROVE Told(api_records', DOMAIN client')
  <2>1. Clean(api_records) /\ (r.fn = "malloc" => ~ r.err)
    BY <1>1, <1>4, CleanLess
  <2>2. Told(api_records, DOMAIN client) /\ Makes(DOMAIN client, r, DOMAIN client')
    BY <1>1, <1>4, <2>1
  <2> QED BY <1>1, <2>2, ToldMore
<1> QED BY <1>3, <1>4 DEF Stands, Plain

LEMMA NewIsUntranslated ==
  ASSUME KeptInv, Elsewhere, mode = "serving", NEW size \in Sizes, NEW p \in Places(size),
         NEW i \in 1 .. Len(map_res)
  PROVE  map_res[i].client # p
<1>1. Cells(p, size) \cap Cells(map_res[i].client, map_res[i].size) = {}
  BY DEF Places, Unshadowed, Elsewhere
<1>2. map_res[i] \in Translation
  BY TypeParts DEF KeptInv
<1>3. size \in Nat \ {0} /\ map_res[i].size \in Nat \ {0} /\ p \in Nat
  BY <1>2, TranslationFacts, SizesArePositive, AddressesAreNumbers DEF Places, Room
<1>4. p \in Cells(p, size) /\ p \in Cells(p, map_res[i].size)
  BY <1>3 DEF Cells
<1> QED BY <1>1, <1>4

(* A new block is where no translation leads away from.                    *)
LEMMA NewIsDirect ==
  ASSUME Regular, KeptInv, mode = "serving", faithful,
         NEW size \in Sizes, NEW p \in Places(size)
  PROVE  p \in Addr \ DOMAIN dev /\ p \notin DOMAIN client /\ Here[p] = p
<1>1. p \in Room(size) /\ p \in Addr \ DOMAIN dev
  BY RoomIsFree DEF Places, KeptInv
<1>2. Elsewhere => \A i \in 1 .. Len(map_res) : map_res[i].client # p
  BY NewIsUntranslated
<1>3. Here[p] = p
  <2>1. CASE Plain
    BY <1>1, <2>1, PlainIsDirect
  <2>2. CASE ~ Plain
    <3>1. Elsewhere /\ Sizes \subseteq {1} /\ map_res \in Seq(Translation)
      BY <2>2, TypeParts DEF Regular, Plain, Elsewhere, KeptInv
    <3>2. Bisect(map_res, p) = p
      BY <1>1, <1>2, <3>1, OthersPassThrough
    <3> QED BY <1>1, <3>2 DEF Here, Way
  <2> QED BY <2>1, <2>2
<1>4. p \notin DOMAIN client
  BY <1>1, <1>3 DEF KeptInv, Stands, Finds, Leads
<1> QED BY <1>1, <1>3, <1>4

LEMMA MallocKept ==
  ASSUME Regular, KeptInv, TypeOK', NEW size \in Sizes, cuda_malloc(size)
  PROVE  KeptInv'
<1> DEFINE new == [size |-> size, data |-> Undefined]
<1>1. PICK p \in Places(size) :
        /\ dev' = With(dev, p, new) /\ client' = With(client, p, new)
        /\ new_res' = new_res \cup {p}
        /\ api_records' = Recorded("malloc", p, size, FALSE, Undefined)
  BY DEF cuda_malloc
<1>2. mode = "serving" /\ UNCHANGED <<mode, pos, bypass, map_res, fileVars, ghosts, used>>
  BY DEF cuda_malloc, Serving
<1>3. p \in Addr /\ p \in Room(size)
  BY DEF Places, Room
<1> DEFINE r == NewRecord("malloc", p, size, FALSE, Undefined)
<1>4. r \in Record /\ api_records' = Append(api_records, r)
      /\ r.fn = "malloc" /\ r.ptr = p /\ r.err = FALSE /\ r.size = size
  BY <1>1, <1>3 DEF Record, Calls, Recorded, NewRecord
<1> HIDE DEF r
<1>5. /\ DOMAIN client' = DOMAIN client \cup {p} /\ client'[p] = new
      /\ \A a \in DOMAIN client : a # p => client'[a] = client[a]
      /\ dev'[p] = new /\ \A b \in DOMAIN dev : b # p => dev'[b] = dev[b]
  BY <1>1 DEF With
<1>6. ASSUME faithful PROVE Finds(Here, dev, client)'
  <2>1. p \in Addr \ DOMAIN dev /\ p \notin DOMAIN client /\ Here[p] = p
    BY <1>2, <1>6, NewIsDirect
  <2>2. Finds(Here, dev, client) /\ DOMAIN client \subseteq Addr /\ DOMAIN dev \subseteq Addr
    BY <1>2, <1>6, TypeParts DEF KeptInv, Stands
  <2>3. Leads(Here, dev', DOMAIN client')
    <3>1. DOMAIN dev' = DOMAIN dev \cup {p} /\ Leads(Here, dev, DOMAIN client)
      BY <1>1, <2>2 DEF With, Finds
    <3>2. \A a \in DOMAIN client : Here[a] # p /\ Here[a] \in DOMAIN dev'
      BY <2>1, <3>1 DEF Leads
    <3>3. Here[p] = p /\ p \in DOMAIN dev'
      BY <2>1, <3>1
    <3> QED BY <1>5, <3>1, <3>2, <3>3 DEF Leads
  <2>4. ASSUME NEW a \in DOMAIN client' PROVE client'[a].data \in {Undefined, dev'[Here[a]].data}
    <3>1. CASE a = p
      BY <1>5, <3>1
    <3>2. CASE a # p
      <4>1. a \in DOMAIN client /\ client'[a] = client[a] /\ Here[a] \in DOMAIN dev
        BY <1>5, <2>2, <3>2 DEF Finds, Leads
      <4>2. dev'[Here[a]] = dev[Here[a]]
        BY <1>5, <2>1, <4>1
      <4> QED BY <2>2, <4>1, <4>2 DEF Finds
    <3> QED BY <3>1, <3>2
  <2>5. Here' = Here
    BY <1>2, HereKept
  <2> QED BY <2>3, <2>4, <2>5 DEF Finds
<1>7. ASSUME faithful, Plain PROVE Makes(DOMAIN client, r, DOMAIN client')
  <2>1. DOMAIN dev = DOMAIN client
    BY <1>2, <1>7, PlainIsDirect, TypeParts DEF KeptInv, Stands, Finds
  <2>2. p \notin DOMAIN client
    BY <1>2, <1>7, NewIsDirect
  <2>3. ASSUME Deterministic
        PROVE  p \in Vacant(DOMAIN client, size) /\ \A b \in Vacant(DOMAIN client, size) : p <= b
    <3>1. Room(size) = Vacant(DOMAIN client, size)
      BY <2>1, RoomIsVacant DEF KeptInv
    <3> QED BY <1>3, <2>3, <3>1 DEF Places, Deterministic
  <2> QED BY <1>4, <1>5, <2>2, <2>3 DEF Makes
<1>8. Stands'
  BY <1>2, <1>4, <1>5, <1>6, <1>7, RecordedStands DEF ghosts
<1>9. IsFiniteSet(DOMAIN client')
  BY <1>5, FS_AddElement DEF KeptInv, Finite
<1>10. ASSUME Elsewhere, "memory" \notin Faults, NEW i \in 1 .. Len(map_res)
       PROVE  map_res[i].client \notin new_res'
  <2>1. map_res[i].client # p
    BY <1>2, <1>10, NewIsUntranslated
  <2> QED BY <1>1, <1>10, <2>1 DEF KeptInv, Listed
<1> QED BY <1>2, <1>8, <1>9, <1>10, HandlersKeep

(* A failed cudaMalloc leaves the device alone and a record that no        *)
(* checkpoint can rely on.                                                 *)
LEMMA MallocFailsKept ==
  ASSUME Regular, KeptInv, TypeOK', NEW size \in Sizes, cuda_malloc_fails(size)
  PROVE  KeptInv'
<1>1. PICK p \in Addr : /\ api_records' = Recorded("malloc", p, size, TRUE, Undefined)
                        /\ new_res' = new_res \cup {p}
  BY DEF cuda_malloc_fails
<1>2. /\ mode = "serving" /\ "memory" \in Faults /\ used' = [used EXCEPT !.faults = @ + 1]
      /\ UNCHANGED <<mode, pos, bypass, map_res, dev, fileVars, client, ghosts>>
  BY DEF cuda_malloc_fails, Serving, MayFail, SpendFault
<1> DEFINE r == NewRecord("malloc", p, size, TRUE, Undefined)
<1>3. r \in Record /\ api_records' = Append(api_records, r) /\ r.fn = "malloc" /\ r.err = TRUE
  BY <1>1 DEF Record, Calls, Recorded, NewRecord
<1> HIDE DEF r
<1>4. faithful => Finds(Here, dev, client)'
  BY <1>2, HereKept DEF KeptInv, Stands, Finds
<1>5. Stands'
  BY <1>2, <1>3, <1>4, RecordedStands DEF ghosts
<1>6. used'.checkpoints = used.checkpoints
  BY <1>2 DEF KeptInv, TypeOK
<1> QED BY <1>2, <1>5, <1>6, HandlersKeep DEF KeptInv, Finite

LEMMA FreeKept ==
  ASSUME Regular, KeptInv, TypeOK', NEW a \in DOMAIN client, cuda_free(a)
  PROVE  KeptInv'
<1>1. /\ dev' = Without(dev, memory_mg_get(a)) /\ client' = Without(client, a)
      /\ api_records' = Recorded("free", a, client[a].size, FALSE, Undefined)
      /\ mode = "serving"
      /\ UNCHANGED <<mode, pos, bypass, map_res, new_res, fileVars, ghosts, used>>
  BY DEF cuda_free, Serving, CudaFree
<1>2. a \in Addr /\ client[a].size \in Sizes
  BY TypeParts DEF KeptInv
<1> DEFINE r == NewRecord("free", a, client[a].size, FALSE, Undefined)
<1>3. r \in Record /\ api_records' = Append(api_records, r) /\ r.fn = "free" /\ r.ptr = a
  BY <1>1, <1>2 DEF Record, Calls, Recorded, NewRecord
<1> HIDE DEF r
<1>4. memory_mg_get(a) = Here[a]
  BY <1>2, WayIsGet
<1>5. DOMAIN client' = DOMAIN client \ {a} /\ \A b \in DOMAIN client' : client'[b] = client[b]
  BY <1>1, WithoutIs
<1>6. ASSUME faithful PROVE Finds(Here, dev, client)'
  <2>1. Finds(Here, dev, client)
    BY <1>1, <1>6 DEF KeptInv, Stands
  <2>2. Leads(Here, dev', DOMAIN client')
    <3>1. Leads(Here, Without(dev, Here[a]), DOMAIN client \ {a})
      BY <2>1, LeadsLess DEF Finds
    <3> QED BY <1>1, <1>4, <1>5, <3>1
  <2>3. \A b \in DOMAIN dev' : dev'[b] = dev[b]
    BY <1>1, WithoutIs
  <2>4. \A b \in DOMAIN client' : client'[b].data \in {Undefined, dev'[Here[b]].data}
    BY <1>5, <2>1, <2>2, <2>3 DEF Finds, Leads
  <2>5. Here' = Here
    BY <1>1, HereKept
  <2> QED BY <2>2, <2>4, <2>5 DEF Finds
<1>7. Makes(DOMAIN client, r, DOMAIN client')
  BY <1>3, <1>5 DEF Makes
<1>8. Stands'
  BY <1>1, <1>3, <1>5, <1>6, <1>7, RecordedStands DEF ghosts
<1>9. IsFiniteSet(DOMAIN client')
  BY <1>5, FS_RemoveElement DEF KeptInv, Finite
<1> QED BY <1>1, <1>8, <1>9, HandlersKeep DEF KeptInv, Listed

LEMMA StoreKept ==
  ASSUME Regular, KeptInv, TypeOK', NEW a \in DOMAIN client, NEW v \in Values,
         cuda_memcpy_htod(a, v)
  PROVE  KeptInv'
<1>1. /\ dev' = Stored(a, client[a].size, v) /\ client' = [client EXCEPT ![a].data = v]
      /\ mode = "serving"
      /\ UNCHANGED <<mode, pos, bypass, map_res, new_res, api_records, fileVars, ghosts, used>>
  BY DEF cuda_memcpy_htod, Store, Wrote
<1>2. /\ a \in Addr /\ client[a].size \in Sizes /\ DOMAIN client' = DOMAIN client
      /\ client'[a].data = v /\ \A b \in DOMAIN client : b # a => client'[b] = client[b]
  <2>1. a \in Addr /\ client[a] \in Block /\ client[a].size \in Sizes
    BY TypeParts DEF KeptInv
  <2> QED BY <1>1, <2>1 DEF Block
<1>3. ASSUME faithful PROVE Finds(Here, dev, client)'
  <2>1. Finds(Here, dev, client) /\ Here[a] \in DOMAIN dev /\ Here[a] \in Addr
    BY <1>1, <1>3, TypeParts DEF KeptInv, Stands, Finds, Leads
  <2>2. Around(memory_mg_get(a), client[a].size) = {Here[a]}
    BY <1>2, <2>1, AroundIsStart, WayIsGet DEF KeptInv
  <2>3. dev' = [b \in DOMAIN dev |-> IF b = Here[a] THEN [dev[b] EXCEPT !.data = v] ELSE dev[b]]
    BY <1>1, <2>2 DEF Stored, Filled
  <2>4. dev[Here[a]] \in Block
    BY <2>1, TypeParts DEF KeptInv
  <2>5. /\ DOMAIN dev' = DOMAIN dev /\ dev'[Here[a]].data = v
        /\ \A b \in DOMAIN dev : b # Here[a] => dev'[b] = dev[b]
    BY <2>1, <2>3, <2>4 DEF Block
  <2>6. ASSUME NEW b \in DOMAIN client PROVE client'[b].data \in {Undefined, dev'[Here[b]].data}
    <3>1. CASE b = a
      BY <1>2, <2>5, <3>1
    <3>2. CASE b # a
      <4>1. Here[b] # Here[a] /\ Here[b] \in DOMAIN dev
        BY <2>1, <3>2 DEF Finds, Leads
      <4> QED BY <1>2, <2>1, <2>5, <3>2, <4>1 DEF Finds
    <3> QED BY <3>1, <3>2
  <2>7. Leads(Here, dev', DOMAIN client')
    BY <1>2, <2>1, <2>5 DEF Finds, Leads
  <2>8. Here' = Here
    BY <1>1, HereKept
  <2> QED BY <1>2, <2>6, <2>7, <2>8 DEF Finds
<1>4. Stands'
  BY <1>1, <1>2, <1>3 DEF KeptInv, Stands, Plain, ghosts
<1> QED BY <1>1, <1>2, <1>4, HandlersKeep DEF KeptInv, Finite, Listed

LEMMA HandlerKept ==
  ASSUME Regular, KeptInv, TypeOK', Handler
  PROVE  KeptInv'
<1>1. \A a \in DOMAIN client, v \in Values :
        ~ cuda_memset_3d(a, v) /\ ~ cuda_memcpy_shm(a, v) /\ ~ cuda_memcpy_mt(a, v)
  BY DEF Regular, cuda_memset_3d, cuda_memcpy_shm, cuda_memcpy_mt
<1> QED BY <1>1, MallocKept, MallocFailsKept, FreeKept, StoreKept DEF Handler

------------------------------------------------------------------------------
(* A checkpoint. *)

LEMMA ReliableIsClean == Reliable => faithful /\ Clean(api_records)
BY DEF Reliable, Clean

LEMMA DumpStartKept ==
  ASSUME Regular, KeptInv, TypeOK', cr_dump
  PROVE  KeptInv'
<1>1. /\ mode = "serving" /\ used.checkpoints < MaxCheckpoints
      /\ file_records' = api_records /\ mode' = "dumping" /\ pos' = 1
      /\ checkpoint' = IF Reliable THEN "writing" ELSE "damaged"
      /\ used' = [used EXCEPT !.checkpoints = @ + 1]
      /\ UNCHANGED <<bypass, map_res, new_res, dev, api_records, file_mem, client, saved, faithful>>
  BY DEF cr_dump, memVars
<1>2. used.checkpoints \in Nat /\ used'.checkpoints = used.checkpoints + 1
  BY <1>1 DEF KeptInv, TypeOK
<1>3. Plain
  <2>1. CASE Elsewhere
    <3>1. used.checkpoints = 0
      BY <1>1, <1>2, <2>1, BoundsAreNumbers DEF Elsewhere
    <3> QED BY <2>1, <3>1 DEF KeptInv, Again, Plain
  <2> QED BY <2>1 DEF Regular, Plain
<1>4. Here' = Here
  BY <1>1, HereKept
<1>5. Stands'
  BY <1>1, <1>4 DEF KeptInv, Stands, Plain
<1>6. Dumps'
  <2>1. Filed(api_records, 0, file_mem, dev)
    BY DEF Filed
  <2> QED BY <1>1, <1>3, <2>1, ReliableIsClean DEF Dumps, Plain
<1>7. Again' /\ Completes' /\ Restores'
  BY <1>1, <1>2 DEF Again, Completes, Restores
<1> QED BY <1>1, <1>5, <1>6, <1>7 DEF KeptInv, Down, Listed, Sized, Finite

(* The loop of the dump. *)
LEMMA DumpLoopKept ==
  ASSUME Regular, KeptInv, TypeOK', Dumping, pos' = pos + 1,
         UNCHANGED <<mode, bypass, map_res, new_res, dev, api_records, file_records,
                     client, saved, faithful>>,
         used'.checkpoints = used.checkpoints,
         checkpoint' = checkpoint \/ checkpoint' = "damaged",
         Sized', checkpoint' = "writing" => Filed(api_records, pos, file_mem', dev)
  PROVE  KeptInv'
<1>1. mode = "dumping" /\ checkpoint \in {"writing", "damaged"} /\ pos' - 1 = pos
  BY DEF Dumping, KeptInv, Dumps, TypeOK
<1>2. Here' = Here
  BY HereKept
<1>3. Stands'
  BY <1>1, <1>2 DEF KeptInv, Stands, Plain
<1>4. Dumps'
  BY <1>1 DEF KeptInv, Dumps, Plain
<1> QED BY <1>1, <1>3, <1>4 DEF KeptInv, Down, Again, Listed, Finite, Completes, Restores

(* One more record is dealt with.                                          *)
LEMMA FiledMore ==
  ASSUME KeptInv, Dumping, checkpoint = "writing",
         NEW f, DOMAIN file_mem \subseteq DOMAIN f,
         \A a \in DOMAIN file_mem : a # Current.ptr => f[a] = file_mem[a],
         \/ f = file_mem /\ ~ (Current.fn = "malloc" /\ Current.ptr \in DOMAIN dev)
         \/ Current.ptr \in DOMAIN f /\ f[Current.ptr].data = dev[Current.ptr].data
  PROVE  Filed(api_records, pos, f, dev)
<1>1. Filed(api_records, pos - 1, file_mem, dev) /\ pos \in Nat \ {0} /\ Current = api_records[pos]
  BY DEF KeptInv, Dumping, Dumps, TypeOK, Current
<1>2. ASSUME NEW i \in 1 .. pos, api_records[i].fn = "malloc", api_records[i].ptr \in DOMAIN dev
      PROVE  /\ api_records[i].ptr \in DOMAIN f
             /\ f[api_records[i].ptr].data = dev[api_records[i].ptr].data
  <2>1. CASE i = pos
    BY <1>1, <1>2, <2>1
  <2>2. CASE i \in 1 .. pos - 1
    BY <1>1, <1>2, <2>2 DEF Filed
  <2> QED BY <1>1, <2>1, <2>2
<1> QED BY <1>2 DEF Filed

LEMMA DumpEntryKept ==
  ASSUME Regular, KeptInv, TypeOK',
         \/ dump_skips_record \/ cr_dump_memory_entry
         \/ dump_entry_unreadable \/ dump_entry_unopened
  PROVE  KeptInv'
<1>1. /\ Dumping /\ pos' = pos + 1
      /\ UNCHANGED <<mode, bypass, map_res, new_res, dev, api_records, file_records,
                     client, saved, faithful>>
      /\ used'.checkpoints = used.checkpoints
      /\ checkpoint' = checkpoint \/ checkpoint' = "damaged"
  BY DEF dump_skips_record, cr_dump_memory_entry, dump_entry_unreadable,
         dump_entry_unopened, AtMalloc, SpendFault, memVars, fileVars, ghosts,
         KeptInv, TypeOK
<1>2. Current.ptr \in Addr /\ Current.size \in Sizes
  BY <1>1, CurrentType DEF KeptInv
<1>3. Readable = {Current.ptr} \cap DOMAIN dev
  BY <1>2, AroundIsStart DEF Readable, KeptInv
<1>4. CASE dump_skips_record \/ dump_entry_unreadable
  <2>1. file_mem' = file_mem /\ ~ (Current.fn = "malloc" /\ Current.ptr \in DOMAIN dev)
    BY <1>3, <1>4 DEF dump_skips_record, dump_entry_unreadable, fileVars
  <2>2. checkpoint' = "writing" => Filed(api_records, pos, file_mem', dev)
    BY <1>1, <2>1, FiledMore
  <2>3. Sized'
    BY <2>1 DEF KeptInv, Sized
  <2> QED BY <1>1, <2>2, <2>3, DumpLoopKept
<1>5. CASE dump_entry_unopened
  <2>1. file_mem' = file_mem /\ checkpoint' = "damaged"
    BY <1>5 DEF dump_entry_unopened, fileVars
  <2>2. Sized'
    BY <2>1 DEF KeptInv, Sized
  <2> QED BY <1>1, <2>1, <2>2, DumpLoopKept
<1>6. CASE cr_dump_memory_entry
  <2> DEFINE new == [size |-> Current.size, data |-> dev[Current.ptr].data]
  <2>1. Current.ptr \in DOMAIN dev /\ file_mem' = With(file_mem, Current.ptr, new)
        /\ checkpoint' = checkpoint
    BY <1>3, <1>6 DEF cr_dump_memory_entry, ghosts
  <2>2. /\ DOMAIN file_mem' = DOMAIN file_mem \cup {Current.ptr}
        /\ file_mem'[Current.ptr] = new
        /\ \A a \in DOMAIN file_mem : a # Current.ptr => file_mem'[a] = file_mem[a]
    BY <2>1 DEF With
  <2>3. checkpoint' = "writing" => Filed(api_records, pos, file_mem', dev)
    BY <1>1, <2>1, <2>2, FiledMore
  <2>4. Sized'
    BY <1>2, <2>2 DEF KeptInv, Sized
  <2> QED BY <1>1, <2>3, <2>4, DumpLoopKept
<1> QED BY <1>4, <1>5, <1>6

LEMMA CreatedKept ==
  ASSUME Regular, KeptInv, TypeOK', checkpoint_created
  PROVE  KeptInv'
<1>1. /\ mode = "dumping" /\ pos > Len(api_records) /\ mode' = "serving" /\ saved' = client
      /\ checkpoint' = IF checkpoint = "writing" THEN "complete" ELSE "doubtful"
      /\ UNCHANGED <<pos, bypass, map_res, new_res, dev, api_records, file_records,
                     file_mem, client, faithful, used>>
  BY DEF checkpoint_created, memVars, fileVars
<1>2. Here' = Here
  BY <1>1, HereKept
<1>3. Stands'
  BY <1>1, <1>2 DEF KeptInv, Stands, Plain
<1>4. ASSUME checkpoint = "writing"
      PROVE  ImageIsOnDisk' /\ Told(file_records, DOMAIN client)
  <2>1. /\ faithful /\ Plain /\ Clean(api_records) /\ file_records = api_records
        /\ Filed(api_records, pos - 1, file_mem, dev)
    BY <1>1, <1>4 DEF KeptInv, Dumps
  <2>2. /\ Finds(Here, dev, client) /\ Tells(api_records, DOMAIN client)
        /\ Told(api_records, DOMAIN client)
    BY <1>1, <2>1 DEF KeptInv, Stands
  <2>3. DOMAIN dev = DOMAIN client /\ \A a \in DOMAIN client : Here[a] = a /\ a \in Addr
    BY <2>1, <2>2, PlainIsDirect, TypeParts DEF Finds, KeptInv
  <2>4. pos - 1 = Len(api_records) /\ Len(api_records) \in Nat
    BY <1>1 DEF KeptInv, TypeOK
  <2>5. ASSUME NEW a \in DOMAIN client
        PROVE  a \in DOMAIN file_mem /\ file_mem[a].data = dev[a].data
    <3>1. PICK i \in 1 .. Len(api_records) : Concerns(api_records[i], a) /\ api_records[i].fn = "malloc"
      BY <2>2, <2>3 DEF Tells, SaysHeld
    <3> QED BY <2>1, <2>3, <2>4, <3>1 DEF Filed, Concerns
  <2>6. ASSUME NEW a \in DOMAIN client PROVE file_mem[a].size = client[a].size
    BY <2>5, TypeParts, OneSize DEF KeptInv, Sized
  <2>7. \A a \in DOMAIN client : client[a].data \in {Undefined, file_mem[a].data}
    BY <2>2, <2>3, <2>5 DEF Finds
  <2> QED BY <1>1, <2>1, <2>2, <2>5, <2>6, <2>7 DEF ImageIsOnDisk
<1>5. Completes'
  BY <1>1, <1>4 DEF Completes
<1>6. Again' /\ Dumps' /\ Restores' /\ Down'
  BY <1>1 DEF KeptInv, Again, Dumps, Restores, Down
<1> QED BY <1>1, <1>3, <1>5, <1>6 DEF KeptInv, Listed, Sized, Finite

LEMMA NoWriteFails == Regular => ~ cr_dump_fails /\ ~ dump_entry_fails
BY DEF Regular, cr_dump_fails, dump_entry_fails, MayFail

------------------------------------------------------------------------------
(* The end of a server and the start of the next one. *)

LEMMA StopKept ==
  ASSUME Regular, KeptInv, TypeOK', svc_exit \/ Crash
  PROVE  KeptInv'
<1>1. /\ mode' = "down" /\ dev' = NoBlocks /\ api_records' = <<>> /\ map_res' = <<>>
      /\ new_res' = {} /\ client' = NoBlocks
      /\ UNCHANGED <<pos, bypass, file_records, file_mem, saved, checkpoint, faithful>>
      /\ used'.checkpoints = used.checkpoints
  BY DEF svc_exit, Crash, Stop, SpendFault, fileVars, KeptInv, TypeOK
<1>2. Listed'
  BY <1>1 DEF Listed, SortedList, SameAddresses
<1>3. Finite'
  <2>1. DOMAIN NoBlocks = {}
    BY DEF NoBlocks
  <2> QED BY <1>1, <2>1, FS_EmptySet DEF KeptInv, Finite
<1> QED BY <1>1, <1>2, <1>3 DEF KeptInv, Down, Again, Sized, Stands, Dumps, Completes,
                               Restores, ImageIsOnDisk

LEMMA StartKept ==
  ASSUME Regular, KeptInv, TypeOK', server_runtime_restore
  PROVE  KeptInv'
<1>1. /\ mode = "down" /\ checkpoint # "none" /\ mode' = "restoring" /\ pos' = 1
      /\ bypass' = FALSE /\ client' = saved /\ faithful' = (checkpoint = "complete")
      /\ used'.checkpoints = used.checkpoints
      /\ UNCHANGED <<map_res, new_res, dev, api_records, file_records, file_mem, saved, checkpoint>>
  BY DEF server_runtime_restore, memVars, fileVars, KeptInv, TypeOK
<1>2. map_res' = <<>> /\ dev' = NoBlocks /\ api_records' = <<>> /\ new_res' = {}
  BY <1>1 DEF KeptInv, Down
<1>3. Listed'
  BY <1>2 DEF Listed, SortedList, SameAddresses
<1>4. Completes'
  BY <1>1 DEF KeptInv, Completes, ImageIsOnDisk
<1>5. Restores'
  <2> SUFFICES ASSUME checkpoint = "complete" PROVE Restores'
    BY <1>1 DEF Restores
  <2>1. PICK t \in Traces(file_records) : t[Len(file_records)] = DOMAIN saved
    BY DEF KeptInv, Completes, Told
  <2>2. t[pos' - 1] = {}
    BY <1>1, <2>1 DEF Traces
  <2>3. PutBack(Here', dev', {}, file_mem')
    <3>1. DOMAIN NoBlocks = {}
      BY DEF NoBlocks
    <3> QED BY <1>2, <3>1 DEF PutBack, Leads
  <2>4. Tells(api_records', {}) /\ Told(api_records', {})
    BY <1>2, TellsNothing, ToldNothing
  <2> QED BY <1>1, <2>1, <2>2, <2>3, <2>4 DEF Restores
<1> QED BY <1>1, <1>2, <1>3, <1>4, <1>5 DEF KeptInv, Down, Again, Sized, Finite, Stands, Dumps

------------------------------------------------------------------------------
(* The replay. *)

(* The replay has come to where the trace t is after i records.            *)
At(t, i, w, d, f, rs) ==
  /\ PutBack(w, d, t[i], f) /\ Tells(rs, t[i])
  /\ Deterministic => Told(rs, t[i])

LEMMA ReplayKept ==
  ASSUME Regular, KeptInv, TypeOK', Restoring, GoOn, Listed',
         UNCHANGED <<bypass, new_res, fileVars, client, saved, checkpoint, used>>,
         faithful => \A t \in Traces(file_records) :
           At(t, pos - 1, Here, dev, file_mem, api_records)
             => At(t, pos, Here', dev', file_mem, api_records')
  PROVE  KeptInv'
<1>1. mode = "restoring" /\ mode' = "restoring" /\ faithful' = faithful /\ pos' - 1 = pos
  BY DEF Restoring, GoOn, KeptInv, TypeOK
<1>2. Completes'
  BY <1>1 DEF KeptInv, Completes, ImageIsOnDisk, fileVars
<1>3. Restores'
  <2> SUFFICES ASSUME faithful PROVE Restores'
    BY <1>1 DEF Restores
  <2>1. PICK t \in Traces(file_records) :
          t[Len(file_records)] = DOMAIN saved /\ At(t, pos - 1, Here, dev, file_mem, api_records)
    BY <1>1 DEF KeptInv, Restores, At
  <2>2. At(t, pos' - 1, Here', dev', file_mem', api_records')
    BY <1>1, <2>1 DEF fileVars
  <2>3. checkpoint' = "complete" /\ client' = saved' /\ file_records' = file_records
        /\ saved' = saved
    BY <1>1 DEF KeptInv, Restores, fileVars
  <2> QED BY <2>1, <2>2, <2>3 DEF Restores, At
<1> QED BY <1>1, <1>2, <1>3 DEF KeptInv, Down, Again, Sized, Finite, Stands, Dumps, fileVars

LEMMA TraceFacts ==
  ASSUME KeptInv, Restoring, NEW t \in Traces(file_records)
  PROVE  /\ Makes(t[pos - 1], Replayed, t[pos])
         /\ t[pos - 1] \in SUBSET Addr /\ t[pos] \in SUBSET Addr
<1>1. pos \in 1 .. Len(file_records) /\ pos - 1 \in 0 .. Len(file_records)
      /\ pos \in 0 .. Len(file_records)
  BY DEF KeptInv, Restoring, TypeOK
<1> QED BY <1>1 DEF Traces, Replayed

LEMMA SizesMatch ==
  ASSUME Regular, KeptInv, Restoring
  PROVE  ~ ShortFile
<1> SUFFICES ASSUME HasFile, file_mem[Replayed.ptr].size < Replayed.size PROVE FALSE
  BY DEF ShortFile
<1>1. Replayed.size \in Sizes /\ file_mem[Replayed.ptr].size \in Sizes
  BY ReplayedType DEF KeptInv, Sized, HasFile
<1>2. file_mem[Replayed.ptr].size = Replayed.size /\ Replayed.size \in Nat
  BY <1>1, OneSize, SizesArePositive
<1> QED BY <1>2

LEMMA RestoreMemoryKept ==
  ASSUME Regular, KeptInv, TypeOK', cr_restore_memory
  PROVE  KeptInv'
<1>1. /\ Restoring /\ GoOn /\ Replayed.fn = "malloc"
      /\ api_records' = Append(api_records, Replayed)
      /\ UNCHANGED <<bypass, new_res, fileVars, client, saved, checkpoint, used>>
  BY DEF cr_restore_memory, Keep
<1> DEFINE a == Replayed.ptr
           new == [size |-> Replayed.size, data |-> Contents]
<1>2. PICK p \in Places(Replayed.size) :
        /\ dev' = With(dev, p, new)
        /\ memory_mg_add_sorted(a, p, Replayed.size)
  BY DEF cr_restore_memory
<1>3. Replayed \in Record /\ a \in Addr /\ Replayed.size \in Sizes
  BY <1>1, ReplayedType DEF KeptInv
<1>4. p \in Room(Replayed.size) /\ p \in Addr \ DOMAIN dev
  BY <1>3, RoomIsFree DEF Places, KeptInv
<1>5. ~ bypass /\ new_res = {}
  <2>1. mode = "restoring"
    BY <1>1 DEF Restoring
  <2>2. Again
    BY DEF KeptInv
  <2> HIDE DEF a, new
  <2> QED BY <2>1, <2>2 DEF Again
<1>6. /\ SortedList(map_res)' /\ Entered(map_res, map_res', a, p)
      /\ Sizes \subseteq {1} => Here' = [Here EXCEPT ![a] = p]
  <2>1. map_res \in Seq(Translation) /\ SortedList(map_res)
    BY TypeParts DEF KeptInv, Listed
  <2>2. p \in Addr /\ UNCHANGED bypass
    BY <1>1, <1>4
  <2> HIDE DEF a, new
  <2> QED BY <1>2, <1>3, <1>5, <2>1, <2>2, AddSortedMaps
<1>7. ASSUME faithful, Deterministic, NEW t \in Traces(file_records),
             Leads(Here, dev, t[pos - 1])
      PROVE  p = a
  <2>1. /\ a \in Vacant(t[pos - 1], Replayed.size)
        /\ \A b \in Vacant(t[pos - 1], Replayed.size) : a <= b
    BY <1>1, <1>7, TraceFacts DEF Makes
  <2>2. DOMAIN dev = t[pos - 1]
    BY <1>1, <1>7, TraceFacts, PlainIsDirect DEF Plain
  <2>3. Room(Replayed.size) = Vacant(t[pos - 1], Replayed.size)
    BY <1>3, <2>2, RoomIsVacant DEF KeptInv
  <2>4. \A b \in Room(Replayed.size) : p <= b
    <3>1. p \in Places(Replayed.size) /\ Placement = "lowest"
      BY <1>2, <1>7 DEF Deterministic
    <3> HIDE DEF a, new
    <3> QED BY <3>1 DEF Places
  <2>5. p <= a /\ a <= p
    BY <1>4, <2>1, <2>3, <2>4
  <2>6. p \in Nat /\ a \in Nat
    BY <1>3, <1>4, AddressesAreNumbers
  <2> HIDE DEF a, new
  <2> QED BY <2>5, <2>6
<1>8. ASSUME faithful, Deterministic PROVE p = a /\ SameAddresses(map_res')
  <2>1. \E t \in Traces(file_records) : Leads(Here, dev, t[pos - 1])
    BY <1>1, <1>8 DEF KeptInv, Restores, PutBack, Restoring
  <2>2. p = a
    BY <1>7, <1>8, <2>1
  <2>3. SameAddresses(map_res)
    BY <1>8 DEF KeptInv, Listed
  <2> QED BY <1>6, <2>2, <2>3 DEF SameAddresses, Entered
<1>9. Listed'
  BY <1>1, <1>5, <1>6, <1>8 DEF Listed, GoOn
<1>10. ASSUME faithful PROVE Here' = [Here EXCEPT ![a] = p]
  <2>1. CASE Deterministic
    <3>1. /\ \A b \in Addr : Here[b] = b
          /\ p = a
      BY <1>8, <1>10, <2>1, PlainIsDirect DEF Plain
    <3>2. map_res' \in Seq(Translation)
      BY DEF TypeOK
    <3>3. \A b \in Addr : Here'[b] = b
      BY <1>8, <1>10, <2>1, <3>2, NothingMoves DEF Here, Way, SameAddresses
    <3>4. DOMAIN Here = Addr /\ DOMAIN Here' = Addr
          /\ Here = [b \in Addr |-> Here[b]] /\ Here' = [b \in Addr |-> Here'[b]]
      BY DEF Here, Way
    <3> HIDE DEF a
    <3> QED BY <3>1, <3>3, <3>4
  <2>2. CASE Elsewhere
    BY <1>6, <2>2 DEF Elsewhere
  <2> QED BY <2>1, <2>2 DEF Regular
<1>11. ASSUME faithful, NEW t \in Traces(file_records),
              At(t, pos - 1, Here, dev, file_mem, api_records)
       PROVE  At(t, pos, Here', dev', file_mem, api_records')
  <2> DEFINE H == t[pos - 1]
  <2>1. /\ ~ Replayed.err /\ a \notin H /\ t[pos] = H \cup {a}
        /\ H \in SUBSET Addr /\ t[pos] \in SUBSET Addr /\ Makes(H, Replayed, t[pos])
    BY <1>1, TraceFacts DEF Makes
  <2>2. PutBack(Here, dev, H, file_mem) /\ Tells(api_records, H)
        /\ (Deterministic => Told(api_records, H))
    BY <1>11 DEF At
  <2> HIDE DEF H
  <2>3. /\ DOMAIN dev' = DOMAIN dev \cup {p} /\ dev'[p] = new
        /\ \A b \in DOMAIN dev : dev'[b] = dev[b]
    BY <1>2, <1>4 DEF With
  <2>4. Here'[a] = p /\ \A b \in H : Here'[b] = Here[b]
    BY <1>3, <1>10, <1>11, <2>1, HereType DEF KeptInv
  <2>5. Leads(Here, dev, H)
    BY <2>2 DEF PutBack
  <2>6. Leads(Here', dev', t[pos])
    BY <1>4, <2>1, <2>3, <2>4, <2>5 DEF Leads
  <2>7. ASSUME NEW b \in t[pos]
        PROVE  dev'[Here'[b]].data = IF b \in DOMAIN file_mem THEN file_mem[b].data ELSE Undefined
    <3>1. CASE b = a
      BY <2>3, <2>4, <3>1 DEF Contents, HasFile
    <3>2. CASE b \in H
      BY <2>2, <2>3, <2>4, <2>5, <3>2 DEF PutBack, Leads
    <3> QED BY <2>1, <3>1, <3>2
  <2>8. Tells(api_records', t[pos])
    BY <1>1, <1>3, <2>1, <2>2, TellsMore, TypeParts DEF KeptInv
  <2>9. Deterministic => Told(api_records', t[pos])
    BY <1>1, <1>3, <2>1, <2>2, ToldMore, TypeParts DEF KeptInv
  <2> QED BY <2>6, <2>7, <2>8, <2>9 DEF At, PutBack
<1> QED BY <1>1, <1>9, <1>11, ReplayKept

(* A free that is repeated, once or twice.                                 *)
LEMMA CallRecordKept ==
  ASSUME Regular, KeptInv, TypeOK', cr_call_record
  PROVE  KeptInv'
<1>1. /\ Restoring /\ GoOn
      /\ Replayed.fn = "free" => dev' = Without(dev, memory_mg_get(Replayed.ptr))
      /\ Replayed.fn # "malloc"
      /\ api_records' = api_records \o <<Replayed, Replayed>>
      /\ UNCHANGED <<bypass, map_res, new_res, fileVars, client, saved, checkpoint, used>>
  BY DEF cr_call_record, CudaFree
<1> DEFINE a == Replayed.ptr
<1>2. Replayed \in Record /\ a \in Addr /\ memory_mg_get(a) = Here[a]
  BY <1>1, ReplayedType, WayIsGet DEF KeptInv
<1>3. Here' = Here
  BY <1>1, HereKept
<1>4. Listed'
  BY <1>1 DEF KeptInv, Listed, GoOn
<1>5. /\ api_records' = Append(Append(api_records, Replayed), Replayed)
      /\ api_records \in Seq(Record) /\ Append(api_records, Replayed) \in Seq(Record)
  BY <1>1, <1>2, TypeParts DEF KeptInv
<1>6. ASSUME faithful, NEW t \in Traces(file_records),
             At(t, pos - 1, Here, dev, file_mem, api_records)
      PROVE  At(t, pos, Here', dev', file_mem, api_records')
  <2> DEFINE H == t[pos - 1]
  <2>1. /\ Replayed.fn = "free" /\ t[pos] = H \ {a} /\ (Deterministic \/ a \in H)
        /\ H \in SUBSET Addr /\ t[pos] \in SUBSET Addr
    BY <1>1, TraceFacts DEF Makes
  <2>2. PutBack(Here, dev, H, file_mem) /\ Tells(api_records, H)
        /\ (Deterministic => Told(api_records, H)) /\ Leads(Here, dev, H)
    BY <1>6 DEF At, PutBack
  <2> HIDE DEF H
  <2>3. dev' = Without(dev, Here[a])
    BY <1>1, <1>2, <2>1
  <2>4. Leads(Here, dev', t[pos])
    <3>1. CASE a \in H
      <4>1. Leads(Here, Without(dev, Here[a]), H \ {a})
        BY <2>2, <3>1, LeadsLess
      <4> QED BY <2>1, <2>3, <4>1
    <3>2. CASE a \notin H
      <4>1. Deterministic /\ H \ {a} = H
        BY <2>1, <3>2
      <4>2. Here[a] = a /\ DOMAIN dev = H
        BY <1>2, <1>6, <2>1, <2>2, <4>1, PlainIsDirect DEF Plain
      <4>3. DOMAIN dev' = DOMAIN dev
        BY <2>3, <3>2, <4>2 DEF Without
      <4> QED BY <2>1, <2>2, <4>1, <4>3 DEF Leads
    <3> QED BY <3>1, <3>2
  <2>5. \A b \in DOMAIN dev' : dev'[b] = dev[b]
    BY <2>3, WithoutIs
  <2>6. ASSUME NEW b \in t[pos]
        PROVE  dev'[Here[b]].data = IF b \in DOMAIN file_mem THEN file_mem[b].data ELSE Undefined
    BY <2>1, <2>2, <2>4, <2>5 DEF PutBack, Leads
  <2>7. Tells(api_records', t[pos])
    <3>1. Tells(Append(api_records, Replayed), t[pos])
      BY <1>2, <1>5, <2>1, <2>2, TellsMore
    <3>2. t[pos] = t[pos] \ {a}
      BY <2>1
    <3>3. Tells(Append(Append(api_records, Replayed), Replayed), t[pos])
      BY <1>2, <1>5, <2>1, <3>1, <3>2, TellsMore
    <3> QED BY <1>5, <3>3
  <2>8. ASSUME Deterministic PROVE Told(api_records', t[pos])
    <3>1. Makes(H, Replayed, t[pos]) /\ Makes(t[pos], Replayed, t[pos])
      BY <2>1, <2>8 DEF Makes
    <3>2. Told(Append(api_records, Replayed), t[pos])
      BY <1>2, <1>5, <2>1, <2>2, <2>8, <3>1, ToldMore
    <3>3. Told(Append(Append(api_records, Replayed), Replayed), t[pos])
      BY <1>2, <1>5, <2>1, <3>1, <3>2, ToldMore
    <3> QED BY <1>5, <3>3
  <2> QED BY <1>3, <2>4, <2>6, <2>7, <2>8 DEF At, PutBack
<1> QED BY <1>1, <1>4, <1>6, ReplayKept

LEMMA OutOfMemoryKept ==
  ASSUME Regular, KeptInv, TypeOK', restore_out_of_memory
  PROVE  KeptInv'
<1>1. /\ mode = "restoring" /\ mode' = "serving" /\ faithful' = FALSE
      /\ UNCHANGED <<pos, bypass, map_res, new_res, dev, file_records, file_mem, client,
                     saved, checkpoint, used>>
  BY DEF restore_out_of_memory, Restoring, GiveUp, memVars, fileVars
<1>2. Completes'
  BY <1>1 DEF KeptInv, Completes, ImageIsOnDisk
<1> QED BY <1>1, <1>2 DEF KeptInv, Down, Again, Listed, Sized, Finite, Stands, Dumps, Restores

LEMMA RestoredKept ==
  ASSUME Regular, KeptInv, TypeOK', restore_complete
  PROVE  KeptInv'
<1>1. /\ mode = "restoring" /\ mode' = "serving" /\ pos > Len(file_records)
      /\ UNCHANGED <<pos, bypass, map_res, new_res, dev, api_records, file_records,
                     file_mem, client, saved, checkpoint, faithful, used>>
  BY DEF restore_complete, memVars, fileVars, ghosts
<1>2. Here' = Here
  BY <1>1, HereKept
<1>3. pos - 1 = Len(file_records)
  BY <1>1 DEF KeptInv, TypeOK
<1>4. ASSUME faithful
      PROVE  /\ Finds(Here, dev, client) /\ Tells(api_records, DOMAIN client)
             /\ Plain => Told(api_records, DOMAIN client)
  <2>1. /\ checkpoint = "complete" /\ client = saved
        /\ PutBack(Here, dev, DOMAIN client, file_mem) /\ Tells(api_records, DOMAIN client)
        /\ Deterministic => Told(api_records, DOMAIN client)
    BY <1>1, <1>3, <1>4 DEF KeptInv, Restores
  <2>2. \A a \in DOMAIN client :
          a \in DOMAIN file_mem /\ client[a].data \in {Undefined, file_mem[a].data}
    BY <2>1 DEF KeptInv, Completes, ImageIsOnDisk
  <2>3. Finds(Here, dev, client)
    BY <2>1, <2>2 DEF Finds, PutBack
  <2>4. ~ bypass
    BY <1>1 DEF KeptInv, Again
  <2> QED BY <2>1, <2>3, <2>4 DEF Plain
<1>5. Stands'
  BY <1>1, <1>2, <1>4 DEF Stands, Plain
<1>6. Completes'
  BY <1>1 DEF KeptInv, Completes, ImageIsOnDisk
<1> QED BY <1>1, <1>5, <1>6 DEF KeptInv, Down, Again, Listed, Sized, Finite, Dumps, Restores

LEMMA SyncWaitsKept ==
  ASSUME Regular, KeptInv, TypeOK', replayed_sync_waits
  PROVE  KeptInv'
<1>1. /\ mode' = "joining"
      /\ UNCHANGED <<pos, bypass, map_res, new_res, dev, api_records, file_records,
                     file_mem, client, saved, checkpoint, faithful, used>>
  BY DEF replayed_sync_waits, memVars, fileVars, ghosts
<1>2. Completes'
  BY <1>1 DEF KeptInv, Completes, ImageIsOnDisk
<1> QED BY <1>1, <1>2 DEF KeptInv, Down, Again, Listed, Sized, Finite, Stands, Dumps, Restores

LEMMA RestoreKept ==
  ASSUME Regular, KeptInv, TypeOK', RestoreStep
  PROVE  KeptInv'
<1>1. ~ restore_short_file
  BY SizesMatch DEF restore_short_file
<1> QED BY <1>1, RestoreMemoryKept, CallRecordKept, OutOfMemoryKept, SyncWaitsKept,
           RestoredKept DEF RestoreStep

LEMMA KeptInit == ASSUME Init PROVE KeptInv
<1>1. TypeOK
  BY TypeInit
<1>2. /\ mode = "serving" /\ bypass = TRUE /\ map_res = <<>> /\ new_res = {}
      /\ api_records = <<>> /\ dev = NoBlocks /\ file_mem = NoBlocks /\ client = NoBlocks
      /\ saved = NoBlocks /\ checkpoint = "none"
  BY DEF Init
<1>3. DOMAIN NoBlocks = {}
  BY DEF NoBlocks
<1>4. Stands
  BY <1>2, <1>3, TellsNothing, ToldNothing DEF Stands, Finds, Leads
<1>5. Finite
  BY <1>2, <1>3, FS_EmptySet DEF Finite
<1>6. Listed
  BY <1>2 DEF Listed, SortedList, SameAddresses
<1> QED BY <1>1, <1>2, <1>3, <1>4, <1>5, <1>6
        DEF KeptInv, Down, Again, Sized, Dumps, Completes, Restores

LEMMA KeptNext == ASSUME Regular, KeptInv, [Next]_vars PROVE KeptInv'
<1>1. TypeOK'
  BY TypeNext DEF KeptInv
<1>2. CASE UNCHANGED vars
  <2>1. Here' = Here
    BY <1>2, HereKept DEF vars, memVars
  <2>2. Stands' /\ Restores'
    BY <1>2, <2>1 DEF KeptInv, Stands, Restores, Plain, vars, memVars, fileVars, ghosts
  <2> QED BY <1>1, <1>2, <2>2 DEF KeptInv, Down, Again, Listed, Sized, Finite, Dumps, Completes,
             ImageIsOnDisk, Plain, vars, memVars, fileVars, ghosts
<1>3. CASE DumpStep
  BY <1>1, <1>3, DumpEntryKept, CreatedKept, NoWriteFails DEF DumpStep
<1> QED BY <1>1, <1>2, <1>3, HandlerKept, DumpStartKept, NoWriteFails, StopKept, StartKept,
           RestoreKept DEF Next

LEMMA KeptAlways == ASSUME Regular PROVE Spec => []KeptInv
<1>1. Init => KeptInv
  BY KeptInit
<1>2. KeptInv /\ [Next]_vars => KeptInv'
  BY KeptNext
<1> QED BY <1>1, <1>2, PTL DEF Spec

(* On the conditions of Regular every pointer of a restored client leads   *)
(* to its block, with its contents, after any number of checkpoints,       *)
(* crashes and restarts.                                                   *)
THEOREM ClientAlwaysSeesItsMemory ==
  ASSUME Regular PROVE Spec => []ClientSeesItsMemory
<1>1. ASSUME KeptInv PROVE ClientSeesItsMemory
  <2> SUFFICES ASSUME Settled, NEW a \in DOMAIN client
               PROVE  LET p == memory_mg_get(a)
                      IN  /\ p \in DOMAIN dev /\ dev[p].size = client[a].size
                          /\ client[a].data \in {Undefined, dev[p].data}
    BY DEF ClientSeesItsMemory
  <2>1. Finds(Here, dev, client) /\ TypeOK
    BY <1>1 DEF KeptInv, Stands, Settled
  <2>2. memory_mg_get(a) = Here[a]
    BY <2>1, WayIsGet, TypeParts
  <2>3. Here[a] \in DOMAIN dev /\ client[a].data \in {Undefined, dev[Here[a]].data}
    BY <2>1 DEF Finds, Leads
  <2>4. dev[Here[a]].size = client[a].size
    BY <2>1, <2>3, TypeParts, OneSize
  <2> QED BY <2>2, <2>3, <2>4
<1> QED BY <1>1, KeptAlways, PTL

(* On the conditions of Regular a complete checkpoint, a restored server's *)
(* too, has every block of the client's image with its size and contents.  *)
THEOREM CompleteAlwaysCovers == ASSUME Regular PROVE Spec => []CheckpointCovers
<1>1. KeptInv => CheckpointCovers
  BY DEF KeptInv, Completes, CheckpointCovers
<1> QED BY <1>1, KeptAlways, PTL

(* On the conditions of Regular, and if cudaMalloc never fails, the        *)
(* addresses it returned in this run pass through the manager of memory;   *)
(* where addresses repeat, even if it does.                                *)
THEOREM ActualAddressesAlwaysPass ==
  ASSUME Regular, Deterministic \/ "memory" \notin Faults
  PROVE  Spec => []ActualAddressesPassThrough
<1>1. ASSUME KeptInv PROVE ActualAddressesPassThrough
  <2> SUFFICES ASSUME Settled, NEW a \in new_res, a \in Addr PROVE memory_mg_get(a) = a
    BY <1>1 DEF ActualAddressesPassThrough, KeptInv, TypeOK
  <2>1. memory_mg_get(a) = Here[a]
    BY WayIsGet
  <2>2. CASE Plain
    BY <1>1, <2>1, <2>2, PlainIsDirect DEF Settled
  <2>3. CASE ~ Plain
    <3>1. Elsewhere /\ Sizes \subseteq {1} /\ map_res \in Seq(Translation)
      BY <1>1, <2>3, TypeParts DEF Regular, Plain, Elsewhere, KeptInv
    <3>2. \A i \in 1 .. Len(map_res) : map_res[i].client # a
      BY <1>1, <2>3, <3>1 DEF KeptInv, Listed, Plain
    <3>3. Bisect(map_res, a) = a
      BY <3>1, <3>2, OthersPassThrough
    <3> QED BY <2>3, <3>3 DEF memory_mg_get, Plain
  <2> QED BY <2>2, <2>3
<1> QED BY <1>1, KeptAlways, PTL

(* On the conditions of Regular no block of the device is lost, and no two *)
(* pointers of a client name one.                                          *)
THEOREM NoBlockIsEverLost == ASSUME Regular PROVE Spec => []NoBlockIsLost
<1>1. ASSUME KeptInv PROVE NoBlockIsLost
  <2> SUFFICES ASSUME Settled
               PROVE  /\ DOMAIN dev = {memory_mg_get(a) : a \in DOMAIN client}
                      /\ Cardinality(DOMAIN dev) = Cardinality(DOMAIN client)
    BY DEF NoBlockIsLost
  <2>1. Leads(Here, dev, DOMAIN client) /\ TypeOK /\ IsFiniteSet(DOMAIN client)
    BY <1>1 DEF KeptInv, Stands, Settled, Finds, Finite
  <2>2. \A a \in DOMAIN client : memory_mg_get(a) = Here[a]
    BY <2>1, WayIsGet, TypeParts
  <2>3. DOMAIN dev = {memory_mg_get(a) : a \in DOMAIN client}
    BY <2>1, <2>2 DEF Leads
  <2>4. Cardinality(DOMAIN dev) = Cardinality(DOMAIN client)
    <3> DEFINE f == [a \in DOMAIN client |-> Here[a]]
    <3>1. f \in Bijection(DOMAIN client, DOMAIN dev)
      BY <2>1 DEF Leads, Bijection, Injection, Surjection, IsInjective
    <3>2. ExistsBijection(DOMAIN client, DOMAIN dev)
      BY <3>1 DEF ExistsBijection
    <3> QED BY <2>1, <3>2, FS_Bijection
  <2> QED BY <2>3, <2>4
<1> QED BY <1>1, KeptAlways, PTL

(* On the conditions of Regular the last record on an address says whether *)
(* the client holds a block there, doubled frees included.                 *)
THEOREM RecordsAlwaysTell == ASSUME Regular PROVE Spec => []RecordsTellWhatIsHeld
<1>1. ASSUME NEW a PROVE Holds(a) <=> SaysHeld(api_records, a)
  BY DEF Holds, LastOn, SaysHeld, Concerns
<1>2. ASSUME KeptInv PROVE RecordsTellWhatIsHeld
  BY <1>1, <1>2 DEF RecordsTellWhatIsHeld, KeptInv, Stands, Settled, Tells
<1> QED BY <1>2, KeptAlways, PTL

------------------------------------------------------------------------------
(* The server implements ClientMemory. *)

(* What the client finds is what it wrote. *)
MemoryFound == Memory = IF State = "up" THEN client ELSE NoBlocks

LEMMA MemoryIsFound == ASSUME Regular, KeptInv PROVE MemoryFound
<1> SUFFICES ASSUME State = "up" PROVE [a \in DOMAIN client |-> Found(a)] = client
  BY DEF Memory, MemoryFound
<1>1. Finds(Here, dev, client) /\ TypeOK
  BY DEF KeptInv, Stands, State, Up
<1>2. ASSUME NEW a \in DOMAIN client PROVE Found(a) = client[a]
  <2>1. memory_mg_get(a) = Here[a] /\ client[a] \in Block /\ client[a].size \in Sizes
    BY <1>1, WayIsGet, TypeParts
  <2>2. Here[a] \in DOMAIN dev /\ client[a].data \in {Undefined, dev[Here[a]].data}
    BY <1>1 DEF Finds, Leads
  <2>3. dev[Here[a]].size = client[a].size
    BY <1>1, <2>1, <2>2, TypeParts, OneSize
  <2>4. Found(a) = [size |-> client[a].size, data |-> client[a].data]
    BY <2>1, <2>2, <2>3 DEF Found
  <2> QED BY <2>1, <2>4 DEF Block
<1>3. PICK D : client \in [D -> Block]
  BY <1>1 DEF TypeOK, Map
<1> QED BY <1>2, <1>3

PromisedStep == [Promise!Next]_(Promise!memoryVars)
ImageStays == (checkpoint = "complete")' = (checkpoint = "complete") /\ Image' = Image

LEMMA PromiseStutters ==
  ASSUME State' = State, Memory' = Memory, ImageStays
  PROVE  PromisedStep
BY DEF PromisedStep, Promise!memoryVars, ImageStays

LEMMA ImageUnchanged == ASSUME UNCHANGED <<checkpoint, saved>> PROVE ImageStays
BY DEF ImageStays, Image

LEMMA StateUnchanged == ASSUME UNCHANGED <<mode, faithful>> PROVE State' = State
BY DEF State, Up

LEMMA MallocImplements ==
  ASSUME Regular, KeptInv, MemoryFound, MemoryFound', NEW size \in Sizes, cuda_malloc(size)
  PROVE  PromisedStep
<1> DEFINE new == [size |-> size, data |-> Undefined]
<1>1. PICK p \in Places(size) : client' = With(client, p, new)
  BY DEF cuda_malloc
<1>2. mode = "serving" /\ State' = State /\ ImageStays
  BY ImageUnchanged, StateUnchanged DEF cuda_malloc, Serving, ghosts
<1>3. CASE faithful
  <2>1. State = "up" /\ Memory = client /\ Memory' = client'
    BY <1>2, <1>3 DEF MemoryFound, State, Up
  <2>2. p \in Addr /\ p \notin DOMAIN client
    BY <1>2, <1>3, NewIsDirect
  <2>3. client' = [q \in DOMAIN client \cup {p} |-> IF q = p THEN new ELSE client[q]]
    BY <1>1 DEF With
  <2>4. Promise!Malloc(p, size)
    BY <1>2, <2>1, <2>2, <2>3 DEF Promise!Malloc, Promise!With, ImageStays
  <2> QED BY <2>2, <2>4 DEF PromisedStep, Promise!Next
<1>4. CASE ~ faithful
  <2>1. Memory = NoBlocks /\ Memory' = NoBlocks
    BY <1>2, <1>4 DEF MemoryFound, State, Up
  <2> QED BY <1>2, <2>1, PromiseStutters
<1> QED BY <1>3, <1>4

LEMMA FreeImplements ==
  ASSUME Regular, KeptInv, MemoryFound, MemoryFound', NEW a \in DOMAIN client, cuda_free(a)
  PROVE  PromisedStep
<1>1. mode = "serving" /\ State' = State /\ ImageStays /\ client' = Without(client, a)
  BY ImageUnchanged, StateUnchanged DEF cuda_free, Serving, ghosts
<1>2. CASE faithful
  <2>1. State = "up" /\ Memory = client /\ Memory' = client'
    BY <1>1, <1>2 DEF MemoryFound, State, Up
  <2>2. a \in Addr
    BY TypeParts DEF KeptInv
  <2>3. Promise!Free(a)
    BY <1>1, <2>1 DEF Promise!Free, Without, ImageStays
  <2> QED BY <2>2, <2>3 DEF PromisedStep, Promise!Next
<1>3. CASE ~ faithful
  <2>1. Memory = NoBlocks /\ Memory' = NoBlocks
    BY <1>1, <1>3 DEF MemoryFound, State, Up
  <2> QED BY <1>1, <2>1, PromiseStutters
<1> QED BY <1>2, <1>3

LEMMA MemcpyImplements ==
  ASSUME Regular, KeptInv, MemoryFound, MemoryFound', NEW a \in DOMAIN client, NEW v \in Values,
         cuda_memcpy_htod(a, v)
  PROVE  PromisedStep
<1>1. /\ mode = "serving" /\ State' = State /\ ImageStays
      /\ client' = [client EXCEPT ![a].data = v]
  BY ImageUnchanged, StateUnchanged DEF cuda_memcpy_htod, Store, Wrote, ghosts
<1>2. CASE faithful
  <2>1. State = "up" /\ Memory = client /\ Memory' = client'
    BY <1>1, <1>2 DEF MemoryFound, State, Up
  <2>2. a \in Addr /\ client[a] \in Block
    BY TypeParts DEF KeptInv
  <2>3. PICK D : client \in [D -> Block]
    BY DEF KeptInv, TypeOK, Map
  <2>4. [client[a] EXCEPT !.data = v] = [size |-> client[a].size, data |-> v]
    BY <2>2 DEF Block
  <2>5. client' = [client EXCEPT ![a] = [size |-> client[a].size, data |-> v]]
    BY <1>1, <2>4
  <2>6. client' = [q \in DOMAIN client \cup {a} |->
                     IF q = a THEN [size |-> client[a].size, data |-> v] ELSE client[q]]
    BY <2>3, <2>5
  <2>7. Promise!Store(a, v)
    BY <1>1, <2>1, <2>6 DEF Promise!Store, Promise!With, ImageStays
  <2> QED BY <2>2, <2>7 DEF PromisedStep, Promise!Next
<1>3. CASE ~ faithful
  <2>1. Memory = NoBlocks /\ Memory' = NoBlocks
    BY <1>1, <1>3 DEF MemoryFound, State, Up
  <2> QED BY <1>1, <2>1, PromiseStutters
<1> QED BY <1>2, <1>3

LEMMA HandlerImplements ==
  ASSUME Regular, KeptInv, MemoryFound, MemoryFound', Handler
  PROVE  PromisedStep
<1>1. \A a \in DOMAIN client, v \in Values :
        ~ cuda_memset_3d(a, v) /\ ~ cuda_memcpy_shm(a, v) /\ ~ cuda_memcpy_mt(a, v)
  BY DEF Regular, cuda_memset_3d, cuda_memcpy_shm, cuda_memcpy_mt
<1>2. ASSUME NEW size \in Sizes, cuda_malloc_fails(size) PROVE PromisedStep
  <2>1. State' = State /\ ImageStays /\ client' = client
    BY <1>2, ImageUnchanged, StateUnchanged DEF cuda_malloc_fails, ghosts
  <2>2. Memory' = Memory
    BY <2>1 DEF MemoryFound
  <2> QED BY <2>1, <2>2, PromiseStutters
<1> QED BY <1>1, <1>2, MallocImplements, FreeImplements, MemcpyImplements DEF Handler

(* A dump that leaves no good checkpoint behind, whatever was there before.*)
LEMMA Spoils ==
  ASSUME Regular, KeptInv, MemoryFound, MemoryFound', Up, Up', UNCHANGED <<client, faithful>>,
         checkpoint' # "complete"
  PROVE  PromisedStep
<1>1. State' = State /\ State # "down"
  BY DEF State
<1>2. Memory' = Memory
  BY <1>1 DEF MemoryFound
<1>3. (checkpoint = "complete")' = FALSE /\ Image' = Promise!NoMemory
  BY DEF Image, Promise!NoMemory, NoBlocks
<1>4. Promise!Spoil
  BY <1>1, <1>2, <1>3 DEF Promise!Spoil
<1> QED BY <1>4 DEF PromisedStep, Promise!Next

LEMMA DumpImplements ==
  ASSUME Regular, KeptInv, MemoryFound, MemoryFound', cr_dump \/ DumpStep
  PROVE  PromisedStep
<1>1. ASSUME cr_dump PROVE PromisedStep
  <2>1. Up /\ Up' /\ checkpoint' # "complete" /\ UNCHANGED <<client, faithful>>
    BY <1>1 DEF cr_dump, Up
  <2> QED BY <2>1, Spoils
<1>2. ASSUME dump_skips_record \/ cr_dump_memory_entry \/ dump_entry_unreadable
             \/ dump_entry_unopened
      PROVE  PromisedStep
  <2>1. /\ mode = "dumping" /\ mode' = "dumping" /\ UNCHANGED <<client, faithful>>
        /\ checkpoint' = checkpoint \/ checkpoint' = "damaged"
    BY <1>2 DEF dump_skips_record, cr_dump_memory_entry, dump_entry_unreadable,
                dump_entry_unopened, Dumping, AtMalloc, ghosts
  <2>2. checkpoint # "complete"
    BY <2>1 DEF KeptInv, Completes
  <2>3. Up /\ Up' /\ checkpoint' # "complete"
    BY <2>1, <2>2 DEF Up
  <2> QED BY <2>1, <2>3, Spoils
<1>3. ASSUME checkpoint_created PROVE PromisedStep
  <2>1. /\ mode = "dumping" /\ mode' = "serving" /\ saved' = client
        /\ checkpoint' = IF checkpoint = "writing" THEN "complete" ELSE "doubtful"
        /\ UNCHANGED <<client, faithful>>
    BY <1>3 DEF checkpoint_created
  <2>2. CASE checkpoint = "writing"
    <3>1. faithful /\ State = "up" /\ State' = "up"
      BY <2>1, <2>2 DEF KeptInv, Dumps, State, Up
    <3>2. Memory = client /\ Memory' = client
      BY <2>1, <3>1 DEF MemoryFound
    <3>3. checkpoint' = "complete" /\ Image' = client
      BY <2>1, <2>2 DEF Image
    <3>4. Promise!Checkpoint
      BY <3>1, <3>2, <3>3 DEF Promise!Checkpoint
    <3> QED BY <3>4 DEF PromisedStep, Promise!Next
  <2>3. CASE checkpoint # "writing"
    <3>1. Up /\ Up' /\ checkpoint' # "complete"
      BY <2>1, <2>3 DEF Up
    <3> QED BY <2>1, <3>1, Spoils
  <2> QED BY <2>2, <2>3
<1> QED BY <1>1, <1>2, <1>3, NoWriteFails DEF DumpStep

LEMMA StopImplements ==
  ASSUME Regular, KeptInv, MemoryFound, MemoryFound', svc_exit \/ Crash
  PROVE  PromisedStep
<1>1. mode' = "down" /\ ImageStays
  BY ImageUnchanged DEF svc_exit, Crash, Stop
<1>2. State' = "down" /\ Memory' = NoBlocks
  BY <1>1 DEF MemoryFound, State, Up
<1>3. CASE State = "down"
  <2>1. Memory = NoBlocks
    BY <1>3 DEF MemoryFound
  <2> QED BY <1>1, <1>2, <1>3, <2>1, PromiseStutters
<1>4. CASE State # "down"
  <2>1. Memory' = Promise!NoMemory
    BY <1>2 DEF Promise!NoMemory, NoBlocks
  <2>2. Promise!Stop
    BY <1>1, <1>2, <1>4, <2>1 DEF Promise!Stop, ImageStays
  <2> QED BY <2>2 DEF PromisedStep, Promise!Next
<1> QED BY <1>3, <1>4

(* While records are replayed nothing is promised yet.                     *)
LEMMA ReplayImplements ==
  ASSUME Regular, KeptInv, MemoryFound, MemoryFound', mode \in {"down", "restoring"},
         mode' \in {"restoring", "joining"}, UNCHANGED <<checkpoint, saved>>
  PROVE  PromisedStep
<1>1. State = "down" /\ State' = "down"
  BY DEF State, Up
<1>2. Memory = NoBlocks /\ Memory' = NoBlocks
  BY <1>1 DEF MemoryFound
<1> QED BY <1>1, <1>2, ImageUnchanged, PromiseStutters

(* A replay that ends gives the client its image back, or gives up.        *)
LEMMA EndImplements ==
  ASSUME Regular, KeptInv, MemoryFound, MemoryFound', mode = "restoring", mode' = "serving",
         UNCHANGED <<checkpoint, saved>>, faithful' => faithful /\ client' = client
  PROVE  PromisedStep
<1>1. State = "down" /\ Memory = NoBlocks /\ ImageStays
  BY ImageUnchanged DEF MemoryFound, State, Up
<1>2. CASE faithful'
  <2>1. faithful /\ checkpoint = "complete" /\ client = saved
    BY <1>2 DEF KeptInv, Restores
  <2>2. State' = "up" /\ Memory' = client' /\ client' = client /\ Image = saved
    BY <1>2, <2>1 DEF MemoryFound, State, Up, Image
  <2>3. Promise!Restart
    BY <1>1, <2>1, <2>2 DEF Promise!Restart, ImageStays
  <2> QED BY <2>3 DEF PromisedStep, Promise!Next
<1>3. CASE ~ faithful'
  <2>1. State' = "lost" /\ Memory' = NoBlocks
    BY <1>3 DEF MemoryFound, State, Up
  <2>2. Promise!Lose
    BY <1>1, <2>1 DEF Promise!Lose, ImageStays
  <2> QED BY <2>2 DEF PromisedStep, Promise!Next
<1> QED BY <1>2, <1>3

LEMMA RestoreImplements ==
  ASSUME Regular, KeptInv, MemoryFound, MemoryFound', server_runtime_restore \/ RestoreStep
  PROVE  PromisedStep
<1>1. ~ restore_short_file
  BY SizesMatch DEF restore_short_file, KeptInv
<1>2. ASSUME \/ server_runtime_restore \/ cr_restore_memory \/ cr_call_record
             \/ replayed_sync_waits
      PROVE  PromisedStep
  <2>1. /\ mode \in {"down", "restoring"} /\ mode' \in {"restoring", "joining"}
        /\ UNCHANGED <<checkpoint, saved>>
    BY <1>2 DEF server_runtime_restore, cr_restore_memory, cr_call_record,
                replayed_sync_waits, Restoring, GoOn, ghosts
  <2> QED BY <2>1, ReplayImplements
<1>3. ASSUME restore_out_of_memory \/ restore_complete PROVE PromisedStep
  <2>1. /\ mode = "restoring" /\ mode' = "serving" /\ UNCHANGED <<checkpoint, saved>>
        /\ faithful' => faithful /\ client' = client
    BY <1>3 DEF restore_out_of_memory, restore_complete, Restoring, GiveUp, ghosts
  <2> QED BY <2>1, EndImplements
<1> QED BY <1>1, <1>2, <1>3 DEF RestoreStep

(* On the conditions of Regular the device, with its records, files and    *)
(* translations, is seen from the client the memory of ClientMemory: only  *)
(* the client's calls change it, and a restart gives back what was there   *)
(* at the last complete checkpoint.                                        *)
THEOREM ImplementsTheMemory == ASSUME Regular PROVE Spec => ImplementsClientMemory
<1>1. Init => Promise!Init
  <2> SUFFICES ASSUME Init PROVE Promise!Init
    OBVIOUS
  <2>1. KeptInv /\ MemoryFound /\ State = "up" /\ client = NoBlocks /\ checkpoint = "none"
    BY KeptInit, MemoryIsFound DEF Init, State, Up
  <2>2. Memory = NoBlocks /\ Image = NoBlocks
    BY <2>1 DEF MemoryFound, Image
  <2>3. NoBlocks = Promise!NoMemory
    BY DEF NoBlocks, Promise!NoMemory
  <2> QED BY <2>1, <2>2, <2>3 DEF Promise!Init
<1>2. KeptInv /\ MemoryFound /\ MemoryFound' /\ [Next]_vars
        => [Promise!Next]_(Promise!memoryVars)
  <2> SUFFICES ASSUME KeptInv, MemoryFound, MemoryFound', [Next]_vars PROVE PromisedStep
    BY DEF PromisedStep
  <2>1. CASE UNCHANGED vars
    <3>1. State' = State /\ ImageStays /\ client' = client
      BY <2>1, ImageUnchanged, StateUnchanged DEF vars, ghosts
    <3>2. Memory' = Memory
      BY <3>1 DEF MemoryFound
    <3> QED BY <3>1, <3>2, PromiseStutters
  <2>2. CASE Next
    BY <2>2, HandlerImplements, DumpImplements, StopImplements, RestoreImplements,
       NoWriteFails DEF Next
  <2> QED BY <2>1, <2>2
<1>3. KeptInv => MemoryFound
  BY MemoryIsFound
<1> QED BY <1>1, <1>2, <1>3, KeptAlways, PTL DEF Spec, ImplementsClientMemory, Promise!Spec
==============================================================================
