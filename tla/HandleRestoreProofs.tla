------------------------- MODULE HandleRestoreProofs -------------------------
(***************************************************************************)
(* Theorems about HandleRestore for any handles, kinds, devices, modules   *)
(* and functions, and for any number of calls, checkpoints, restarts and   *)
(* failures.                                                               *)
(***************************************************************************)
EXTENDS HandleRestore, FiniteSetTheorems, SequenceTheorems, TLAPS

(* Maps, and the tables of objects. *)

LEMMA MapIs ==
  ASSUME NEW D, NEW S, NEW f \in Map(D, S)
  PROVE  /\ DOMAIN f \subseteq D /\ \A x \in DOMAIN f : f[x] \in S
         /\ f = [x \in DOMAIN f |-> f[x]]
BY DEF Map

LEMMA IsMap ==
  ASSUME NEW D, NEW S, NEW f, NEW E \in SUBSET D, f \in [E -> S]
  PROVE  f \in Map(D, S)
BY DEF Map

LEMMA WithIs ==
  ASSUME NEW f, NEW a, NEW b
  PROVE  /\ DOMAIN With(f, a, b) = DOMAIN f \cup {a} /\ With(f, a, b)[a] = b
         /\ \A x \in DOMAIN f : x # a => With(f, a, b)[x] = f[x]
BY DEF With

LEMMA WithInMap ==
  ASSUME NEW D, NEW S, NEW f \in Map(D, S), NEW a \in D, NEW b \in S
  PROVE  With(f, a, b) \in Map(D, S)
<1>1. DOMAIN f \subseteq D /\ \A x \in DOMAIN f : f[x] \in S
  BY MapIs
<1>2. With(f, a, b) \in [DOMAIN f \cup {a} -> S]
  BY <1>1 DEF With
<1>3. DOMAIN f \cup {a} \in SUBSET D
  BY <1>1
<1> QED BY <1>2, <1>3, IsMap, Zenon

LEMMA WithoutIs ==
  ASSUME NEW f, NEW a
  PROVE  /\ DOMAIN Without(f, a) = DOMAIN f \ {a}
         /\ \A x \in DOMAIN f \ {a} : Without(f, a)[x] = f[x]
BY DEF Without

LEMMA WithoutInMap ==
  ASSUME NEW D, NEW S, NEW f \in Map(D, S), NEW a
  PROVE  Without(f, a) \in Map(D, S)
<1>1. DOMAIN f \subseteq D /\ \A x \in DOMAIN f : f[x] \in S
  BY MapIs
<1>2. Without(f, a) \in [DOMAIN f \ {a} -> S]
  BY <1>1 DEF Without
<1>3. DOMAIN f \ {a} \in SUBSET D
  BY <1>1
<1> QED BY <1>2, <1>3, IsMap, Zenon

LEMMA NothingInMap == ASSUME NEW D, NEW S PROVE Nothing \in Map(D, S) /\ DOMAIN Nothing = {}
<1>1. Nothing \in [{} -> S] /\ {} \in SUBSET D /\ DOMAIN Nothing = {}
  BY DEF Nothing
<1> QED BY <1>1, IsMap, Zenon

Objects == Map(Handle, Object)
Tables == [Kinds -> Objects]

LEMMA NoObjectsType ==
  /\ NoObjects \in Tables /\ NoObjects \in [Kinds -> Map(Handle, Handle)]
  /\ \A k \in Kinds : NoObjects[k] = Nothing
<1>1. Nothing \in Objects /\ Nothing \in Map(Handle, Handle)
  BY NothingInMap DEF Objects
<1> QED BY <1>1 DEF NoObjects, Tables

LEMMA NewClientType ==
  /\ NewClient = [objects |-> NoObjects, modules |-> Nothing, functions |-> Nothing,
                  device |-> 0]
  /\ NewClient.objects \in Tables /\ NewClient.device \in Devices
  /\ NewClient.modules \in Map(Modules, Devices)
  /\ NewClient.functions \in Map(Functions, Modules)
<1>1. /\ NewClient.objects = NoObjects /\ NewClient.device = 0
      /\ NewClient.modules = Nothing /\ NewClient.functions = Nothing
  BY DEF NewClient
<1> QED BY <1>1, NothingInMap, NoObjectsType, DevicesAreNumbers DEF NewClient

LEMMA ObjectFields ==
  ASSUME NEW o \in Object
  PROVE  /\ o.conf \in Confs /\ o.dev \in Devices /\ o.on \in Handle \cup {None}
         /\ \A s \in Handle \cup {None} : [o EXCEPT !.on = s] \in Object
BY DEF Object

LEMMA CreatedType ==
  ASSUME NEW o \in Tables, NEW k \in Kinds, NEW h \in Handle, NEW c \in Confs,
         NEW d \in Devices
  PROVE  Created(o, k, h, c, d) \in Tables
<1>1. [conf |-> c, dev |-> d, on |-> None] \in Object
  BY DEF Object
<1>2. o[k] \in Objects
  BY DEF Tables
<1>3. With(o[k], h, [conf |-> c, dev |-> d, on |-> None]) \in Objects
  BY <1>1, <1>2, WithInMap DEF Objects
<1> QED BY <1>3 DEF Created, Tables

LEMMA DestroyedType ==
  ASSUME NEW o \in Tables, NEW k, NEW h
  PROVE  Destroyed(o, k, h) \in Tables
<1> DEFINE new(j) == IF j = k THEN Without(o[j], h)
                     ELSE [x \in DOMAIN o[j] |->
                             IF k = "stream" /\ o[j][x].on = h
                             THEN [o[j][x] EXCEPT !.on = None] ELSE o[j][x]]
<1>1. ASSUME NEW j \in Kinds PROVE new(j) \in Objects
  <2>1. o[j] \in Objects
    BY DEF Tables
  <2>2. CASE j = k
    BY <2>1, <2>2, WithoutInMap DEF Objects
  <2>3. CASE j # k
    <3>1. DOMAIN o[j] \in SUBSET Handle /\ \A x \in DOMAIN o[j] : o[j][x] \in Object
      BY <2>1, MapIs DEF Objects
    <3>2. new(j) \in [DOMAIN o[j] -> Object]
      BY <2>3, <3>1, ObjectFields
    <3> HIDE DEF new
    <3> QED BY <3>1, <3>2, IsMap DEF Objects
  <2> QED BY <2>2, <2>3
<1>2. Destroyed(o, k, h) = [j \in Kinds |-> new(j)]
  BY DEF Destroyed
<1> HIDE DEF new
<1> QED BY <1>1, <1>2 DEF Tables

LEMMA BoundType ==
  ASSUME NEW o \in Tables, NEW k \in Kinds, NEW h \in Handle, NEW s \in Handle
  PROVE  Bound(o, k, h, s) \in Tables
<1>1. CASE h \in DOMAIN o[k] /\ s \in DOMAIN o["stream"]
  <2>1. o[k] \in Objects /\ DOMAIN o[k] \in SUBSET Handle /\ o[k][h] \in Object
    BY <1>1, MapIs DEF Tables, Objects
  <2> DEFINE new == [o[k] EXCEPT ![h].on = s]
  <2>2. \A x \in DOMAIN o[k] : new[x] \in Object
    BY <2>1, MapIs, ObjectFields DEF Objects
  <2>3. new \in [DOMAIN o[k] -> Object]
    BY <2>2
  <2>4. new \in Objects
    BY <2>1, <2>3, IsMap DEF Objects
  <2>5. Bound(o, k, h, s) = [o EXCEPT ![k] = new]
    BY <1>1 DEF Bound
  <2> HIDE DEF new
  <2> QED BY <2>4, <2>5 DEF Tables
<1>2. CASE ~ (h \in DOMAIN o[k] /\ s \in DOMAIN o["stream"])
  BY <1>2 DEF Bound
<1> QED BY <1>1, <1>2

------------------------------------------------------------------------------
(* Type correctness.  The records have to be typed with the rest, since    *)
(* the replay takes handles, devices and keys from them.                   *)

Record == [fn : {"create", "destroy", "bind", "set_device", "elf_load", "register"},
           kind : Kinds, handle : Handle \cup {None} \cup Devices,
           on : Handle \cup {None}, conf : Confs \cup {None},
           key : Modules \cup {None}, name : Functions \cup {None}, image : BOOLEAN]

WellFormed(r) ==
  /\ r.fn = "create" => r.handle \in Handle /\ r.conf \in Confs
  /\ r.fn = "destroy" => r.handle \in Handle
  /\ r.fn = "bind" => r.handle \in Handle /\ r.on \in Handle /\ r.kind # "stream"
  /\ r.fn = "set_device" => r.handle \in Devices
  /\ r.fn = "elf_load" => r.key \in Modules
  /\ r.fn = "register" => r.key \in Modules /\ r.name \in Functions
  /\ r.fn # "elf_load" => ~ r.image

Records == {r \in Record : WellFormed(r)}

Clients == [objects : Tables, modules : Map(Modules, Devices),
            functions : Map(Functions, Modules), device : Devices]

Typed == /\ TypeOK /\ client \in Clients /\ saved \in Clients
         /\ api_records \in Seq(Records) /\ file_records \in Seq(Records)

LEMMA CreateIsRecord ==
  ASSUME NEW k \in Kinds, NEW h \in Handle, NEW c \in Confs
  PROVE  Create(k, h, c) \in Records
BY DEF Create, Blank, Records, Record, WellFormed

LEMMA NewRecords ==
  ASSUME NEW k \in Kinds, NEW h \in Handle, NEW s \in Handle, NEW c \in Confs,
         NEW d \in Devices, NEW m \in Modules, NEW f \in Functions
  PROVE  /\ Create(k, h, c) \in Records /\ Destroy(k, h) \in Records
         /\ SetDevice(d) \in Records /\ ElfLoad(m) \in Records
         /\ Register(f, m) \in Records
         /\ k # "stream" => Bind(k, h, s) \in Records
<1>1. Create(k, h, c) \in Records
  BY CreateIsRecord
<1>2. Destroy(k, h) \in Records
  BY DEF Destroy, Blank, Records, Record, WellFormed
<1>3. SetDevice(d) \in Records
  BY KindsAreKnown DEF SetDevice, Blank, Records, Record, WellFormed
<1>4. ElfLoad(m) \in Records
  BY KindsAreKnown DEF ElfLoad, Blank, Records, Record, WellFormed
<1>5. Register(f, m) \in Records
  BY KindsAreKnown DEF Register, Blank, Records, Record, WellFormed
<1>6. ASSUME k # "stream" PROVE Bind(k, h, s) \in Records
  BY <1>6 DEF Bind, Blank, Records, Record, WellFormed
<1> QED BY <1>1, <1>2, <1>3, <1>4, <1>5, <1>6

LEMMA RecordFields ==
  ASSUME NEW r \in Records
  PROVE  /\ r.kind \in Kinds /\ WellFormed(r)
         /\ r.fn \in {"create", "destroy", "bind", "set_device", "elf_load", "register"}
         /\ [r EXCEPT !.image = FALSE] \in Records
         /\ r.fn # "elf_load" => [r EXCEPT !.image = FALSE] = r
         /\ \A h \in Handle : r.fn = "create" => [r EXCEPT !.handle = h] \in Records
<1>1. r \in Record /\ WellFormed(r)
  BY DEF Records
<1>2. r.kind \in Kinds
      /\ r.fn \in {"create", "destroy", "bind", "set_device", "elf_load", "register"}
  BY <1>1 DEF Record
<1>3. [r EXCEPT !.image = FALSE] \in Record /\ WellFormed([r EXCEPT !.image = FALSE])
  BY <1>1 DEF Record, WellFormed
<1>4. ASSUME r.fn # "elf_load" PROVE [r EXCEPT !.image = FALSE] = r
  <2>1. r.image = FALSE
    BY <1>1, <1>4 DEF WellFormed, Record
  <2> QED BY <1>1, <2>1 DEF Record
<1>5. ASSUME NEW h \in Handle, r.fn = "create" PROVE [r EXCEPT !.handle = h] \in Records
  BY <1>1, <1>5 DEF Record, WellFormed, Records
<1> QED BY <1>1, <1>2, <1>3, <1>4, <1>5 DEF Records

LEMMA TypeInit == Init => Typed
<1> SUFFICES ASSUME Init PROVE Typed
  OBVIOUS
<1>1. restored \in BOOLEAN /\ faithful \in BOOLEAN
  BY Zenon DEF Init
<1>2. /\ Nothing \in Map(Modules, Handle) /\ Nothing \in Map(Functions, Function)
      /\ Nothing \in Map(Handle, Module) /\ Nothing \in Map(Modules, BOOLEAN)
  BY NothingInMap
<1>3. NoObjects \in [Kinds -> Map(Handle, Object)]
      /\ NoObjects \in [Kinds -> Map(Handle, Handle)]
  BY NoObjectsType DEF Tables, Objects
<1>4. NewClient.objects \in [Kinds -> Map(Handle, Object)]
  BY NewClientType DEF Tables, Objects
<1>5. TypeOK
  BY <1>1, <1>2, <1>3, <1>4, NewClientType, DevicesAreNumbers DEF TypeOK, Init
<1>6. api_records \in Seq(Records) /\ file_records \in Seq(Records)
  BY DEF Init
<1>7. client \in Clients /\ saved \in Clients
  BY NewClientType DEF Init, Clients
<1> QED BY <1>5, <1>6, <1>7 DEF Typed

(* What a type-correct state says of the managers and of the replay.       *)
LEMMA TypeFacts ==
  ASSUME TypeOK
  PROVE  /\ live \in Tables /\ client.objects \in Tables /\ saved.objects \in Tables
         /\ \A k \in Kinds : /\ DOMAIN client.objects[k] \subseteq Handle
                             /\ DOMAIN live[k] \subseteq Handle
                             /\ map[k] \in Map(Handle, Handle)
                             /\ Places(k) \subseteq Handle \ DOMAIN live[k]
         /\ \A k \in Kinds, h \in Handle : resource_mg_get(k, h) \in Handle
<1>1. live \in Tables /\ client.objects \in Tables /\ saved.objects \in Tables
  BY DEF TypeOK, Tables, Objects
<1>2. ASSUME NEW k \in Kinds
      PROVE  /\ DOMAIN client.objects[k] \subseteq Handle
             /\ DOMAIN live[k] \subseteq Handle
             /\ map[k] \in Map(Handle, Handle)
  BY <1>1, MapIs DEF Tables, Objects, TypeOK
<1>3. ASSUME NEW k \in Kinds, NEW h \in Handle
      PROVE  resource_mg_get(k, h) \in Handle
  BY <1>2, MapIs DEF resource_mg_get
<1>4. \A k \in Kinds : Places(k) \subseteq Handle \ DOMAIN live[k]
  BY DEF Places
<1> QED BY <1>1, <1>2, <1>3, <1>4

LEMMA ReplayedType ==
  ASSUME Typed, Restoring
  PROVE  /\ Replayed \in Records /\ pos \in 1 .. Len(file_records)
         /\ Replayed = file_records[pos] /\ Kept = [Replayed EXCEPT !.image = FALSE]
         /\ Kept \in Records /\ Append(api_records, Kept) \in Seq(Records)
         /\ pos + 1 \in Nat \ {0} /\ pos + 1 <= Len(file_records) + 1
<1>1. pos \in 1 .. Len(file_records) /\ Len(file_records) \in Nat
  BY DEF Typed, TypeOK, Restoring
<1>2. Replayed \in Records /\ Replayed = file_records[pos]
  BY <1>1 DEF Typed, Replayed
<1>3. Kept \in Records
  BY <1>2, RecordFields DEF Kept
<1> QED BY <1>1, <1>2, <1>3 DEF Typed, Kept

LEMMA ClientType ==
  ASSUME NEW c \in Clients
  PROVE  /\ c.objects \in [Kinds -> Map(Handle, Object)] /\ c.device \in Devices
         /\ c.modules \in Map(Modules, Devices) /\ c.functions \in Map(Functions, Modules)
BY DEF Clients, Tables, Objects

(* The steps of a handler and of the replay leave most alone. *)
LEMMA TypeKept ==
  ASSUME Typed, mode' = mode, restored' = restored, faithful' = faithful,
         checkpoint' = checkpoint, saved' = saved, UNCHANGED files,
         pos' = pos \/ (pos' = pos + 1 /\ Restoring),
         client' \in Clients, live' \in Tables, device' \in Devices,
         map' \in [Kinds -> Map(Handle, Handle)], loaded' \in Map(Handle, Module),
         rm_modules' \in Map(Modules, Handle), rm_functions' \in Map(Functions, Function),
         api_records' \in Seq(Records)
  PROVE  Typed'
<1>1. pos' \in Nat \ {0} /\ (mode = "restoring" => pos' <= Len(file_records) + 1)
  BY ReplayedType DEF Typed, TypeOK
<1>2. \A c \in {client, saved}' :
        /\ c.objects \in [Kinds -> Map(Handle, Object)] /\ c.device \in Devices
        /\ c.modules \in Map(Modules, Devices) /\ c.functions \in Map(Functions, Modules)
  BY ClientType DEF Typed
<1> QED BY <1>1, <1>2 DEF Typed, TypeOK, Tables, Objects, files

LEMMA RegisteredType ==
  ASSUME TypeOK, NEW f \in Functions, NEW m \in Modules, Registered(f, m)
  PROVE  rm_functions' \in Map(Functions, Function)
<1>1. CASE m \in DOMAIN rm_modules
  <2>1. rm_modules[m] \in Handle
    BY <1>1, MapIs DEF TypeOK
  <2>2. [module |-> rm_modules[m], name |-> f] \in Function
    BY <2>1 DEF Function
  <2> QED BY <1>1, <2>2, WithInMap DEF Registered, TypeOK
<1>2. CASE m \notin DOMAIN rm_modules
  BY <1>2 DEF Registered, TypeOK
<1> QED BY <1>1, <1>2

LEMMA CreateType ==
  ASSUME Typed, NEW k \in Kinds, NEW c \in Confs, create(k, c)
  PROVE  Typed'
<1>1. PICK h \in Places(k) :
        /\ live' = Created(live, k, h, c, device)
        /\ client' = [client EXCEPT !.objects = Created(@, k, h, c, client.device)]
        /\ Recorded(Create(k, h, c))
  BY DEF create
<1>2. h \in Handle /\ TypeOK /\ device \in Devices
  BY TypeFacts DEF Typed, TypeOK
<1>3. live' \in Tables
  BY <1>1, <1>2, TypeFacts, CreatedType
<1>4. Created(client.objects, k, h, c, client.device) \in Tables
  BY <1>2, TypeFacts, CreatedType, ClientType DEF Typed
<1>5. client' \in Clients
  BY <1>1, <1>4 DEF Typed, Clients
<1>6. Create(k, h, c) \in Records
  BY <1>2 DEF Create, Blank, Records, Record, WellFormed
<1>7. api_records' \in Seq(Records)
  BY <1>1, <1>6 DEF Typed, Recorded
<1> QED BY <1>2, <1>3, <1>5, <1>7, TypeKept
        DEF create, Serving, TypeOK, managers, ghosts

LEMMA DestroyType ==
  ASSUME Typed, NEW k \in Kinds, NEW h \in DOMAIN client.objects[k], destroy(k, h)
  PROVE  Typed'
<1>1. h \in Handle /\ TypeOK
  BY TypeFacts DEF Typed
<1>2. live' \in Tables /\ Destroyed(client.objects, k, h) \in Tables
  BY <1>1, TypeFacts, DestroyedType DEF destroy
<1>3. client' \in Clients
  BY <1>2 DEF destroy, Typed, Clients
<1>4. Destroy(k, h) \in Records
  BY <1>1 DEF Destroy, Blank, Records, Record, WellFormed
<1>5. api_records' \in Seq(Records)
  BY <1>4 DEF destroy, Typed, Recorded
<1> QED BY <1>1, <1>2, <1>3, <1>5, TypeKept
        DEF destroy, Serving, TypeOK, managers, ghosts

LEMMA BindType ==
  ASSUME Typed, NEW k \in Kinds, NEW h \in DOMAIN client.objects[k],
         NEW s \in DOMAIN client.objects["stream"], bind(k, h, s)
  PROVE  Typed'
<1>1. h \in Handle /\ s \in Handle /\ TypeOK /\ k # "stream"
  BY TypeFacts, KindsAreKnown DEF Typed, bind
<1>2. resource_mg_get(k, h) \in Handle /\ resource_mg_get("stream", s) \in Handle
  BY <1>1, TypeFacts, KindsAreKnown
<1>3. live' \in Tables /\ Bound(client.objects, k, h, s) \in Tables
  BY <1>1, <1>2, TypeFacts, BoundType DEF bind
<1>4. client' \in Clients
  BY <1>3 DEF bind, Typed, Clients
<1>5. Bind(k, h, s) \in Records
  BY <1>1 DEF Bind, Blank, Records, Record, WellFormed
<1>6. api_records' \in Seq(Records)
  BY <1>5 DEF bind, Typed, Recorded
<1> QED BY <1>1, <1>3, <1>4, <1>6, TypeKept
        DEF bind, Serving, TypeOK, managers, ghosts

LEMMA SetDeviceType ==
  ASSUME Typed, NEW d \in Devices, cuda_set_device(d)
  PROVE  Typed'
<1>1. client' \in Clients /\ TypeOK
  BY DEF cuda_set_device, Typed, Clients
<1>2. SetDevice(d) \in Records
  BY KindsAreKnown DEF SetDevice, Blank, Records, Record, WellFormed
<1>3. api_records' \in Seq(Records)
  BY <1>2 DEF cuda_set_device, Typed, Recorded
<1>4. live \in Tables
  BY <1>1, TypeFacts
<1> QED BY <1>1, <1>3, <1>4, TypeKept
        DEF cuda_set_device, Serving, TypeOK, managers, ghosts

LEMMA ElfLoadType ==
  ASSUME Typed, NEW m \in Modules, rpc_elf_load(m)
  PROVE  Typed'
<1>1. PICK p \in Handle \ DOMAIN loaded :
        /\ loaded' = With(loaded, p, [key |-> m, dev |-> device])
        /\ rm_modules' = With(rm_modules, m, p)
  BY DEF rpc_elf_load
<1>2. [key |-> m, dev |-> device] \in Module /\ TypeOK
  BY DEF Module, Typed, TypeOK
<1>3. loaded' \in Map(Handle, Module) /\ rm_modules' \in Map(Modules, Handle)
  BY <1>1, <1>2, WithInMap DEF TypeOK
<1>4. With(client.modules, m, client.device) \in Map(Modules, Devices)
  BY WithInMap, ClientType DEF Typed
<1>5. client' \in Clients
  BY <1>4 DEF rpc_elf_load, Typed, Clients
<1>6. ElfLoad(m) \in Records
  BY KindsAreKnown DEF ElfLoad, Blank, Records, Record, WellFormed
<1>7. api_records' \in Seq(Records)
  BY <1>6 DEF rpc_elf_load, Typed, Recorded
<1>8. live \in Tables
  BY <1>2, TypeFacts
<1> QED BY <1>2, <1>3, <1>5, <1>7, <1>8, TypeKept
        DEF rpc_elf_load, Serving, TypeOK, ghosts

LEMMA RegisterType ==
  ASSUME Typed, NEW m \in DOMAIN client.modules, NEW f \in Functions,
         rpc_register_function(f, m)
  PROVE  Typed'
<1>1. m \in Modules /\ TypeOK
  BY MapIs, ClientType DEF Typed
<1>2. rm_functions' \in Map(Functions, Function)
  BY <1>1, RegisteredType DEF rpc_register_function
<1>3. With(client.functions, f, m) \in Map(Functions, Modules)
  BY <1>1, WithInMap, ClientType DEF Typed
<1>4. client' \in Clients
  BY <1>3 DEF rpc_register_function, Typed, Clients
<1>5. Register(f, m) \in Records
  BY <1>1, KindsAreKnown DEF Register, Blank, Records, Record, WellFormed
<1>6. api_records' \in Seq(Records)
  BY <1>5 DEF rpc_register_function, Typed, Recorded
<1>7. live \in Tables
  BY <1>1, TypeFacts
<1> QED BY <1>1, <1>2, <1>4, <1>6, <1>7, TypeKept
        DEF rpc_register_function, Serving, TypeOK, gpu, ghosts

LEMMA DumpType ==
  ASSUME Typed, NEW E \in SUBSET Modules, NEW elf \in [E -> BOOLEAN], Dump(elf)
  PROVE  file_records' \in Seq(Records) /\ file_elf' \in Map(Modules, BOOLEAN)
<1>1. DOMAIN file_elf \subseteq Modules /\ \A m \in DOMAIN file_elf : file_elf[m] \in BOOLEAN
  BY MapIs, Zenon DEF Typed, TypeOK
<1> DEFINE new == [m \in DOMAIN elf \cup DOMAIN file_elf |->
                     IF m \in DOMAIN elf THEN elf[m] ELSE file_elf[m]]
<1>2. DOMAIN elf = E /\ \A m \in E : elf[m] \in BOOLEAN
  OBVIOUS
<1>3. file_elf' = new
  BY DEF Dump
<1>4. new \in [DOMAIN elf \cup DOMAIN file_elf -> BOOLEAN]
  BY <1>1, <1>2, Zenon
<1>5. DOMAIN elf \cup DOMAIN file_elf \in SUBSET Modules
  BY <1>1, <1>2
<1>6. file_elf' \in Map(Modules, BOOLEAN)
  BY <1>3, <1>4, <1>5, IsMap, Zenon
<1> QED BY <1>6 DEF Dump, Typed

(* The keys of the fat binaries that are recorded. *)
LEMMA ElfKeys == ASSUME Typed PROVE Fresh \subseteq Modules /\ Stale \subseteq Modules
<1>1. ASSUME NEW i \in 1 .. Len(api_records), api_records[i].fn = "elf_load"
      PROVE  api_records[i].key \in Modules
  <2>1. api_records[i] \in Records
    BY DEF Typed
  <2> QED BY <1>1, <2>1, RecordFields DEF WellFormed
<1> QED BY <1>1 DEF Fresh, Stale, Elfs

LEMMA StopType ==
  ASSUME Typed, Stop, file_records' \in Seq(Records),
         file_elf' \in Map(Modules, BOOLEAN), saved' \in Clients,
         checkpoint' \in {"none", "damaged", "complete"}
  PROVE  Typed'
<1>1. /\ Nothing \in Map(Modules, Handle) /\ Nothing \in Map(Functions, Function)
      /\ Nothing \in Map(Handle, Module)
  BY NothingInMap
<1>2. NoObjects \in [Kinds -> Map(Handle, Object)]
      /\ NoObjects \in [Kinds -> Map(Handle, Handle)]
  BY NoObjectsType DEF Tables, Objects
<1>3. client' = NewClient /\ NewClient \in Clients /\ api_records' \in Seq(Records)
  BY NewClientType DEF Stop, Clients
<1>4. \A c \in {client, saved}' :
        /\ c.objects \in [Kinds -> Map(Handle, Object)] /\ c.device \in Devices
        /\ c.modules \in Map(Modules, Devices) /\ c.functions \in Map(Functions, Modules)
  BY <1>3, ClientType
<1>5. mode' = "down" /\ pos' = pos /\ restored' = restored /\ faithful' = faithful
      /\ map' = NoObjects /\ rm_modules' = Nothing /\ rm_functions' = Nothing
      /\ live' = NoObjects /\ loaded' = Nothing /\ device' = 0
  BY DEF Stop
<1> QED BY <1>1, <1>2, <1>3, <1>4, <1>5, DevicesAreNumbers DEF Typed, TypeOK

LEMMA CheckpointType ==
  ASSUME Typed, server_runtime_checkpoint \/ checkpoint_stale_elf \/ svc_exit
  PROVE  Typed'
<1>1. CASE server_runtime_checkpoint
  <2>1. file_records' \in Seq(Records) /\ file_elf' \in Map(Modules, BOOLEAN)
    <3>1. PICK elf : elf = [m \in Fresh |-> TRUE]
      OBVIOUS
    <3>2. PICK E \in SUBSET Modules : E = Fresh
      BY ElfKeys
    <3>3. elf \in [E -> BOOLEAN] /\ Dump(elf)
      BY <1>1, <3>1, <3>2 DEF server_runtime_checkpoint
    <3> QED BY <3>3, DumpType
  <2>2. checkpoint' \in {"none", "damaged", "complete"} /\ saved' = client
    BY <1>1 DEF server_runtime_checkpoint
  <2> QED BY <1>1, <2>1, <2>2
          DEF server_runtime_checkpoint, CanDump, Typed, TypeOK, managers, gpu
<1>2. CASE checkpoint_stale_elf
  <2>1. file_records' \in Seq(Records) /\ file_elf' \in Map(Modules, BOOLEAN)
    <3>1. PICK emptied \in SUBSET Stale, rest \in {{}, Fresh} :
            Dump([m \in emptied \cup rest |-> m \in rest])
      BY <1>2 DEF checkpoint_stale_elf
    <3>2. PICK E \in SUBSET Modules : E = emptied \cup rest
      BY ElfKeys
    <3>3. PICK elf : elf = [m \in E |-> m \in rest]
      OBVIOUS
    <3>4. elf \in [E -> BOOLEAN] /\ Dump(elf)
      BY <3>1, <3>2, <3>3
    <3> QED BY <3>4, DumpType
  <2>2. saved' \in Clients /\ checkpoint' = "damaged"
    BY <1>2 DEF checkpoint_stale_elf, Typed
  <2>3. CASE Stop
    BY <2>1, <2>2, <2>3, StopType
  <2>4. CASE UNCHANGED <<mode, pos, restored, managers, gpu, api_records, client, faithful>>
    <3>1. mode = "serving"
      BY <1>2 DEF checkpoint_stale_elf, CanDump
    <3>2. \A c \in {client, saved}' :
            /\ c.objects \in [Kinds -> Map(Handle, Object)] /\ c.device \in Devices
            /\ c.modules \in Map(Modules, Devices) /\ c.functions \in Map(Functions, Modules)
      BY <2>2, <2>4, ClientType DEF Typed
    <3> QED BY <2>1, <2>2, <2>4, <3>1, <3>2 DEF Typed, TypeOK, managers, gpu
  <2> QED BY <1>2, <2>3, <2>4 DEF checkpoint_stale_elf
<1>3. CASE svc_exit
  BY <1>3, StopType DEF svc_exit, Typed, TypeOK, files
<1> QED BY <1>1, <1>2, <1>3

LEMMA RestartType ==
  ASSUME Typed, \/ server_runtime_restore \/ restore_complete
                \/ restore_gives_up \/ cr_restore_elf_passes \/ cr_restore_elf_crashes
  PROVE  Typed'
<1>1. CASE server_runtime_restore
  <2>1. 1 <= Len(file_records) + 1 /\ client' = saved /\ restored' \in BOOLEAN
        /\ faithful' \in BOOLEAN /\ pos' = 1 /\ mode' = "restoring"
    BY <1>1 DEF server_runtime_restore, Typed
  <2> QED BY <1>1, <2>1
          DEF server_runtime_restore, Typed, TypeOK, managers, gpu, files
<1>2. CASE restore_complete
  BY <1>2 DEF restore_complete, Typed, TypeOK, managers, gpu, files, ghosts
<1>3. CASE restore_gives_up
  <2>1. api_records' \in Seq(Records)
    BY <1>3, ReplayedType DEF restore_gives_up, Recorded
  <2> QED BY <1>3, <2>1 DEF restore_gives_up, Typed, TypeOK, managers, gpu, files
<1>4. CASE cr_restore_elf_passes
  <2>1. api_records' \in Seq(Records)
    BY <1>4, ReplayedType DEF cr_restore_elf_passes, ElfIs, Recorded
  <2>2. Len(file_records) \in Nat /\ pos' \in Nat \ {0} /\ pos' <= Len(file_records) + 1
    BY <1>4 DEF cr_restore_elf_passes, ElfIs, Restoring, Typed, TypeOK
  <2> QED BY <1>4, <2>1, <2>2
          DEF cr_restore_elf_passes, Typed, TypeOK, managers, gpu, files
<1>5. CASE cr_restore_elf_crashes
  BY <1>5, StopType DEF cr_restore_elf_crashes, Typed, TypeOK, files
<1> QED BY <1>1, <1>2, <1>3, <1>4, <1>5

LEMMA ReplayType ==
  ASSUME Typed, cr_restore_handle \/ cr_restore_elf
  PROVE  Typed'
<1>0. TypeOK /\ live \in Tables /\ device \in Devices
  BY TypeFacts DEF Typed, TypeOK
<1>1. /\ Restoring /\ GoOn /\ Recorded(Kept)
      /\ UNCHANGED <<restored, rm_functions, device, files, client, saved, checkpoint>>
  BY DEF cr_restore_handle, cr_restore_elf, ElfIs
<1>2. Replayed \in Records /\ Kept \in Records /\ api_records' \in Seq(Records)
  BY <1>1, ReplayedType DEF Recorded
<1>3. CASE cr_restore_handle
  <2>1. PICK h \in Places(Replayed.kind) :
          /\ live' = Created(live, Replayed.kind, h, Replayed.conf, device)
          /\ map' = [map EXCEPT ![Replayed.kind] = With(@, Replayed.handle, h)]
    BY <1>3 DEF cr_restore_handle
  <2>2. Replayed.kind \in Kinds /\ Replayed.handle \in Handle /\ Replayed.conf \in Confs
    BY <1>2, <1>3, RecordFields DEF cr_restore_handle, WellFormed
  <2>3. h \in Handle
    BY <1>0, <2>2, TypeFacts
  <2>4. live' \in Tables
    BY <1>0, <2>1, <2>2, <2>3, CreatedType
  <2>5. With(map[Replayed.kind], Replayed.handle, h) \in Map(Handle, Handle)
    BY <1>0, <2>2, <2>3, WithInMap, TypeFacts
  <2>6. map' \in [Kinds -> Map(Handle, Handle)]
    BY <1>0, <2>1, <2>5 DEF TypeOK
  <2> QED BY <1>0, <1>1, <1>2, <1>3, <2>4, <2>6, TypeKept
          DEF cr_restore_handle, GoOn, Typed, TypeOK
<1>4. CASE cr_restore_elf
  <2>1. PICK p \in Handle \ DOMAIN loaded :
          /\ loaded' = With(loaded, p, [key |-> Replayed.key, dev |-> device])
          /\ rm_modules' = With(rm_modules, Replayed.key, p)
    BY <1>4 DEF cr_restore_elf
  <2>2. Replayed.key \in Modules
    BY <1>2, <1>4, RecordFields DEF cr_restore_elf, ElfIs, WellFormed
  <2>3. [key |-> Replayed.key, dev |-> device] \in Module
    BY <1>0, <2>2 DEF Module
  <2>4. loaded' \in Map(Handle, Module) /\ rm_modules' \in Map(Modules, Handle)
    BY <1>0, <2>1, <2>2, <2>3, WithInMap DEF TypeOK
  <2> QED BY <1>0, <1>1, <1>2, <1>4, <2>4, TypeKept
          DEF cr_restore_elf, GoOn, Typed, TypeOK
<1> QED BY <1>3, <1>4

LEMMA TwoMore ==
  ASSUME NEW S, NEW s \in Seq(S), NEW x \in S, NEW y \in S
  PROVE  s \o <<x, y>> = Append(Append(s, x), y) /\ s \o <<x, y>> \in Seq(S)
OBVIOUS

LEMMA CallRecordType == ASSUME Typed, CallRecord PROVE Typed'
<1>0. TypeOK /\ live \in Tables /\ device \in Devices /\ client \in Clients
  BY TypeFacts DEF Typed, TypeOK
<1>1. Restoring
  BY DEF CallRecord, destroy_again, bind_again, create_again, set_device_again,
         register_again
<1>2. Replayed \in Records /\ Kept \in Records
  BY <1>1, ReplayedType
<1>3. ASSUME NEW r \in Records, Again(r), live' \in Tables, device' \in Devices,
             rm_functions' \in Map(Functions, Function)
      PROVE  Typed'
  <2>1. api_records' \in Seq(Records)
    BY <1>2, <1>3, TwoMore DEF Again, Typed
  <2> QED BY <1>0, <1>1, <1>3, <2>1, TypeKept DEF Again, GoOn, TypeOK
<1>4. CASE destroy_again
  BY <1>0, <1>2, <1>3, <1>4, DestroyedType DEF destroy_again, TypeOK
<1>5. CASE bind_again
  <2>1. Replayed.kind \in Kinds /\ Replayed.handle \in Handle /\ Replayed.on \in Handle
    BY <1>2, <1>5, RecordFields DEF bind_again, WellFormed
  <2>2. live' \in Tables
    BY <1>0, <1>5, <2>1, BoundType, TypeFacts, KindsAreKnown DEF bind_again
  <2> QED BY <1>0, <1>2, <1>3, <1>5, <2>2 DEF bind_again, TypeOK
<1>6. CASE create_again
  <2>1. PICK h \in Places(Replayed.kind) :
          /\ live' = Created(live, Replayed.kind, h, Replayed.conf, device)
          /\ Again([Replayed EXCEPT !.handle = h])
    BY <1>6 DEF create_again
  <2>2. Replayed.kind \in Kinds /\ Replayed.conf \in Confs
    BY <1>2, <1>6, RecordFields DEF create_again, WellFormed
  <2>3. h \in Handle
    BY <1>0, <2>2, TypeFacts
  <2>4. live' \in Tables /\ [Replayed EXCEPT !.handle = h] \in Records
    BY <1>0, <1>2, <1>6, <2>1, <2>2, <2>3, CreatedType, RecordFields DEF create_again
  <2> QED BY <1>0, <1>3, <1>6, <2>1, <2>4 DEF create_again, TypeOK
<1>7. CASE set_device_again
  <2>1. device' \in Devices
    BY <1>2, <1>7, RecordFields DEF set_device_again, WellFormed
  <2> QED BY <1>0, <1>2, <1>3, <1>7, <2>1 DEF set_device_again, TypeOK
<1>8. CASE register_again
  <2>1. Replayed.key \in Modules /\ Replayed.name \in Functions
    BY <1>2, <1>8, RecordFields DEF register_again, WellFormed
  <2>2. rm_functions' \in Map(Functions, Function)
    BY <1>0, <1>8, <2>1, RegisteredType DEF register_again
  <2> QED BY <1>0, <1>2, <1>3, <1>8, <2>2 DEF register_again
<1> QED BY <1>4, <1>5, <1>6, <1>7, <1>8 DEF CallRecord

LEMMA HandlerType == ASSUME Typed, Handler PROVE Typed'
BY CreateType, DestroyType, BindType, SetDeviceType, ElfLoadType, RegisterType DEF Handler

LEMMA TypeNext == ASSUME Typed, [Next]_vars PROVE Typed'
<1>1. CASE UNCHANGED vars
  BY <1>1 DEF Typed, TypeOK, vars, managers, gpu, files, ghosts
<1> QED BY <1>1, HandlerType, CheckpointType, RestartType, ReplayType, CallRecordType
        DEF Next

LEMMA TypedAlways == Spec => []Typed
BY TypeInit, TypeNext, PTL DEF Spec

(* Type correctness: in particular the replay never reads past the last    *)
(* record, and what it takes from one is of the type its handler needs.    *)
THEOREM TypeCorrect == Spec => []TypeOK
<1>1. Typed => TypeOK
  BY DEF Typed
<1> QED BY <1>1, TypedAlways, PTL

------------------------------------------------------------------------------
(***************************************************************************)
(* What the records say, and what the server makes of it.                  *)
(*                                                                         *)
(* Core is what a client holds of the translated kinds; Follows says what  *)
(* it holds after a call, going by the call's record alone.  A History of  *)
(* a list of records has what the client held before the first of them and *)
(* after each.  Agrees says that the server's tables have what Core says.  *)
(***************************************************************************)

TKinds == Kinds \cap Translated

Core(c) == [objects |-> [k \in TKinds |-> c.objects[k]], device |-> c.device,
            modules |-> c.modules, functions |-> c.functions]

Cores == [objects : [TKinds -> Objects], device : Devices,
          modules : Map(Modules, Devices), functions : Map(Functions, Modules)]

Sound(a) ==
  /\ a \in Cores
  /\ \A k \in TKinds :
       /\ IsFiniteSet(DOMAIN a.objects[k])
       /\ \A h \in DOMAIN a.objects[k] :
            a.objects[k][h].on \in DOMAIN a.objects["stream"] \cup {None}
  /\ \A h \in DOMAIN a.objects["stream"] : a.objects["stream"][h].on = None
  /\ \A f \in DOMAIN a.functions : a.functions[f] \in DOMAIN a.modules

Ended(o, k, h) ==
  [j \in TKinds |->
     IF j = k THEN Without(o[j], h)
     ELSE [x \in DOMAIN o[j] |->
             IF k = "stream" /\ o[j][x].on = h
             THEN [o[j][x] EXCEPT !.on = None] ELSE o[j][x]]]

OfRepeated(r) == r.fn \in {"create", "destroy", "bind"} /\ r.kind \notin TKinds

Creates(a, r, b) ==
  /\ r.fn = "create" /\ r.kind \in TKinds
  /\ Placement = "fresh" => r.handle \notin DOMAIN a.objects[r.kind]
  /\ b = [a EXCEPT !.objects[r.kind] =
                     With(@, r.handle, [conf |-> r.conf, dev |-> a.device, on |-> None])]
Ends(a, r, b) ==
  /\ r.fn = "destroy" /\ r.kind \in TKinds
  /\ b = [a EXCEPT !.objects = Ended(a.objects, r.kind, r.handle)]
Binds(a, r, b) ==
  /\ r.fn = "bind" /\ r.kind \in TKinds
  /\ r.handle \in DOMAIN a.objects[r.kind] /\ r.on \in DOMAIN a.objects["stream"]
  /\ b = [a EXCEPT !.objects[r.kind][r.handle].on = r.on]
Selects(a, r, b) == r.fn = "set_device" /\ b = [a EXCEPT !.device = r.handle]
Loads(a, r, b) ==
  /\ r.fn = "elf_load" /\ r.key \notin DOMAIN a.modules
  /\ b = [a EXCEPT !.modules = With(a.modules, r.key, a.device)]
Registers(a, r, b) ==
  /\ r.fn = "register" /\ r.key \in DOMAIN a.modules
  /\ b = [a EXCEPT !.functions = With(a.functions, r.name, r.key)]

Follows(a, r, b) ==
  \/ OfRepeated(r) /\ b = a
  \/ Creates(a, r, b) \/ Ends(a, r, b) \/ Binds(a, r, b)
  \/ Selects(a, r, b) \/ Loads(a, r, b) \/ Registers(a, r, b)

(* A restart repeats the destruction of an object, at once.                *)
Late(a, r) == r.fn = "destroy" /\ r.kind \in TKinds
              /\ r.handle \notin DOMAIN a.objects[r.kind]

History(rs, t) ==
  /\ t[1] = Core(NewClient)
  /\ \A n \in 1 .. Len(rs) + 1 : Sound(t[n])
  /\ \A n \in 1 .. Len(rs) : Follows(t[n], rs[n], t[n + 1])
  /\ \A n \in 1 .. Len(rs) : Late(t[n], rs[n]) => n > 1 /\ rs[n - 1] = rs[n]

Lookup == [k \in TKinds |-> [h \in Handle |-> resource_mg_get(k, h)]]

(* The handles held lead one to one to the objects that are live, and what *)
(* is known of an object is the same on both sides.                        *)
Match(held, objects, lookup, streams) ==
  /\ DOMAIN objects = {lookup[h] : h \in DOMAIN held}
  /\ \A g, h \in DOMAIN held : lookup[g] = lookup[h] => g = h
  /\ \A h \in DOMAIN held :
       /\ objects[lookup[h]].conf = held[h].conf
       /\ objects[lookup[h]].dev = held[h].dev
       /\ objects[lookup[h]].on = IF held[h].on = None THEN None ELSE streams[held[h].on]

ObjectsAgree(a) ==
  \A k \in TKinds : Match(a.objects[k], live[k], Lookup[k], Lookup["stream"])

ModulesAgree(a) ==
  /\ DOMAIN rm_modules = DOMAIN a.modules
  /\ \A m \in DOMAIN a.modules :
       /\ rm_modules[m] \in DOMAIN loaded
       /\ loaded[rm_modules[m]] = [key |-> m, dev |-> a.modules[m]]
  /\ \A f \in DOMAIN a.functions :
       /\ f \in DOMAIN rm_functions
       /\ rm_functions[f] = [module |-> rm_modules[a.functions[f]], name |-> f]

Agrees(a) ==
  device = a.device /\ ModulesAgree(a) /\ (Placement = "fresh" => ObjectsAgree(a))

LEMMA StreamIsTranslated == "stream" \in TKinds /\ TKinds \subseteq Kinds
BY KindsAreKnown DEF TKinds, Translated

LEMMA SoundFacts ==
  ASSUME NEW a, Sound(a)
  PROVE  /\ a \in Cores /\ a.device \in Devices
         /\ DOMAIN a.modules \subseteq Modules /\ DOMAIN a.functions \subseteq Functions
         /\ a.modules \in Map(Modules, Devices) /\ a.functions \in Map(Functions, Modules)
         /\ \A k \in TKinds : /\ a.objects[k] \in Objects
                              /\ DOMAIN a.objects[k] \subseteq Handle
                              /\ \A h \in DOMAIN a.objects[k] :
                                   /\ a.objects[k][h] \in Object
                                   /\ a.objects[k][h].on \in DOMAIN a.objects["stream"] \cup {None}
<1>1. a \in Cores
  BY DEF Sound
<1>2. /\ a.modules \in Map(Modules, Devices) /\ a.functions \in Map(Functions, Modules)
      /\ a.objects \in [TKinds -> Objects] /\ a.device \in Devices
  BY <1>1 DEF Cores
<1>3. \A k \in TKinds : /\ a.objects[k] \in Objects
                        /\ DOMAIN a.objects[k] \subseteq Handle
                        /\ \A h \in DOMAIN a.objects[k] : a.objects[k][h] \in Object
  BY <1>2, MapIs DEF Objects
<1> QED BY <1>1, <1>2, <1>3, MapIs DEF Sound

(* A new core, by what its objects are. *)
LEMMA WithObjects ==
  ASSUME NEW a \in Cores, NEW o \in [TKinds -> Objects]
  PROVE  /\ [a EXCEPT !.objects = o] \in Cores
         /\ [a EXCEPT !.objects = o].objects = o
         /\ [a EXCEPT !.objects = o].device = a.device
         /\ [a EXCEPT !.objects = o].modules = a.modules
         /\ [a EXCEPT !.objects = o].functions = a.functions
BY DEF Cores

(* What each kind of record makes of the objects. *)
AfterCreation(a, r, b) ==
  /\ b \in Cores /\ b.device = a.device /\ b.modules = a.modules
  /\ b.functions = a.functions
  /\ \A j \in TKinds \ {r.kind} : b.objects[j] = a.objects[j]
  /\ DOMAIN b.objects[r.kind] = DOMAIN a.objects[r.kind] \cup {r.handle}
  /\ b.objects[r.kind][r.handle] = [conf |-> r.conf, dev |-> a.device, on |-> None]
  /\ \A h \in DOMAIN a.objects[r.kind] \ {r.handle} :
       b.objects[r.kind][h] = a.objects[r.kind][h]

AfterEnd(a, r, b) ==
  /\ b \in Cores /\ b.device = a.device /\ b.modules = a.modules
  /\ b.functions = a.functions
  /\ DOMAIN b.objects[r.kind] = DOMAIN a.objects[r.kind] \ {r.handle}
  /\ \A h \in DOMAIN a.objects[r.kind] \ {r.handle} :
       b.objects[r.kind][h] = a.objects[r.kind][h]
  /\ \A j \in TKinds \ {r.kind} :
       /\ DOMAIN b.objects[j] = DOMAIN a.objects[j]
       /\ \A h \in DOMAIN a.objects[j] :
            b.objects[j][h] =
              IF r.kind = "stream" /\ a.objects[j][h].on = r.handle
              THEN [a.objects[j][h] EXCEPT !.on = None] ELSE a.objects[j][h]

AfterBinding(a, r, b) ==
  /\ b \in Cores /\ b.device = a.device /\ b.modules = a.modules
  /\ b.functions = a.functions
  /\ \A j \in TKinds \ {r.kind} : b.objects[j] = a.objects[j]
  /\ DOMAIN b.objects[r.kind] = DOMAIN a.objects[r.kind]
  /\ b.objects[r.kind][r.handle] = [a.objects[r.kind][r.handle] EXCEPT !.on = r.on]
  /\ \A h \in DOMAIN a.objects[r.kind] \ {r.handle} :
       b.objects[r.kind][h] = a.objects[r.kind][h]

LEMMA CreatesFacts ==
  ASSUME NEW a, NEW b, NEW r \in Records, Sound(a), Creates(a, r, b)
  PROVE  AfterCreation(a, r, b)
<1> DEFINE new == With(a.objects[r.kind], r.handle,
                       [conf |-> r.conf, dev |-> a.device, on |-> None])
           o == [a.objects EXCEPT ![r.kind] = new]
<1>1. r.kind \in TKinds /\ r.handle \in Handle /\ r.conf \in Confs
  BY RecordFields DEF Creates, WellFormed
<1>2. [conf |-> r.conf, dev |-> a.device, on |-> None] \in Object
  BY <1>1, SoundFacts DEF Object
<1>3. new \in Objects
  BY <1>1, <1>2, SoundFacts, WithInMap DEF Objects
<1>4. a.objects \in [TKinds -> Objects] /\ a \in Cores
  BY SoundFacts DEF Cores
<1>5. o \in [TKinds -> Objects] /\ o[r.kind] = new
      /\ \A j \in TKinds \ {r.kind} : o[j] = a.objects[j]
  BY <1>1, <1>3, <1>4
<1>6. b = [a EXCEPT !.objects = o]
  BY <1>4 DEF Creates, Cores
<1> HIDE DEF o
<1>7. b \in Cores /\ b.objects = o /\ b.device = a.device /\ b.modules = a.modules
      /\ b.functions = a.functions
  BY <1>4, <1>5, <1>6, WithObjects
<1>8. /\ DOMAIN new = DOMAIN a.objects[r.kind] \cup {r.handle}
      /\ new[r.handle] = [conf |-> r.conf, dev |-> a.device, on |-> None]
      /\ \A h \in DOMAIN a.objects[r.kind] \ {r.handle} : new[h] = a.objects[r.kind][h]
  BY DEF With
<1> HIDE DEF new
<1> QED BY <1>1, <1>5, <1>7, <1>8 DEF AfterCreation

LEMMA EndsFacts ==
  ASSUME NEW a, NEW b, NEW r \in Records, Sound(a), Ends(a, r, b)
  PROVE  AfterEnd(a, r, b)
<1> DEFINE new(j) == IF j = r.kind THEN Without(a.objects[j], r.handle)
                     ELSE [x \in DOMAIN a.objects[j] |->
                             IF r.kind = "stream" /\ a.objects[j][x].on = r.handle
                             THEN [a.objects[j][x] EXCEPT !.on = None] ELSE a.objects[j][x]]
           o == [j \in TKinds |-> new(j)]
<1>1. r.kind \in TKinds /\ b = [a EXCEPT !.objects = o]
  BY DEF Ends, Ended
<1>2. ASSUME NEW j \in TKinds PROVE new(j) \in Objects
  <2>1. a.objects[j] \in Objects /\ DOMAIN a.objects[j] \in SUBSET Handle
        /\ \A x \in DOMAIN a.objects[j] : a.objects[j][x] \in Object
    BY SoundFacts
  <2>2. CASE j = r.kind
    BY <2>1, <2>2, WithoutInMap DEF Objects
  <2>3. CASE j # r.kind
    <3>1. new(j) \in [DOMAIN a.objects[j] -> Object]
      BY <2>1, <2>3, ObjectFields
    <3> HIDE DEF new
    <3> QED BY <2>1, <3>1, IsMap DEF Objects
  <2> QED BY <2>2, <2>3
<1>3. o \in [TKinds -> Objects] /\ \A j \in TKinds : o[j] = new(j)
  BY <1>2
<1> HIDE DEF o
<1>4. b \in Cores /\ b.objects = o /\ b.device = a.device /\ b.modules = a.modules
      /\ b.functions = a.functions
  BY <1>1, <1>3, WithObjects, SoundFacts
<1>5. b.objects[r.kind] = Without(a.objects[r.kind], r.handle)
  BY <1>1, <1>3, <1>4
<1>6. ASSUME NEW j \in TKinds \ {r.kind}
      PROVE  /\ DOMAIN b.objects[j] = DOMAIN a.objects[j]
             /\ \A h \in DOMAIN a.objects[j] :
                  b.objects[j][h] =
                    IF r.kind = "stream" /\ a.objects[j][h].on = r.handle
                    THEN [a.objects[j][h] EXCEPT !.on = None] ELSE a.objects[j][h]
  <2>1. b.objects[j] = [x \in DOMAIN a.objects[j] |->
                          IF r.kind = "stream" /\ a.objects[j][x].on = r.handle
                          THEN [a.objects[j][x] EXCEPT !.on = None] ELSE a.objects[j][x]]
    BY <1>3, <1>4
  <2> QED BY <2>1
<1>7. /\ DOMAIN b.objects[r.kind] = DOMAIN a.objects[r.kind] \ {r.handle}
      /\ \A h \in DOMAIN a.objects[r.kind] \ {r.handle} :
           b.objects[r.kind][h] = a.objects[r.kind][h]
  BY <1>5 DEF Without
<1> QED BY <1>4, <1>6, <1>7 DEF AfterEnd

LEMMA BindsFacts ==
  ASSUME NEW a, NEW b, NEW r \in Records, Sound(a), Binds(a, r, b)
  PROVE  AfterBinding(a, r, b)
<1> DEFINE new == [a.objects[r.kind] EXCEPT ![r.handle].on = r.on]
           o == [a.objects EXCEPT ![r.kind] = new]
<1>1. r.kind \in TKinds /\ r.handle \in DOMAIN a.objects[r.kind] /\ r.on \in Handle
  BY RecordFields DEF Binds, WellFormed
<1>2. a.objects[r.kind] \in Objects /\ DOMAIN a.objects[r.kind] \in SUBSET Handle
      /\ \A h \in DOMAIN a.objects[r.kind] : a.objects[r.kind][h] \in Object
  BY <1>1, SoundFacts
<1>3. a.objects[r.kind] = [h \in DOMAIN a.objects[r.kind] |-> a.objects[r.kind][h]]
  BY <1>2, MapIs DEF Objects
<1>4. new = [h \in DOMAIN a.objects[r.kind] |->
               IF h = r.handle THEN [a.objects[r.kind][h] EXCEPT !.on = r.on]
               ELSE a.objects[r.kind][h]]
  BY <1>1, <1>3
<1>5. new \in [DOMAIN a.objects[r.kind] -> Object]
  BY <1>1, <1>2, <1>4, ObjectFields
<1>6. new \in Objects
  BY <1>2, <1>5, IsMap DEF Objects
<1>7. a.objects \in [TKinds -> Objects] /\ a \in Cores
  BY SoundFacts DEF Cores
<1>8. o \in [TKinds -> Objects] /\ o[r.kind] = new
      /\ \A j \in TKinds \ {r.kind} : o[j] = a.objects[j]
  BY <1>1, <1>6, <1>7
<1>9. b = [a EXCEPT !.objects = o]
  BY <1>7 DEF Binds, Cores
<1>10. DOMAIN new = DOMAIN a.objects[r.kind]
       /\ new[r.handle] = [a.objects[r.kind][r.handle] EXCEPT !.on = r.on]
       /\ \A h \in DOMAIN a.objects[r.kind] \ {r.handle} : new[h] = a.objects[r.kind][h]
  BY <1>1, <1>4
<1> HIDE DEF o, new
<1>11. b \in Cores /\ b.objects = o /\ b.device = a.device /\ b.modules = a.modules
       /\ b.functions = a.functions
  BY <1>7, <1>8, <1>9, WithObjects
<1> QED BY <1>1, <1>8, <1>10, <1>11 DEF AfterBinding

LEMMA FollowsSound ==
  ASSUME NEW a, NEW b, NEW r \in Records, Sound(a), Follows(a, r, b)
  PROVE  Sound(b)
<1>0. "stream" \in TKinds /\ r.kind \in Kinds
  BY StreamIsTranslated, RecordFields
<1>1. ASSUME Creates(a, r, b) PROVE Sound(b)
  <2>0. AfterCreation(a, r, b)
    BY <1>1, CreatesFacts
  <2>1. r.kind \in TKinds
    BY <1>1 DEF Creates
  <2>2. IsFiniteSet(DOMAIN b.objects[r.kind])
    BY <2>0, <2>1, FS_AddElement, SMTT(30) DEF Sound, AfterCreation
  <2>3. ASSUME NEW j \in TKinds
        PROVE  /\ IsFiniteSet(DOMAIN b.objects[j])
               /\ \A h \in DOMAIN b.objects[j] :
                    b.objects[j][h].on \in DOMAIN b.objects["stream"] \cup {None}
    <3>1. DOMAIN a.objects["stream"] \subseteq DOMAIN b.objects["stream"]
      BY <1>0, <2>0, <2>1 DEF AfterCreation
    <3>2. CASE j = r.kind
      <4>1. b.objects[r.kind][r.handle].on = None
        BY <2>0 DEF AfterCreation
      <4>2. \A h \in DOMAIN b.objects[r.kind] \ {r.handle} :
              h \in DOMAIN a.objects[r.kind] /\ b.objects[r.kind][h] = a.objects[r.kind][h]
        BY <2>0 DEF AfterCreation
      <4>3. \A h \in DOMAIN a.objects[r.kind] :
              a.objects[r.kind][h].on \in DOMAIN a.objects["stream"] \cup {None}
        BY <2>1 DEF Sound
      <4> QED BY <2>2, <3>1, <3>2, <4>1, <4>2, <4>3
    <3>3. CASE j # r.kind
      <4>1. b.objects[j] = a.objects[j]
        BY <2>0, <3>3 DEF AfterCreation
      <4> QED BY <3>1, <4>1 DEF Sound
    <3> QED BY <3>2, <3>3
  <2>4. \A h \in DOMAIN b.objects["stream"] : b.objects["stream"][h].on = None
    <3>1. CASE r.kind = "stream"
      <4>1. b.objects[r.kind][r.handle].on = None
        BY <2>0 DEF AfterCreation
      <4>2. \A h \in DOMAIN b.objects[r.kind] \ {r.handle} :
              h \in DOMAIN a.objects[r.kind] /\ b.objects[r.kind][h] = a.objects[r.kind][h]
        BY <2>0 DEF AfterCreation
      <4> QED BY <3>1, <4>1, <4>2 DEF Sound
    <3>2. CASE r.kind # "stream"
      <4>1. b.objects["stream"] = a.objects["stream"]
        BY <1>0, <2>0, <3>2 DEF AfterCreation
      <4> QED BY <4>1 DEF Sound
    <3> QED BY <3>1, <3>2
  <2>5. b \in Cores /\ b.functions = a.functions /\ b.modules = a.modules
    BY <2>0 DEF AfterCreation
  <2> QED BY <2>3, <2>4, <2>5 DEF Sound
<1>2. ASSUME Ends(a, r, b) PROVE Sound(b)
  <2>0. AfterEnd(a, r, b)
    BY <1>2, EndsFacts
  <2>1. r.kind \in TKinds
    BY <1>2 DEF Ends
  <2>2. ASSUME NEW j \in TKinds, NEW h \in DOMAIN b.objects[j]
        PROVE  /\ h \in DOMAIN a.objects[j]
               /\ \/ b.objects[j][h] = a.objects[j][h] /\ (r.kind = "stream" /\ j # r.kind => a.objects[j][h].on # r.handle)
                  \/ b.objects[j][h].on = None
    <3>1. CASE j = r.kind
      BY <2>0, <3>1 DEF AfterEnd
    <3>2. CASE j # r.kind
      <4>1. h \in DOMAIN a.objects[j] /\ b.objects[j][h] =
              IF r.kind = "stream" /\ a.objects[j][h].on = r.handle
              THEN [a.objects[j][h] EXCEPT !.on = None] ELSE a.objects[j][h]
        BY <2>0, <2>1, <3>2 DEF AfterEnd
      <4>2. a.objects[j][h] \in Object
        BY <4>1, SoundFacts
      <4>3. [a.objects[j][h] EXCEPT !.on = None].on = None
        BY <4>2 DEF Object
      <4> QED BY <4>1, <4>3
    <3> QED BY <3>1, <3>2
  <2>3. ASSUME NEW j \in TKinds PROVE IsFiniteSet(DOMAIN b.objects[j])
    <3>1. DOMAIN b.objects[j] \subseteq DOMAIN a.objects[j]
      BY <2>2
    <3> QED BY <3>1, FS_Subset DEF Sound
  <2>4. DOMAIN b.objects["stream"] =
          IF r.kind = "stream" THEN DOMAIN a.objects["stream"] \ {r.handle}
                          ELSE DOMAIN a.objects["stream"]
    BY <1>0, <2>0 DEF AfterEnd
  <2>5. \A h \in DOMAIN b.objects["stream"] : b.objects["stream"][h].on = None
    BY <1>0, <2>2 DEF Sound
  <2>6. ASSUME NEW j \in TKinds, NEW h \in DOMAIN b.objects[j]
        PROVE  b.objects[j][h].on \in DOMAIN b.objects["stream"] \cup {None}
    <3>1. CASE j = "stream"
      BY <2>5, <3>1
    <3>2. CASE j # "stream"
      <4>1. a.objects[j][h].on \in DOMAIN a.objects["stream"] \cup {None}
        BY <2>2 DEF Sound
      <4> QED BY <2>2, <2>4, <3>2, <4>1
    <3> QED BY <3>1, <3>2
  <2>7. b \in Cores /\ b.functions = a.functions /\ b.modules = a.modules
    BY <2>0 DEF AfterEnd
  <2> QED BY <2>3, <2>5, <2>6, <2>7 DEF Sound
<1>3. ASSUME Binds(a, r, b) PROVE Sound(b)
  <2>0. AfterBinding(a, r, b)
    BY <1>3, BindsFacts
  <2>1. r.kind \in TKinds /\ r.kind # "stream" /\ r.on \in DOMAIN a.objects["stream"]
        /\ r.handle \in DOMAIN a.objects[r.kind]
    BY <1>3, RecordFields DEF Binds, WellFormed
  <2>2. \A j \in TKinds : DOMAIN b.objects[j] = DOMAIN a.objects[j]
    BY <2>0 DEF AfterBinding
  <2>3. b.objects["stream"] = a.objects["stream"]
    BY <1>0, <2>0, <2>1 DEF AfterBinding
  <2>4. ASSUME NEW j \in TKinds, NEW h \in DOMAIN b.objects[j]
        PROVE  b.objects[j][h].on \in DOMAIN b.objects["stream"] \cup {None}
    <3>1. CASE j = r.kind /\ h = r.handle
      <4>1. a.objects[r.kind][h] \in Object
        BY <2>1, <3>1, SoundFacts
      <4>2. b.objects[r.kind][h] = [a.objects[r.kind][h] EXCEPT !.on = r.on]
        BY <2>0, <3>1 DEF AfterBinding
      <4>3. b.objects[r.kind][h].on = r.on
        BY <4>1, <4>2 DEF Object
      <4> QED BY <2>1, <2>3, <3>1, <4>3
    <3>2. CASE ~ (j = r.kind /\ h = r.handle)
      <4>1. b.objects[j][h] = a.objects[j][h]
        BY <2>0, <2>2, <3>2 DEF AfterBinding
      <4> QED BY <2>2, <2>3, <4>1 DEF Sound
    <3> QED BY <3>1, <3>2
  <2>5. b \in Cores /\ b.functions = a.functions /\ b.modules = a.modules
    BY <2>0 DEF AfterBinding
  <2> QED BY <2>2, <2>3, <2>4, <2>5 DEF Sound
<1>4. ASSUME Selects(a, r, b) PROVE Sound(b)
  <2>1. r.handle \in Devices /\ a \in Cores
    BY <1>4, RecordFields DEF Selects, WellFormed, Sound
  <2>2. b \in Cores /\ b.objects = a.objects /\ b.functions = a.functions
        /\ b.modules = a.modules
    BY <1>4, <2>1 DEF Selects, Cores
  <2> QED BY <2>2 DEF Sound
<1>5. ASSUME Loads(a, r, b) PROVE Sound(b)
  <2>1. r.key \in Modules /\ a \in Cores
    BY <1>5, RecordFields DEF Loads, WellFormed, Sound
  <2>2. With(a.modules, r.key, a.device) \in Map(Modules, Devices)
    BY <2>1, WithInMap, SoundFacts
  <2>3. b \in Cores /\ b.objects = a.objects /\ b.functions = a.functions
        /\ b.modules = With(a.modules, r.key, a.device)
    BY <1>5, <2>1, <2>2 DEF Loads, Cores
  <2>4. DOMAIN a.modules \subseteq DOMAIN b.modules
    BY <2>3 DEF With
  <2> QED BY <2>3, <2>4 DEF Sound
<1>6. ASSUME Registers(a, r, b) PROVE Sound(b)
  <2>1. r.key \in Modules /\ r.name \in Functions /\ a \in Cores /\ r.key \in DOMAIN a.modules
    BY <1>6, RecordFields DEF Registers, WellFormed, Sound
  <2>2. With(a.functions, r.name, r.key) \in Map(Functions, Modules)
    BY <2>1, WithInMap, SoundFacts
  <2>3. b \in Cores /\ b.objects = a.objects /\ b.modules = a.modules
        /\ b.functions = With(a.functions, r.name, r.key)
    BY <1>6, <2>1, <2>2 DEF Registers, Cores
  <2>4. \A f \in DOMAIN b.functions : b.functions[f] \in DOMAIN a.modules
    BY <2>1, <2>3 DEF Sound, With
  <2> QED BY <2>3, <2>4 DEF Sound
<1> QED BY <1>1, <1>2, <1>3, <1>4, <1>5, <1>6 DEF Follows

(* A call that is recorded twice is one.                                   *)
LEMMA TwiceIsOnce ==
  ASSUME NEW a, NEW b, NEW r \in Records, Sound(a), Follows(a, r, b),
         r.fn # "elf_load", r.fn = "create" => r.kind \notin TKinds
  PROVE  Follows(b, r, b)
<1>0. Sound(b) /\ "stream" \in TKinds
  BY FollowsSound, StreamIsTranslated
<1>1. ASSUME OfRepeated(r) PROVE Follows(b, r, b)
  BY <1>1 DEF Follows
<1>2. ASSUME Ends(a, r, b) PROVE Follows(b, r, b)
  <2>0. AfterEnd(a, r, b)
    BY <1>2, EndsFacts
  <2> DEFINE o == b.objects
  <2>1. r.kind \in TKinds /\ r.handle \notin DOMAIN o[r.kind]
    BY <1>2, <2>0 DEF Ends, AfterEnd
  <2>2. ASSUME NEW j \in TKinds
        PROVE  o[j] = IF j = r.kind THEN Without(o[j], r.handle)
                      ELSE [x \in DOMAIN o[j] |->
                              IF r.kind = "stream" /\ o[j][x].on = r.handle
                              THEN [o[j][x] EXCEPT !.on = None] ELSE o[j][x]]
    <3>1. o[j] = [x \in DOMAIN o[j] |-> o[j][x]]
      BY <1>0, SoundFacts, MapIs DEF Objects
    <3>2. CASE j = r.kind
      BY <2>1, <3>1, <3>2 DEF Without
    <3>3. CASE j # r.kind
      <4>1. ASSUME r.kind = "stream", NEW x \in DOMAIN o[j] PROVE o[j][x].on # r.handle
        <5>1. o[j][x].on \in DOMAIN o["stream"] \cup {None}
          BY <1>0, SoundFacts
        <5>2. r.handle \in Handle
          BY <1>2, RecordFields DEF Ends, WellFormed
        <5> QED BY <2>1, <4>1, <5>1, <5>2, NoneIsNoHandle
      <4> QED BY <3>1, <3>3, <4>1
    <3> QED BY <3>2, <3>3
  <2>3. o \in [TKinds -> Objects] /\ b \in Cores
    BY <1>0 DEF Sound, Cores
  <2>4. o = [j \in TKinds |->
               IF j = r.kind THEN Without(o[j], r.handle)
               ELSE [x \in DOMAIN o[j] |->
                       IF r.kind = "stream" /\ o[j][x].on = r.handle
                       THEN [o[j][x] EXCEPT !.on = None] ELSE o[j][x]]]
    BY <2>2, <2>3
  <2>5. Ended(o, r.kind, r.handle) = o
    BY <2>4 DEF Ended
  <2>6. b = [b EXCEPT !.objects = o]
    BY <2>3 DEF Cores
  <2>7. Ends(b, r, b)
    BY <1>2, <2>5, <2>6 DEF Ends
  <2> QED BY <2>7 DEF Follows
<1>3. ASSUME Binds(a, r, b) PROVE Follows(b, r, b)
  <2>0. AfterBinding(a, r, b)
    BY <1>3, BindsFacts
  <2>1. r.kind \in TKinds /\ r.kind # "stream" /\ r.on \in DOMAIN a.objects["stream"]
        /\ r.handle \in DOMAIN a.objects[r.kind]
    BY <1>3, RecordFields DEF Binds, WellFormed
  <2>2. r.handle \in DOMAIN b.objects[r.kind] /\ r.on \in DOMAIN b.objects["stream"]
    BY <1>0, <2>0, <2>1 DEF AfterBinding
  <2>3. b.objects[r.kind][r.handle].on = r.on
    <3>1. a.objects[r.kind][r.handle] \in Object
      BY <2>1, SoundFacts
    <3> QED BY <2>0, <3>1 DEF Object, AfterBinding
  <2>4. /\ b.objects \in [TKinds -> Objects] /\ b \in Cores
        /\ b.objects[r.kind] = [h \in DOMAIN b.objects[r.kind] |-> b.objects[r.kind][h]]
        /\ b.objects[r.kind][r.handle] \in Object
    BY <1>0, <2>1, <2>2, SoundFacts, MapIs DEF Sound, Cores, Objects
  <2>5. [b.objects[r.kind][r.handle] EXCEPT !.on = r.on] = b.objects[r.kind][r.handle]
    BY <2>3, <2>4 DEF Object
  <2>6. [b.objects[r.kind] EXCEPT ![r.handle].on = r.on] = b.objects[r.kind]
    BY <2>2, <2>4, <2>5
  <2>7. [b EXCEPT !.objects[r.kind][r.handle].on = r.on] = b
    BY <2>1, <2>4, <2>6 DEF Cores
  <2> QED BY <1>3, <2>2, <2>7 DEF Binds, Follows
<1>4. ASSUME Selects(a, r, b) PROVE Follows(b, r, b)
  <2>1. b.device = r.handle /\ b \in Cores
    BY <1>0, <1>4 DEF Selects, Sound, Cores
  <2> QED BY <1>4, <2>1 DEF Selects, Follows, Cores
<1>5. ASSUME Registers(a, r, b) PROVE Follows(b, r, b)
  <2>1. b.modules = a.modules /\ b.functions = With(a.functions, r.name, r.key) /\ b \in Cores
    BY <1>0, <1>5 DEF Registers, Sound, Cores
  <2>2. With(b.functions, r.name, r.key) = b.functions
    BY <2>1 DEF With
  <2>3. [b EXCEPT !.functions = b.functions] = b
    BY <2>1 DEF Cores
  <2> QED BY <1>5, <2>1, <2>2, <2>3 DEF Registers, Follows
<1> QED BY <1>1, <1>2, <1>3, <1>4, <1>5 DEF Follows, Creates, Loads

------------------------------------------------------------------------------
(* What creating, destroying and binding make of a match, kind by kind.    *)

(* The table g is f with b at a, f without a, f where stream s is gone.    *)
Put(f, a, b, g) ==
  /\ DOMAIN g = DOMAIN f \cup {a} /\ g[a] = b
  /\ \A x \in DOMAIN f \ {a} : g[x] = f[x]
Taken(f, a, g) ==
  /\ DOMAIN g = DOMAIN f \ {a}
  /\ \A x \in DOMAIN f \ {a} : g[x] = f[x]
OnStream(o, s) == [o EXCEPT !.on = s]
Freed(f, s, g) ==
  /\ DOMAIN g = DOMAIN f
  /\ \A x \in DOMAIN f : g[x] = IF f[x].on = s THEN [f[x] EXCEPT !.on = None] ELSE f[x]

(* Two ways to look up handles, and streams, are one for those held.       *)
Same(held, f, s, g, t) ==
  \A x \in DOMAIN held :
    g[x] = f[x] /\ (held[x].on # None => t[held[x].on] = s[held[x].on])

On(held, streams) ==
  \A x \in DOMAIN held : held[x].on \in DOMAIN streams \cup {None}

LEMMA MatchKept ==
  ASSUME NEW held, NEW objects, NEW f, NEW s, NEW g, NEW t, Match(held, objects, f, s),
         Same(held, f, s, g, t)
  PROVE  Match(held, objects, g, t)
BY DEF Match, Same

LEMMA MatchAfterCreation ==
  ASSUME NEW held, NEW held2, NEW objects, NEW objects2, NEW f, NEW s, NEW g, NEW t,
         NEW h, NEW p, NEW n,
         Match(held, objects, f, s), Same(held, f, s, g, t),
         h \notin DOMAIN held, p \notin DOMAIN objects, g[h] = p, n.on = None,
         Put(held, h, n, held2), Put(objects, p, n, objects2)
  PROVE  Match(held2, objects2, g, t)
<1>0. /\ DOMAIN held2 = DOMAIN held \cup {h} /\ held2[h] = n
      /\ \A x \in DOMAIN held \ {h} : held2[x] = held[x]
      /\ \A x \in DOMAIN held :
           g[x] = f[x] /\ (held[x].on # None => t[held[x].on] = s[held[x].on])
  BY DEF Put, Same
<1>1. /\ DOMAIN objects2 = DOMAIN objects \cup {p} /\ objects2[p] = n
      /\ \A q \in DOMAIN objects : objects2[q] = objects[q]
  BY DEF Put
<1>2. \A x \in DOMAIN held : f[x] \in DOMAIN objects /\ f[x] # p
  BY DEF Match
<1>3. DOMAIN objects2 = {g[x] : x \in DOMAIN held2}
  BY <1>0, <1>1 DEF Match
<1>4. \A x, y \in DOMAIN held2 : g[x] = g[y] => x = y
  BY <1>0, <1>2 DEF Match
<1>5. ASSUME NEW x \in DOMAIN held2
      PROVE  /\ objects2[g[x]].conf = held2[x].conf /\ objects2[g[x]].dev = held2[x].dev
             /\ objects2[g[x]].on = IF held2[x].on = None THEN None ELSE t[held2[x].on]
  <2>1. CASE x = h
    BY <1>0, <1>1, <2>1
  <2>2. CASE x # h
    <3>1. x \in DOMAIN held /\ held2[x] = held[x] /\ g[x] = f[x]
          /\ objects2[g[x]] = objects[f[x]]
      BY <1>0, <1>1, <1>2, <2>2
    <3>2. objects[f[x]].on = (IF held[x].on = None THEN None ELSE s[held[x].on])
          /\ objects[f[x]].conf = held[x].conf /\ objects[f[x]].dev = held[x].dev
      BY <3>1 DEF Match
    <3> QED BY <1>0, <3>1, <3>2
  <2> QED BY <2>1, <2>2
<1> QED BY <1>3, <1>4, <1>5 DEF Match

LEMMA MatchAfterEnd ==
  ASSUME NEW held, NEW held2, NEW objects, NEW objects2, NEW f, NEW s, NEW h,
         Match(held, objects, f, s), h \in DOMAIN held \/ f[h] \notin DOMAIN objects,
         Taken(held, h, held2), Taken(objects, f[h], objects2)
  PROVE  Match(held2, objects2, f, s)
<1>0. /\ DOMAIN held2 = DOMAIN held \ {h}
      /\ \A x \in DOMAIN held \ {h} : held2[x] = held[x]
  BY DEF Taken
<1>1. /\ DOMAIN objects2 = DOMAIN objects \ {f[h]}
      /\ \A q \in DOMAIN objects2 : objects2[q] = objects[q]
  BY DEF Taken
<1>2. \A x \in DOMAIN held2 : x \in DOMAIN held /\ f[x] \in DOMAIN objects /\ f[x] # f[h]
  BY <1>0 DEF Match
<1>3. DOMAIN objects2 = {f[x] : x \in DOMAIN held2}
  BY <1>0, <1>1, <1>2 DEF Match
<1>4. \A x, y \in DOMAIN held2 : f[x] = f[y] => x = y
  BY <1>2 DEF Match
<1>5. ASSUME NEW x \in DOMAIN held2
      PROVE  /\ objects2[f[x]].conf = held2[x].conf /\ objects2[f[x]].dev = held2[x].dev
             /\ objects2[f[x]].on = IF held2[x].on = None THEN None ELSE s[held2[x].on]
  <2>1. x \in DOMAIN held /\ held2[x] = held[x] /\ objects2[f[x]] = objects[f[x]]
    BY <1>0, <1>1, <1>2
  <2>2. objects[f[x]].on = (IF held[x].on = None THEN None ELSE s[held[x].on])
        /\ objects[f[x]].conf = held[x].conf /\ objects[f[x]].dev = held[x].dev
    BY <2>1 DEF Match
  <2> QED BY <2>1, <2>2
<1> QED BY <1>3, <1>4, <1>5 DEF Match

(* The stream h is destroyed: whoever is on it is left without.            *)
LEMMA MatchAfterEndOfStream ==
  ASSUME NEW held \in Objects, NEW held2, NEW objects \in Objects, NEW objects2,
         NEW held_streams, NEW streams, NEW f, NEW s, NEW h,
         Match(held, objects, f, s), Match(held_streams, streams, s, s),
         h \in DOMAIN held_streams \/ s[h] \notin DOMAIN streams,
         On(held, held_streams), Freed(held, h, held2), Freed(objects, s[h], objects2)
  PROVE  Match(held2, objects2, f, s)
<1>0. /\ DOMAIN held2 = DOMAIN held
      /\ \A x \in DOMAIN held :
           /\ held[x].on \in DOMAIN held_streams \cup {None}
           /\ held2[x] = IF held[x].on = h THEN [held[x] EXCEPT !.on = None] ELSE held[x]
  BY DEF On, Freed
<1>1. /\ DOMAIN objects2 = DOMAIN objects
      /\ \A q \in DOMAIN objects2 :
           objects2[q] = IF objects[q].on = s[h] THEN [objects[q] EXCEPT !.on = None]
                         ELSE objects[q]
  BY DEF Freed
<1>2. DOMAIN objects2 = {f[x] : x \in DOMAIN held2}
      /\ \A x, y \in DOMAIN held2 : f[x] = f[y] => x = y
  BY <1>0, <1>1 DEF Match
<1>3. ASSUME NEW x \in DOMAIN held2
      PROVE  /\ objects2[f[x]].conf = held2[x].conf /\ objects2[f[x]].dev = held2[x].dev
             /\ objects2[f[x]].on = IF held2[x].on = None THEN None ELSE s[held2[x].on]
  <2> DEFINE o == objects[f[x]]
             c == held[x]
  <2>1. x \in DOMAIN held /\ f[x] \in DOMAIN objects
    BY <1>0 DEF Match
  <2>2. c \in Object /\ o \in Object
    BY <2>1, MapIs DEF Objects
  <2>3. /\ [c EXCEPT !.on = None].on = None /\ [c EXCEPT !.on = None].conf = c.conf
        /\ [c EXCEPT !.on = None].dev = c.dev
        /\ [o EXCEPT !.on = None].on = None /\ [o EXCEPT !.on = None].conf = o.conf
        /\ [o EXCEPT !.on = None].dev = o.dev
    BY <2>2 DEF Object
  <2>4. o.on = (IF c.on = None THEN None ELSE s[c.on]) /\ o.conf = c.conf /\ o.dev = c.dev
    BY <2>1 DEF Match
  <2>5. objects2[f[x]] = (IF o.on = s[h] THEN [o EXCEPT !.on = None] ELSE o)
    BY <1>1, <2>1
  <2>6. held2[x] = IF c.on = h THEN [c EXCEPT !.on = None] ELSE c
    BY <1>0, <2>1
  <2>7. c.on # None /\ c.on # h => s[c.on] # s[h]
    <3>1. SUFFICES ASSUME c.on # None, c.on # h PROVE s[c.on] # s[h]
      OBVIOUS
    <3>2. c.on \in DOMAIN held_streams
      BY <1>0, <2>1, <3>1
    <3>3. s[c.on] \in DOMAIN streams
      BY <3>2 DEF Match
    <3> QED BY <3>1, <3>2, <3>3 DEF Match
  <2> HIDE DEF o, c
  <2>8. CASE c.on = h
    BY <2>3, <2>4, <2>5, <2>6, <2>8
  <2>9. CASE c.on # h
    BY <2>3, <2>4, <2>5, <2>6, <2>7, <2>9
  <2> QED BY <2>8, <2>9
<1> QED BY <1>2, <1>3 DEF Match

LEMMA MatchAfterBinding ==
  ASSUME NEW held \in Objects, NEW held2, NEW objects \in Objects, NEW objects2,
         NEW f, NEW s, NEW h, NEW e \in Handle,
         Match(held, objects, f, s), h \in DOMAIN held,
         Put(held, h, OnStream(held[h], e), held2),
         Put(objects, f[h], OnStream(objects[f[h]], s[e]), objects2)
  PROVE  Match(held2, objects2, f, s)
<1>0. /\ DOMAIN held2 = DOMAIN held /\ held2[h] = [held[h] EXCEPT !.on = e]
      /\ \A x \in DOMAIN held \ {h} : held2[x] = held[x]
      /\ DOMAIN objects2 = DOMAIN objects
      /\ objects2[f[h]] = [objects[f[h]] EXCEPT !.on = s[e]]
      /\ \A q \in DOMAIN objects \ {f[h]} : objects2[q] = objects[q]
  <2>1. f[h] \in DOMAIN objects
    BY DEF Match
  <2> QED BY <2>1 DEF Put, OnStream
<1>1. DOMAIN objects2 = {f[x] : x \in DOMAIN held2}
      /\ \A x, y \in DOMAIN held2 : f[x] = f[y] => x = y
  BY <1>0 DEF Match
<1>2. ASSUME NEW x \in DOMAIN held2
      PROVE  /\ objects2[f[x]].conf = held2[x].conf /\ objects2[f[x]].dev = held2[x].dev
             /\ objects2[f[x]].on = IF held2[x].on = None THEN None ELSE s[held2[x].on]
  <2>1. x \in DOMAIN held /\ f[x] \in DOMAIN objects
    BY <1>0 DEF Match
  <2>2. objects[f[x]].on = (IF held[x].on = None THEN None ELSE s[held[x].on])
        /\ objects[f[x]].conf = held[x].conf /\ objects[f[x]].dev = held[x].dev
    BY <2>1 DEF Match
  <2>3. CASE x = h
    <3>1. held[h] \in Object /\ objects[f[h]] \in Object
      BY <2>1, <2>3, MapIs DEF Objects
    <3>2. held2[h].on = e /\ held2[h].conf = held[h].conf /\ held2[h].dev = held[h].dev
          /\ objects2[f[h]].on = s[e] /\ objects2[f[h]].conf = objects[f[h]].conf
          /\ objects2[f[h]].dev = objects[f[h]].dev
      BY <1>0, <3>1 DEF Object
    <3>3. e # None
      BY NoneIsNoHandle
    <3> QED BY <2>2, <2>3, <3>2, <3>3
  <2>4. CASE x # h
    <3>1. f[x] # f[h]
      BY <2>1, <2>4 DEF Match
    <3>2. objects2[f[x]] = objects[f[x]] /\ held2[x] = held[x]
      BY <1>0, <2>1, <2>4, <3>1
    <3> QED BY <2>2, <3>2
  <2> QED BY <2>3, <2>4
<1> QED BY <1>1, <1>2 DEF Match

------------------------------------------------------------------------------
(* What the handlers make of a server that agrees with a.                  *)

LEMMA LookupFacts ==
  ASSUME TypeOK
  PROVE  /\ live \in Tables /\ "stream" \in TKinds
         /\ \A k \in TKinds : k \in Kinds /\ live[k] \in Objects /\ DOMAIN live[k] \subseteq Handle
         /\ \A k \in TKinds, h \in Handle : Lookup[k][h] = resource_mg_get(k, h)
<1>1. live \in Tables
  BY TypeFacts
<1>2. \A k \in TKinds, h \in Handle : Lookup[k][h] = resource_mg_get(k, h)
  BY DEF Lookup
<1>3. ASSUME NEW k \in TKinds
      PROVE  k \in Kinds /\ live[k] \in Objects /\ DOMAIN live[k] \subseteq Handle
  BY <1>1, StreamIsTranslated, TypeFacts DEF Tables
<1> QED BY <1>1, <1>2, <1>3, StreamIsTranslated

LEMMA LookupKept == ASSUME map' = map, restored' = restored PROVE Lookup' = Lookup
BY DEF Lookup, resource_mg_get, Bypassed

LEMMA ObjectsAfterCreation ==
  ASSUME TypeOK, NEW a, NEW b, NEW r \in Records, Sound(a), Creates(a, r, b),
         ObjectsAgree(a), Placement = "fresh", device = a.device,
         NEW p \in Handle \ DOMAIN live[r.kind],
         live' = Created(live, r.kind, p, r.conf, device),
         \A k \in TKinds, h \in Handle :
           Lookup'[k][h] = IF k = r.kind /\ h = r.handle THEN p ELSE Lookup[k][h]
  PROVE  ObjectsAgree(b)'
<1> DEFINE n == [conf |-> r.conf, dev |-> device, on |-> None]
<1>1. AfterCreation(a, r, b)
  BY CreatesFacts
<1>2. r.kind \in TKinds /\ r.handle \in Handle /\ r.handle \notin DOMAIN a.objects[r.kind]
  BY RecordFields DEF Creates, WellFormed
<1>3. \A k \in TKinds : Match(a.objects[k], live[k], Lookup[k], Lookup["stream"])
  BY DEF ObjectsAgree
<1>4. \A k \in TKinds : \A x \in DOMAIN a.objects[k] : Lookup'[k][x] = Lookup[k][x]
  BY <1>2, SoundFacts
<1>5. ASSUME NEW k \in TKinds, NEW x \in DOMAIN a.objects[k], a.objects[k][x].on # None
      PROVE  Lookup'["stream"][a.objects[k][x].on] = Lookup["stream"][a.objects[k][x].on]
  <2>1. a.objects[k][x].on \in DOMAIN a.objects["stream"]
    BY <1>5, SoundFacts
  <2> QED BY <1>4, <2>1, StreamIsTranslated
<1>6. /\ live'[r.kind] = With(live[r.kind], p, n)
      /\ \A k \in TKinds \ {r.kind} : live'[k] = live[k]
  BY <1>2, LookupFacts DEF Created, Tables
<1>7. Match(b.objects[r.kind], live'[r.kind], Lookup'[r.kind], Lookup'["stream"])
  <2> DEFINE held == a.objects[r.kind]
             held2 == b.objects[r.kind]
  <2>1. Match(held, live[r.kind], Lookup[r.kind], Lookup["stream"])
    BY <1>2, <1>3
  <2>2. /\ DOMAIN held2 = DOMAIN held \cup {r.handle} /\ held2[r.handle] = n
        /\ \A x \in DOMAIN held \ {r.handle} : held2[x] = held[x]
    BY <1>1 DEF AfterCreation
  <2>3. Same(held, Lookup[r.kind], Lookup["stream"], Lookup'[r.kind], Lookup'["stream"])
    BY <1>2, <1>4, <1>5 DEF Same
  <2>4. Put(held, r.handle, n, held2)
        /\ Put(live[r.kind], p, n, With(live[r.kind], p, n))
    BY <2>2 DEF Put, With
  <2>5. r.handle \notin DOMAIN held /\ p \notin DOMAIN live[r.kind] /\ n.on = None
        /\ Lookup'[r.kind][r.handle] = p
    BY <1>2
  <2> HIDE DEF held, held2, n
  <2>6. Match(held2, With(live[r.kind], p, n), Lookup'[r.kind], Lookup'["stream"])
    BY <2>1, <2>2, <2>3, <2>4, <2>5, MatchAfterCreation
  <2> QED BY <1>6, <2>6 DEF held2
<1>8. ASSUME NEW k \in TKinds \ {r.kind}
      PROVE  Match(b.objects[k], live'[k], Lookup'[k], Lookup'["stream"])
  <2>1. b.objects[k] = a.objects[k]
    BY <1>1 DEF AfterCreation
  <2>2. Same(a.objects[k], Lookup[k], Lookup["stream"], Lookup'[k], Lookup'["stream"])
    BY <1>4, <1>5 DEF Same
  <2>3. Match(a.objects[k], live[k], Lookup'[k], Lookup'["stream"])
    BY <1>3, <2>2, MatchKept
  <2> QED BY <1>6, <2>1, <2>3
<1> QED BY <1>7, <1>8 DEF ObjectsAgree

LEMMA ObjectsAfterEnd ==
  ASSUME TypeOK, NEW a, NEW b, NEW r \in Records, Sound(a), Ends(a, r, b),
         ObjectsAgree(a), map' = map, restored' = restored,
         live' = Destroyed(live, r.kind, resource_mg_get(r.kind, r.handle)),
         \/ r.handle \in DOMAIN a.objects[r.kind]
         \/ resource_mg_get(r.kind, r.handle) \notin DOMAIN live[r.kind]
  PROVE  /\ ObjectsAgree(b)'
         /\ resource_mg_get(r.kind, r.handle)' \notin DOMAIN live'[r.kind]
<1> DEFINE q == resource_mg_get(r.kind, r.handle)
<1>1. AfterEnd(a, r, b)
  BY EndsFacts
<1>2. r.kind \in TKinds /\ r.handle \in Handle
  BY RecordFields DEF Ends, WellFormed
<1>3. \A k \in TKinds : Match(a.objects[k], live[k], Lookup[k], Lookup["stream"])
  BY DEF ObjectsAgree
<1>4. Lookup' = Lookup /\ q = Lookup[r.kind][r.handle]
      /\ resource_mg_get(r.kind, r.handle)' = q
  BY <1>2, LookupKept, LookupFacts DEF resource_mg_get, Bypassed
<1> HIDE DEF q
<1>5. /\ live'[r.kind] = Without(live[r.kind], q)
      /\ \A k \in TKinds \ {r.kind} :
           live'[k] = [x \in DOMAIN live[k] |->
                         IF r.kind = "stream" /\ live[k][x].on = q
                         THEN [live[k][x] EXCEPT !.on = None] ELSE live[k][x]]
  BY <1>2, LookupFacts DEF Destroyed, q
<1>6. r.handle \in DOMAIN a.objects[r.kind] \/ q \notin DOMAIN live[r.kind]
  BY DEF q
<1>7. Match(b.objects[r.kind], live'[r.kind], Lookup[r.kind], Lookup["stream"])
  <2>1. Match(a.objects[r.kind], live[r.kind], Lookup[r.kind], Lookup["stream"])
    BY <1>2, <1>3
  <2>2. /\ Taken(a.objects[r.kind], r.handle, b.objects[r.kind])
        /\ Taken(live[r.kind], q, Without(live[r.kind], q))
    BY <1>1 DEF AfterEnd, Taken, Without
  <2>3. Match(b.objects[r.kind], Without(live[r.kind], Lookup[r.kind][r.handle]),
              Lookup[r.kind], Lookup["stream"])
    BY <1>4, <1>6, <2>1, <2>2, MatchAfterEnd
  <2> QED BY <1>4, <1>5, <2>3
<1>8. ASSUME NEW k \in TKinds \ {r.kind}
      PROVE  Match(b.objects[k], live'[k], Lookup[k], Lookup["stream"])
  <2>1. Match(a.objects[k], live[k], Lookup[k], Lookup["stream"])
    BY <1>3
  <2>2. /\ DOMAIN b.objects[k] = DOMAIN a.objects[k]
        /\ \A x \in DOMAIN a.objects[k] :
             b.objects[k][x] =
               IF r.kind = "stream" /\ a.objects[k][x].on = r.handle
               THEN [a.objects[k][x] EXCEPT !.on = None] ELSE a.objects[k][x]
    BY <1>1 DEF AfterEnd
  <2>3. a.objects[k] \in Objects /\ live[k] \in Objects
        /\ \A x \in DOMAIN a.objects[k] :
             a.objects[k][x].on \in DOMAIN a.objects["stream"] \cup {None}
    BY SoundFacts, LookupFacts
  <2>4. CASE r.kind = "stream"
    <3>1. Match(a.objects["stream"], live["stream"], Lookup["stream"], Lookup["stream"])
      BY <1>3, StreamIsTranslated
    <3>2. r.handle \in DOMAIN a.objects["stream"]
          \/ Lookup["stream"][r.handle] \notin DOMAIN live["stream"]
      BY <1>4, <1>6, <2>4
    <3>3. Freed(a.objects[k], r.handle, b.objects[k])
      <4>1. \A x \in DOMAIN a.objects[k] :
              b.objects[k][x] = IF a.objects[k][x].on = r.handle
                                THEN [a.objects[k][x] EXCEPT !.on = None]
                                ELSE a.objects[k][x]
        BY <2>2, <2>4
      <4> QED BY <2>2, <4>1 DEF Freed
    <3>4. Freed(live[k], Lookup["stream"][r.handle], live'[k])
      <4>1. live'[k] = [x \in DOMAIN live[k] |->
                          IF live[k][x].on = Lookup["stream"][r.handle]
                          THEN [live[k][x] EXCEPT !.on = None] ELSE live[k][x]]
        BY <1>4, <1>5, <2>4
      <4> QED BY <4>1 DEF Freed
    <3>5. On(a.objects[k], a.objects["stream"])
      BY <2>3 DEF On
    <3> QED BY <2>1, <2>3, <3>1, <3>2, <3>3, <3>4, <3>5, MatchAfterEndOfStream
  <2>5. CASE r.kind # "stream"
    <3>1. live'[k] = [x \in DOMAIN live[k] |-> live[k][x]]
      BY <1>5, <2>5
    <3>2. live'[k] = live[k]
      BY <2>3, <3>1, MapIs DEF Objects
    <3>3. \A x \in DOMAIN a.objects[k] : b.objects[k][x] = a.objects[k][x]
      BY <2>2, <2>5
    <3> QED BY <2>1, <2>2, <3>2, <3>3 DEF Match
  <2> QED BY <2>4, <2>5
<1>9. q \notin DOMAIN live'[r.kind]
  BY <1>5 DEF Without
<1> QED BY <1>4, <1>7, <1>8, <1>9 DEF ObjectsAgree

LEMMA ObjectsAfterBinding ==
  ASSUME TypeOK, NEW a, NEW b, NEW r \in Records, Sound(a), Binds(a, r, b),
         ObjectsAgree(a), map' = map, restored' = restored,
         live' = Bound(live, r.kind, resource_mg_get(r.kind, r.handle),
                       resource_mg_get("stream", r.on))
  PROVE  ObjectsAgree(b)'
<1> DEFINE q == Lookup[r.kind][r.handle]
           s == Lookup["stream"][r.on]
<1>1. AfterBinding(a, r, b)
  BY BindsFacts
<1>2. r.kind \in TKinds /\ r.handle \in Handle /\ r.on \in Handle
      /\ r.handle \in DOMAIN a.objects[r.kind] /\ r.on \in DOMAIN a.objects["stream"]
  BY RecordFields DEF Binds, WellFormed
<1>3. \A k \in TKinds : Match(a.objects[k], live[k], Lookup[k], Lookup["stream"])
  BY DEF ObjectsAgree
<1>4. Lookup' = Lookup
  BY LookupKept
<1>5. q = resource_mg_get(r.kind, r.handle) /\ s = resource_mg_get("stream", r.on)
  BY <1>2, LookupFacts
<1>6. q \in DOMAIN live[r.kind] /\ s \in DOMAIN live["stream"]
  BY <1>2, <1>3, StreamIsTranslated DEF Match
<1>7. live[r.kind] \in Objects /\ live[r.kind] = [x \in DOMAIN live[r.kind] |-> live[r.kind][x]]
  BY <1>2, LookupFacts, MapIs DEF Objects
<1> HIDE DEF q, s
<1>8. live' = [live EXCEPT ![r.kind][q].on = s]
  BY <1>5, <1>6 DEF Bound
<1>9. /\ live'[r.kind] = [live[r.kind] EXCEPT ![q].on = s]
      /\ \A k \in TKinds \ {r.kind} : live'[k] = live[k]
  BY <1>2, <1>8, LookupFacts DEF Tables
<1>10. /\ DOMAIN live'[r.kind] = DOMAIN live[r.kind]
       /\ live'[r.kind][q] = [live[r.kind][q] EXCEPT !.on = s]
       /\ \A x \in DOMAIN live[r.kind] \ {q} : live'[r.kind][x] = live[r.kind][x]
  BY <1>6, <1>7, <1>9
<1>11. Match(b.objects[r.kind], live'[r.kind], Lookup[r.kind], Lookup["stream"])
  <2>1. Match(a.objects[r.kind], live[r.kind], Lookup[r.kind], Lookup["stream"])
    BY <1>2, <1>3
  <2>2. Put(a.objects[r.kind], r.handle, OnStream(a.objects[r.kind][r.handle], r.on),
            b.objects[r.kind])
    BY <1>1, <1>2 DEF AfterBinding, Put, OnStream
  <2>3. Put(live[r.kind], q, OnStream(live[r.kind][q], s), live'[r.kind])
    BY <1>6, <1>10 DEF Put, OnStream
  <2>4. a.objects[r.kind] \in Objects
    BY <1>2, SoundFacts
  <2>5. Put(live[r.kind], Lookup[r.kind][r.handle],
            OnStream(live[r.kind][Lookup[r.kind][r.handle]], Lookup["stream"][r.on]),
            live'[r.kind])
    BY <2>3 DEF q, s
  <2>6. r.handle \in DOMAIN a.objects[r.kind] /\ r.on \in Handle /\ live[r.kind] \in Objects
    BY <1>2, <1>7
  <2> QED BY <2>1, <2>2, <2>4, <2>5, <2>6, MatchAfterBinding
<1>12. ASSUME NEW k \in TKinds \ {r.kind}
       PROVE  Match(b.objects[k], live'[k], Lookup[k], Lookup["stream"])
  BY <1>1, <1>3, <1>9 DEF AfterBinding
<1> QED BY <1>4, <1>11, <1>12 DEF ObjectsAgree

LEMMA ObjectsKept ==
  ASSUME NEW a, NEW b, ObjectsAgree(a), b.objects = a.objects,
         map' = map, restored' = restored, \A k \in TKinds : live'[k] = live[k]
  PROVE  ObjectsAgree(b)'
BY LookupKept DEF ObjectsAgree

LEMMA ModulesKept ==
  ASSUME NEW a, NEW b, ModulesAgree(a), b.modules = a.modules, b.functions = a.functions,
         rm_modules' = rm_modules, rm_functions' = rm_functions, loaded' = loaded
  PROVE  ModulesAgree(b)'
BY DEF ModulesAgree

LEMMA ModulesAfterLoad ==
  ASSUME TypeOK, NEW a, NEW b, NEW r \in Records, Sound(a), Loads(a, r, b), ModulesAgree(a),
         device = a.device, NEW p \in Handle \ DOMAIN loaded,
         loaded' = With(loaded, p, [key |-> r.key, dev |-> device]),
         rm_modules' = With(rm_modules, r.key, p), rm_functions' = rm_functions
  PROVE  ModulesAgree(b)' /\ b.device = a.device /\ b.objects = a.objects
<1>1. /\ b.device = a.device /\ b.objects = a.objects /\ b.functions = a.functions
      /\ b.modules = With(a.modules, r.key, a.device) /\ r.key \notin DOMAIN a.modules
  BY DEF Loads, Sound, Cores
<1>2. DOMAIN rm_modules' = DOMAIN b.modules
  BY <1>1 DEF ModulesAgree, With
<1>3. ASSUME NEW m \in DOMAIN b.modules
      PROVE  /\ rm_modules'[m] \in DOMAIN loaded'
             /\ loaded'[rm_modules'[m]] = [key |-> m, dev |-> b.modules[m]]
  <2>1. CASE m = r.key
    <3>1. rm_modules'[m] = p /\ loaded'[p] = [key |-> m, dev |-> a.device]
          /\ p \in DOMAIN loaded' /\ b.modules[m] = a.device
      BY <1>1, <2>1 DEF With
    <3> QED BY <3>1
  <2>2. CASE m # r.key
    <3>1. m \in DOMAIN a.modules /\ b.modules[m] = a.modules[m]
      BY <1>1, <2>2 DEF With
    <3>2. rm_modules[m] \in DOMAIN loaded /\ m \in DOMAIN rm_modules
          /\ loaded[rm_modules[m]] = [key |-> m, dev |-> a.modules[m]]
      BY <3>1 DEF ModulesAgree
    <3>3. rm_modules'[m] = rm_modules[m] /\ rm_modules[m] # p
          /\ \A q \in DOMAIN loaded : q \in DOMAIN loaded' /\ (q # p => loaded'[q] = loaded[q])
      BY <2>2, <3>2 DEF With
    <3> QED BY <3>1, <3>2, <3>3
  <2> QED BY <2>1, <2>2
<1>4. ASSUME NEW f \in DOMAIN b.functions
      PROVE  /\ f \in DOMAIN rm_functions'
             /\ rm_functions'[f] = [module |-> rm_modules'[b.functions[f]], name |-> f]
  <2>1. a.functions[f] \in DOMAIN a.modules /\ f \in DOMAIN rm_functions
        /\ rm_functions[f] = [module |-> rm_modules[a.functions[f]], name |-> f]
    BY <1>1 DEF Sound, ModulesAgree
  <2>2. rm_modules'[a.functions[f]] = rm_modules[a.functions[f]]
    BY <1>1, <2>1 DEF With, ModulesAgree
  <2> QED BY <1>1, <2>1, <2>2
<1> QED BY <1>1, <1>2, <1>3, <1>4 DEF ModulesAgree

LEMMA ModulesAfterRegister ==
  ASSUME TypeOK, NEW a, NEW b, NEW r \in Records, Sound(a), Registers(a, r, b),
         ModulesAgree(a), Registered(r.name, r.key),
         rm_modules' = rm_modules, loaded' = loaded
  PROVE  ModulesAgree(b)' /\ b.device = a.device /\ b.objects = a.objects
<1>1. /\ b.device = a.device /\ b.objects = a.objects /\ b.modules = a.modules
      /\ b.functions = With(a.functions, r.name, r.key) /\ r.key \in DOMAIN a.modules
  BY DEF Registers, Sound, Cores
<1>2. rm_functions' = With(rm_functions, r.name,
                           [module |-> rm_modules[r.key], name |-> r.name])
  BY <1>1 DEF Registered, ModulesAgree
<1>3. ASSUME NEW f \in DOMAIN b.functions
      PROVE  /\ f \in DOMAIN rm_functions'
             /\ rm_functions'[f] = [module |-> rm_modules[b.functions[f]], name |-> f]
  <2>1. CASE f = r.name
    BY <1>1, <1>2, <2>1 DEF With
  <2>2. CASE f # r.name
    <3>1. f \in DOMAIN a.functions /\ b.functions[f] = a.functions[f]
      BY <1>1, <2>2 DEF With
    <3>2. f \in DOMAIN rm_functions
          /\ rm_functions[f] = [module |-> rm_modules[a.functions[f]], name |-> f]
      BY <3>1 DEF ModulesAgree
    <3>3. f \in DOMAIN rm_functions' /\ rm_functions'[f] = rm_functions[f]
      BY <1>2, <2>2, <3>2 DEF With
    <3> QED BY <3>1, <3>2, <3>3
  <2> QED BY <2>1, <2>2
<1> QED BY <1>1, <1>3 DEF ModulesAgree

(* What a handler that is called for r does to the server.                 *)
Performs(r) ==
  \/ /\ r.fn = "create"
     /\ \E p \in Handle \ DOMAIN live[r.kind] :
          /\ live' = Created(live, r.kind, p, r.conf, device)
          /\ r.kind \in TKinds /\ Placement = "fresh" =>
               \A k \in TKinds, h \in Handle :
                 Lookup'[k][h] = IF k = r.kind /\ h = r.handle THEN p ELSE Lookup[k][h]
          /\ r.kind \notin TKinds => UNCHANGED <<map, restored>>
     /\ UNCHANGED <<rm_modules, rm_functions, loaded, device>>
  \/ /\ r.fn = "destroy"
     /\ live' = Destroyed(live, r.kind, resource_mg_get(r.kind, r.handle))
     /\ UNCHANGED <<map, restored, rm_modules, rm_functions, loaded, device>>
  \/ /\ r.fn = "bind"
     /\ live' = Bound(live, r.kind, resource_mg_get(r.kind, r.handle),
                      resource_mg_get("stream", r.on))
     /\ UNCHANGED <<map, restored, rm_modules, rm_functions, loaded, device>>
  \/ /\ r.fn = "set_device" /\ device' = r.handle
     /\ UNCHANGED <<map, restored, live, rm_modules, rm_functions, loaded>>
  \/ /\ r.fn = "elf_load"
     /\ \E p \in Handle \ DOMAIN loaded :
          /\ loaded' = With(loaded, p, [key |-> r.key, dev |-> device])
          /\ rm_modules' = With(rm_modules, r.key, p)
     /\ UNCHANGED <<map, restored, live, rm_functions, device>>
  \/ /\ r.fn = "register" /\ Registered(r.name, r.key)
     /\ UNCHANGED <<map, restored, live, rm_modules, loaded, device>>

(* A destruction has something to destroy, or nothing is destroyed.        *)
Harmless(a, r) ==
  r.fn = "destroy" /\ r.kind \in TKinds /\ Placement = "fresh" =>
    \/ r.handle \in DOMAIN a.objects[r.kind]
    \/ resource_mg_get(r.kind, r.handle) \notin DOMAIN live[r.kind]

Gone(r) ==
  r.fn = "destroy" /\ r.kind \in TKinds /\ Placement = "fresh" =>
    resource_mg_get(r.kind, r.handle) \notin DOMAIN live[r.kind]

LEMMA AgreesAfter ==
  ASSUME TypeOK, NEW a, NEW b, NEW r \in Records, Sound(a), Follows(a, r, b), Agrees(a),
         Performs(r), Harmless(a, r)
  PROVE  Agrees(b)' /\ Gone(r)'
<1>0. device = a.device /\ ModulesAgree(a) /\ (Placement = "fresh" => ObjectsAgree(a))
  BY DEF Agrees
<1>1. ASSUME OfRepeated(r), b = a PROVE Agrees(b)' /\ Gone(r)'
  <2>1. r.fn \in {"create", "destroy", "bind"} /\ r.kind \notin TKinds /\ r.kind \in Kinds
    BY <1>1, RecordFields DEF OfRepeated
  <2>2. UNCHANGED <<map, restored, rm_modules, rm_functions, loaded, device>>
    BY <2>1 DEF Performs
  <2>3. ASSUME NEW k \in TKinds PROVE live'[k] = live[k]
    <3>1. live \in Tables /\ k # r.kind /\ k \in Kinds /\ r.kind # "stream"
          /\ live[k] = [x \in DOMAIN live[k] |-> live[k][x]]
      BY <2>1, LookupFacts, MapIs, StreamIsTranslated DEF Objects
    <3>2. CASE r.fn = "create"
      BY <2>1, <3>1, <3>2 DEF Performs, Created, Tables
    <3>3. CASE r.fn = "destroy"
      <4>1. live' = Destroyed(live, r.kind, resource_mg_get(r.kind, r.handle))
        BY <3>3 DEF Performs
      <4>2. live'[k] = [x \in DOMAIN live[k] |-> live[k][x]]
        BY <3>1, <4>1 DEF Destroyed
      <4> QED BY <3>1, <4>2
    <3>4. CASE r.fn = "bind"
      BY <2>1, <3>1, <3>4 DEF Performs, Bound, Tables
    <3> QED BY <2>1, <3>2, <3>3, <3>4
  <2>4. ModulesAgree(b)' /\ (Placement = "fresh" => ObjectsAgree(b)')
    BY <1>0, <1>1, <2>2, <2>3, ModulesKept, ObjectsKept
  <2>5. Gone(r)'
    BY <2>1 DEF Gone
  <2> QED BY <1>0, <1>1, <2>2, <2>4, <2>5 DEF Agrees
<1>2. ASSUME Creates(a, r, b) PROVE Agrees(b)' /\ Gone(r)'
  <2>1. b.modules = a.modules /\ b.functions = a.functions /\ b.device = a.device
        /\ r.fn = "create" /\ r.kind \in TKinds
    BY <1>2, CreatesFacts DEF AfterCreation, Creates
  <2>2. UNCHANGED <<rm_modules, rm_functions, loaded, device>>
    BY <2>1 DEF Performs
  <2>3. ModulesAgree(b)'
    BY <1>0, <2>1, <2>2, ModulesKept
  <2>4. ASSUME Placement = "fresh" PROVE ObjectsAgree(b)'
    <3>1. PICK p \in Handle \ DOMAIN live[r.kind] :
            /\ live' = Created(live, r.kind, p, r.conf, device)
            /\ \A k \in TKinds, h \in Handle :
                 Lookup'[k][h] = IF k = r.kind /\ h = r.handle THEN p ELSE Lookup[k][h]
      BY <2>1, <2>4 DEF Performs
    <3> QED BY <1>0, <1>2, <2>4, <3>1, ObjectsAfterCreation
  <2>5. Gone(r)'
    BY <2>1 DEF Gone
  <2> QED BY <1>0, <2>1, <2>2, <2>3, <2>4, <2>5 DEF Agrees
<1>3. ASSUME Ends(a, r, b) PROVE Agrees(b)' /\ Gone(r)'
  <2>1. b.modules = a.modules /\ b.functions = a.functions /\ b.device = a.device
        /\ r.fn = "destroy" /\ r.kind \in TKinds
    BY <1>3, EndsFacts DEF AfterEnd, Ends
  <2>2. live' = Destroyed(live, r.kind, resource_mg_get(r.kind, r.handle))
        /\ UNCHANGED <<map, restored, rm_modules, rm_functions, loaded, device>>
    BY <2>1 DEF Performs
  <2>3. ModulesAgree(b)'
    BY <1>0, <2>1, <2>2, ModulesKept
  <2>4. ASSUME Placement = "fresh"
        PROVE  ObjectsAgree(b)'
               /\ resource_mg_get(r.kind, r.handle)' \notin DOMAIN live'[r.kind]
    <3>1. \/ r.handle \in DOMAIN a.objects[r.kind]
          \/ resource_mg_get(r.kind, r.handle) \notin DOMAIN live[r.kind]
      BY <2>1, <2>4 DEF Harmless
    <3> QED BY <1>0, <1>3, <2>2, <2>4, <3>1, ObjectsAfterEnd
  <2>5. Gone(r)'
    BY <2>4 DEF Gone
  <2> QED BY <1>0, <2>1, <2>2, <2>3, <2>4, <2>5 DEF Agrees
<1>4. ASSUME Binds(a, r, b) PROVE Agrees(b)' /\ Gone(r)'
  <2>1. b.modules = a.modules /\ b.functions = a.functions /\ b.device = a.device
        /\ r.fn = "bind"
    BY <1>4, BindsFacts DEF AfterBinding, Binds
  <2>2. live' = Bound(live, r.kind, resource_mg_get(r.kind, r.handle),
                      resource_mg_get("stream", r.on))
        /\ UNCHANGED <<map, restored, rm_modules, rm_functions, loaded, device>>
    BY <2>1 DEF Performs
  <2>3. ModulesAgree(b)'
    BY <1>0, <2>1, <2>2, ModulesKept
  <2>4. ASSUME Placement = "fresh" PROVE ObjectsAgree(b)'
    BY <1>0, <1>4, <2>2, <2>4, ObjectsAfterBinding
  <2>5. Gone(r)'
    BY <2>1 DEF Gone
  <2> QED BY <1>0, <2>1, <2>2, <2>3, <2>4, <2>5 DEF Agrees
<1>5. ASSUME Selects(a, r, b) PROVE Agrees(b)' /\ Gone(r)'
  <2>1. b.modules = a.modules /\ b.functions = a.functions /\ b.device = r.handle
        /\ b.objects = a.objects /\ r.fn = "set_device"
    BY <1>5 DEF Selects, Sound, Cores
  <2>2. device' = r.handle
        /\ UNCHANGED <<map, restored, live, rm_modules, rm_functions, loaded>>
    BY <2>1 DEF Performs
  <2>3. ModulesAgree(b)' /\ (Placement = "fresh" => ObjectsAgree(b)')
    BY <1>0, <2>1, <2>2, ModulesKept, ObjectsKept
  <2>4. Gone(r)'
    BY <2>1 DEF Gone
  <2> QED BY <2>1, <2>2, <2>3, <2>4 DEF Agrees
<1>6. ASSUME Loads(a, r, b) PROVE Agrees(b)' /\ Gone(r)'
  <2>1. r.fn = "elf_load"
    BY <1>6 DEF Loads
  <2>2. UNCHANGED <<map, restored, live, rm_functions, device>>
    BY <2>1 DEF Performs
  <2>3. PICK p \in Handle \ DOMAIN loaded :
          /\ loaded' = With(loaded, p, [key |-> r.key, dev |-> device])
          /\ rm_modules' = With(rm_modules, r.key, p)
    BY <2>1 DEF Performs
  <2>4. ModulesAgree(b)' /\ b.device = a.device /\ b.objects = a.objects
    BY <1>0, <1>6, <2>2, <2>3, ModulesAfterLoad
  <2>5. (Placement = "fresh" => ObjectsAgree(b)') /\ Gone(r)'
    BY <1>0, <2>1, <2>2, <2>4, ObjectsKept DEF Gone
  <2> QED BY <1>0, <2>2, <2>4, <2>5 DEF Agrees
<1>7. ASSUME Registers(a, r, b) PROVE Agrees(b)' /\ Gone(r)'
  <2>1. r.fn = "register"
    BY <1>7 DEF Registers
  <2>2. Registered(r.name, r.key)
        /\ UNCHANGED <<map, restored, live, rm_modules, loaded, device>>
    BY <2>1 DEF Performs
  <2>3. ModulesAgree(b)' /\ b.device = a.device /\ b.objects = a.objects
    BY <1>0, <1>7, <2>2, ModulesAfterRegister
  <2>4. (Placement = "fresh" => ObjectsAgree(b)') /\ Gone(r)'
    BY <1>0, <2>1, <2>2, <2>3, ObjectsKept DEF Gone
  <2> QED BY <1>0, <2>2, <2>3, <2>4 DEF Agrees
<1> QED BY <1>1, <1>2, <1>3, <1>4, <1>5, <1>6, <1>7 DEF Follows

------------------------------------------------------------------------------
(* What the recorder's lists tell.                                         *)

(* By the records rs, the client holds a.                                  *)
Told(rs, a) == \E t : History(rs, t) /\ t[Len(rs) + 1] = a

LastIs(rs, r) == Len(rs) > 0 /\ rs[Len(rs)] = r

LEMMA CoreFacts ==
  ASSUME NEW c \in Clients
  PROVE  /\ Core(c) \in Cores /\ Core(c).device = c.device /\ Core(c).modules = c.modules
         /\ Core(c).functions = c.functions
         /\ \A k \in TKinds : Core(c).objects[k] = c.objects[k]
         /\ Core(c).objects \in [TKinds -> Objects]
<1>1. \A k \in TKinds : c.objects[k] \in Objects
  BY StreamIsTranslated DEF Clients, Tables
<1>2. [k \in TKinds |-> c.objects[k]] \in [TKinds -> Objects]
  BY <1>1
<1> QED BY <1>2, ClientType DEF Core, Cores

LEMMA NewClientFacts ==
  /\ NewClient \in Clients /\ Sound(Core(NewClient)) /\ Core(NewClient).device = 0
  /\ Core(NewClient).modules = Nothing /\ Core(NewClient).functions = Nothing
  /\ \A k \in TKinds : Core(NewClient).objects[k] = Nothing
<1>1. NewClient \in Clients
  BY NewClientType, Zenon DEF Clients
<1>2. Core(NewClient).device = 0 /\ Core(NewClient).modules = Nothing
      /\ Core(NewClient).functions = Nothing
  BY DEF Core, NewClient
<1>3. \A k \in TKinds : Core(NewClient).objects[k] = Nothing
  BY StreamIsTranslated DEF Core, NewClient, NoObjects
<1>4. DOMAIN Nothing = {}
  BY DEF Nothing
<1>5. Sound(Core(NewClient))
  BY <1>1, <1>2, <1>3, <1>4, CoreFacts, FS_EmptySet, StreamIsTranslated DEF Sound
<1> QED BY <1>1, <1>2, <1>3, <1>5

LEMMA ToldFirst == Told(<<>>, Core(NewClient))
<1> DEFINE t == [n \in {1} |-> Core(NewClient)]
<1>1. t[1] = Core(NewClient) /\ Sound(t[1])
  BY NewClientFacts
<1> HIDE DEF t
<1>2. History(<<>>, t)
  BY <1>1 DEF History
<1> QED BY <1>1, <1>2 DEF Told

LEMMA ToldSound == ASSUME NEW rs \in Seq(Records), NEW a, Told(rs, a) PROVE Sound(a)
BY DEF Told, History

LEMMA ToldNext ==
  ASSUME NEW rs \in Seq(Records), NEW a, NEW b, NEW r \in Records, Told(rs, a),
         Follows(a, r, b), Late(a, r) => LastIs(rs, r)
  PROVE  Told(Append(rs, r), b)
<1> DEFINE N == Len(rs)
           rs2 == Append(rs, r)
<1>1. PICK t : History(rs, t) /\ t[N + 1] = a
  BY DEF Told
<1> DEFINE u == [n \in 1 .. N + 2 |-> IF n = N + 2 THEN b ELSE t[n]]
<1>2. N \in Nat /\ Len(rs2) = N + 1 /\ rs2[N + 1] = r /\ \A n \in 1 .. N : rs2[n] = rs[n]
  OBVIOUS
<1>3. u[N + 2] = b /\ \A n \in 1 .. N + 1 : u[n] = t[n]
  BY <1>2
<1> HIDE DEF u, rs2, N
<1>4. /\ t[1] = Core(NewClient)
      /\ \A n \in 1 .. N + 1 : Sound(t[n])
      /\ \A n \in 1 .. N : Follows(t[n], rs[n], t[n + 1])
      /\ \A n \in 1 .. N : Late(t[n], rs[n]) => n > 1 /\ rs[n - 1] = rs[n]
  BY <1>1 DEF History, N
<1>5. Sound(b)
  BY <1>1, <1>2, <1>4, FollowsSound
<1>6. u[1] = Core(NewClient)
  BY <1>2, <1>3, <1>4
<1>7. ASSUME NEW n \in 1 .. N + 2 PROVE Sound(u[n])
  <2>1. CASE n = N + 2
    BY <1>3, <1>5, <2>1
  <2>2. CASE n # N + 2
    <3>1. n \in 1 .. N + 1
      BY <1>2, <2>2
    <3> QED BY <1>3, <1>4, <3>1
  <2> QED BY <2>1, <2>2
<1>8. ASSUME NEW n \in 1 .. N + 1
      PROVE  /\ Follows(u[n], rs2[n], u[n + 1])
             /\ Late(u[n], rs2[n]) => n > 1 /\ rs2[n - 1] = rs2[n]
  <2>1. CASE n = N + 1
    <3>1. u[n] = a /\ rs2[n] = r /\ u[n + 1] = b
      BY <1>1, <1>2, <1>3, <2>1
    <3>2. Late(a, r) => n > 1 /\ rs2[n - 1] = r
      <4>1. SUFFICES ASSUME Late(a, r) PROVE n > 1 /\ rs2[n - 1] = r
        OBVIOUS
      <4>2. N > 0 /\ rs[N] = r
        BY <4>1 DEF LastIs, N
      <4> QED BY <1>2, <2>1, <4>2
    <3> QED BY <3>1, <3>2
  <2>2. CASE n # N + 1
    <3>1. n \in 1 .. N /\ n + 1 \in 1 .. N + 1 /\ n \in 1 .. N + 1
      BY <1>2, <2>2
    <3>2. u[n] = t[n] /\ u[n + 1] = t[n + 1] /\ rs2[n] = rs[n]
      BY <1>2, <1>3, <3>1
    <3>3. Follows(u[n], rs2[n], u[n + 1])
      BY <1>4, <3>1, <3>2
    <3>4. ASSUME Late(u[n], rs2[n]) PROVE n > 1 /\ rs2[n - 1] = rs2[n]
      <4>1. n > 1 /\ rs[n - 1] = rs[n]
        BY <1>4, <3>1, <3>2, <3>4
      <4>2. n - 1 \in 1 .. N
        BY <1>2, <3>1, <4>1
      <4> QED BY <1>2, <3>2, <4>1, <4>2
    <3> QED BY <3>3, <3>4
  <2> QED BY <2>1, <2>2
<1>9. History(rs2, u)
  <2>1. Len(rs2) + 1 = N + 2
    BY <1>2
  <2> QED BY <1>2, <1>6, <1>7, <1>8, <2>1 DEF History
<1>10. u[Len(rs2) + 1] = b
  BY <1>2, <1>3
<1> QED BY <1>9, <1>10 DEF Told, rs2

(* A record of the replay's, and that of the handler it calls.             *)
LEMMA ToldTwice ==
  ASSUME NEW rs \in Seq(Records), NEW a, NEW b, NEW r \in Records, Told(rs, a),
         Follows(a, r, b), Late(a, r) => LastIs(rs, r),
         r.fn # "elf_load", r.fn = "create" => r.kind \notin TKinds
  PROVE  Told(rs \o <<r, r>>, b)
<1>1. Told(Append(rs, r), b) /\ Append(rs, r) \in Seq(Records)
  BY ToldNext
<1>2. Follows(b, r, b)
  BY TwiceIsOnce, ToldSound
<1>3. LastIs(Append(rs, r), r)
  BY DEF LastIs
<1>4. Told(Append(Append(rs, r), r), b)
  BY <1>1, <1>2, <1>3, ToldNext
<1>5. Append(Append(rs, r), r) = rs \o <<r, r>>
  OBVIOUS
<1> QED BY <1>4, <1>5

------------------------------------------------------------------------------
(***************************************************************************)
(* The inductive invariant.  A server that serves a client agrees with     *)
(* what its list of records tells, and the list tells what the client      *)
(* holds.  A replay agrees with what the file told after the records that  *)
(* were replayed, and so does the list it has written meanwhile, which has *)
(* some of them twice.                                                     *)
(***************************************************************************)

(* Nothing is left of a server that is down. *)
Quiet ==
  mode = "down" =>
    /\ live = NoObjects /\ map = NoObjects /\ loaded = Nothing
    /\ rm_modules = Nothing /\ rm_functions = Nothing
    /\ device = 0 /\ api_records = <<>>

Covered == checkpoint = "complete" => Told(file_records, Core(saved))

Up == Settled => \A a : a = Core(client) => Told(api_records, a) /\ Agrees(a)

(* The second of two destructions of an object finds it gone. *)
Repeats(r) ==
  r.fn = "destroy" /\ r.kind \in TKinds => LastIs(api_records, r) /\ Gone(r)

CaughtUp(t) ==
  /\ \A a : a = t[pos] => Agrees(a) /\ Told(api_records, a)
  /\ \A r : pos > 1 /\ r = file_records[pos - 1] => Repeats(r)

Replaying ==
  mode = "restoring" =>
    /\ restored /\ client = saved
    /\ faithful => /\ checkpoint = "complete"
                   /\ \E t : /\ History(file_records, t)
                             /\ t[Len(file_records) + 1] = Core(saved)
                             /\ CaughtUp(t)

IInv == Typed /\ Quiet /\ Covered /\ Up /\ Replaying

LEMMA AgreesAtFirst ==
  ASSUME live = NoObjects, map = NoObjects, loaded = Nothing, rm_modules = Nothing,
         rm_functions = Nothing, device = 0, NEW a, a = Core(NewClient)
  PROVE  Agrees(a)
<1>1. DOMAIN Nothing = {}
  BY DEF Nothing
<1>2. a.device = 0 /\ a.modules = Nothing /\ a.functions = Nothing
      /\ \A k \in TKinds : a.objects[k] = Nothing
  BY NewClientFacts
<1>3. \A k \in TKinds : live[k] = Nothing
  BY StreamIsTranslated DEF NoObjects
<1>4. ModulesAgree(a)
  BY <1>1, <1>2 DEF ModulesAgree
<1>5. ASSUME NEW k \in TKinds
      PROVE  Match(a.objects[k], live[k], Lookup[k], Lookup["stream"])
  <2>1. a.objects[k] = Nothing /\ live[k] = Nothing
    BY <1>2, <1>3
  <2>2. Match(Nothing, Nothing, Lookup[k], Lookup["stream"])
    BY <1>1 DEF Match
  <2> QED BY <2>1, <2>2
<1> QED BY <1>2, <1>4, <1>5 DEF Agrees, ObjectsAgree

LEMMA InvInit == Init => IInv
<1> SUFFICES ASSUME Init PROVE IInv
  OBVIOUS
<1>1. /\ live = NoObjects /\ map = NoObjects /\ loaded = Nothing
      /\ rm_modules = Nothing /\ rm_functions = Nothing /\ device = 0
      /\ api_records = <<>> /\ client = NewClient /\ mode = "serving"
      /\ checkpoint = "none"
  BY DEF Init
<1>2. Up
  <2>1. ASSUME NEW a, a = Core(client) PROVE Told(api_records, a) /\ Agrees(a)
    BY <1>1, <2>1, ToldFirst, AgreesAtFirst
  <2> QED BY <2>1 DEF Up
<1> QED BY <1>1, <1>2, TypeInit DEF IInv, Quiet, Covered, Replaying

(* A call of the client's. *)
LEMMA Served ==
  ASSUME IInv, Typed', mode = "serving", mode' = mode, faithful' = faithful,
         UNCHANGED <<files, saved, checkpoint>>,
         NEW r \in Records, Recorded(r), Performs(r),
         \A a, b : Settled /\ a = Core(client) /\ b = Core(client)' /\ Agrees(a) /\ Sound(a) =>
                     Follows(a, r, b) /\ ~ Late(a, r)
  PROVE  IInv'
<1>1. Up'
  <2>1. SUFFICES ASSUME Settled', NEW b, b = Core(client)'
                 PROVE  Told(api_records', b) /\ Agrees(b)'
    BY DEF Up
  <2>2. Settled
    BY <2>1 DEF Settled
  <2>3. PICK a : a = Core(client)
    OBVIOUS
  <2>4. Told(api_records, a) /\ Agrees(a)
    BY <2>2, <2>3 DEF IInv, Up
  <2>5. Sound(a) /\ api_records \in Seq(Records) /\ TypeOK
    BY <2>4, ToldSound DEF IInv, Typed
  <2>6. Follows(a, r, b) /\ ~ Late(a, r)
    BY <2>1, <2>2, <2>3, <2>4, <2>5
  <2>7. Told(api_records', b)
    BY <2>4, <2>5, <2>6, ToldNext DEF Recorded
  <2>8. Harmless(a, r)
    BY <2>6 DEF Harmless, Late
  <2>9. Agrees(b)'
    BY <2>4, <2>5, <2>6, <2>8, AgreesAfter
  <2> QED BY <2>7, <2>9
<1>2. Covered'
  BY DEF IInv, Covered, files
<1> QED BY <1>1, <1>2 DEF IInv, Quiet, Replaying

(* A record of the replay's. *)
LEMMA ReplayedOne ==
  ASSUME IInv, Typed', Restoring, GoOn, UNCHANGED <<restored, files, client, saved, checkpoint>>,
         NEW r \in Records, r = Replayed, Performs(r),
         \A a, b : Told(api_records, a) /\ Follows(a, r, b)
                   /\ (Late(a, r) => LastIs(api_records, r)) => Told(api_records', b),
         r.fn = "destroy" => LastIs(api_records', r)
  PROVE  IInv'
<1>1. mode = "restoring" /\ mode' = "restoring" /\ faithful' = faithful /\ pos' = pos + 1
      /\ pos \in 1 .. Len(file_records) /\ file_records' = file_records /\ TypeOK
      /\ r = file_records[pos] /\ Len(file_records) \in Nat
  BY ReplayedType DEF Restoring, GoOn, IInv, Typed, files
<1>2. Replaying'
  <2>1. restored' /\ client' = saved'
    BY <1>1 DEF IInv, Replaying
  <2>2. SUFFICES ASSUME faithful
                 PROVE  /\ checkpoint = "complete"
                        /\ \E t : /\ History(file_records, t)
                                  /\ t[Len(file_records) + 1] = Core(saved)
                                  /\ CaughtUp(t)'
    BY <1>1, <2>1 DEF Replaying
  <2>3. PICK t : /\ History(file_records, t) /\ t[Len(file_records) + 1] = Core(saved)
                 /\ CaughtUp(t)
    BY <1>1, <2>2 DEF IInv, Replaying
  <2>4. PICK a : a = t[pos]
    OBVIOUS
  <2>5. PICK b : b = t[pos + 1]
    OBVIOUS
  <2>6. Sound(a) /\ Follows(a, r, b)
        /\ (Late(a, r) => pos > 1 /\ file_records[pos - 1] = r)
    BY <1>1, <2>3, <2>4, <2>5 DEF History
  <2>7. Agrees(a) /\ Told(api_records, a)
    BY <2>3, <2>4 DEF CaughtUp
  <2>8. Late(a, r) => LastIs(api_records, r) /\ Gone(r)
    <3>1. SUFFICES ASSUME Late(a, r) PROVE LastIs(api_records, r) /\ Gone(r)
      OBVIOUS
    <3>2. Repeats(r)
      BY <2>3, <2>6, <3>1 DEF CaughtUp
    <3> QED BY <3>1, <3>2 DEF Repeats, Late
  <2>9. Harmless(a, r)
    BY <2>8 DEF Harmless, Late, Gone
  <2>10. Agrees(b)' /\ Gone(r)'
    BY <1>1, <2>6, <2>7, <2>9, AgreesAfter
  <2>11. Told(api_records', b)
    BY <2>6, <2>7, <2>8
  <2>12. Repeats(r)'
    BY <2>10 DEF Repeats
  <2>13. ASSUME NEW c, c = t[pos'] PROVE Agrees(c)' /\ Told(api_records', c)
    <3>1. c = b
      BY <1>1, <2>5, <2>13
    <3> QED BY <2>10, <2>11, <3>1
  <2>14. ASSUME NEW q, q = file_records'[pos' - 1] PROVE Repeats(q)'
    <3>1. q = r
      BY <1>1, <2>14
    <3> QED BY <2>12, <3>1
  <2>15. CaughtUp(t)'
    BY <2>13, <2>14 DEF CaughtUp
  <2>16. checkpoint = "complete"
    BY <1>1, <2>2 DEF IInv, Replaying
  <2> QED BY <2>3, <2>15, <2>16
<1>3. Covered'
  BY DEF IInv, Covered, files
<1> QED BY <1>1, <1>2, <1>3 DEF IInv, Quiet, Up, Settled

------------------------------------------------------------------------------
(* One lemma for each action: what is recorded is what was done.           *)

LEMMA CreateInv ==
  ASSUME IInv, Typed', NEW k \in Kinds, NEW c \in Confs, create(k, c)
  PROVE  IInv'
<1>1. PICK h \in Places(k) :
        /\ live' = Created(live, k, h, c, device)
        /\ client' = [client EXCEPT !.objects = Created(@, k, h, c, client.device)]
        /\ Recorded(Create(k, h, c))
  BY DEF create
<1> DEFINE r == Create(k, h, c)
<1>2. h \in Handle \ DOMAIN live[k] /\ TypeOK /\ client \in Clients
  BY TypeFacts DEF IInv, Typed
<1>3. r \in Records
  BY <1>2, CreateIsRecord DEF r
<1>4. r.fn = "create" /\ r.kind = k /\ r.handle = h /\ r.conf = c
  BY DEF Create, Blank
<1> HIDE DEF r
<1>5. mode = "serving" /\ UNCHANGED <<mode, pos, restored, map, rm_modules, rm_functions,
                                      loaded, device, files, saved, checkpoint, faithful>>
  BY DEF create, Serving, managers, ghosts
<1>6. Placement = "fresh" => resource_mg_get(k, h) = h
  BY <1>1, <1>5 DEF Places, resource_mg_get
<1>7. Performs(r)
  <2>1. ASSUME k \in TKinds, Placement = "fresh", NEW j \in TKinds, NEW g \in Handle
        PROVE  Lookup'[j][g] = IF j = k /\ g = h THEN h ELSE Lookup[j][g]
    <3>1. Lookup' = Lookup
      BY <1>5, LookupKept
    <3>2. Lookup[k][h] = h
      BY <1>2, <1>6, <2>1, LookupFacts
    <3> QED BY <3>1, <3>2
  <2> QED BY <1>1, <1>2, <1>4, <1>5, <2>1 DEF Performs
<1>8. ASSUME NEW a, NEW b, Settled, a = Core(client), b = Core(client)', Agrees(a), Sound(a)
      PROVE  Follows(a, r, b) /\ ~ Late(a, r)
  <2>1. /\ client'.objects = Created(client.objects, k, h, c, client.device)
        /\ client'.device = client.device /\ client'.modules = client.modules
        /\ client'.functions = client.functions
    BY <1>1, <1>2 DEF Clients
  <2>2. b = [objects |-> [j \in TKinds |-> client'.objects[j]], device |-> client.device,
             modules |-> client.modules, functions |-> client.functions]
    BY <1>8, <2>1 DEF Core
  <2>3. a = [objects |-> [j \in TKinds |-> client.objects[j]], device |-> client.device,
             modules |-> client.modules, functions |-> client.functions]
    BY <1>8 DEF Core
  <2>4. client.objects \in Tables
    BY <1>2 DEF Clients
  <2>5. CASE k \in TKinds
    <3> DEFINE new == With(client.objects[k], h, [conf |-> c, dev |-> client.device, on |-> None])
    <3>1. client'.objects = [client.objects EXCEPT ![k] = new]
      BY <2>1 DEF Created
    <3> HIDE DEF new
    <3>2. [j \in TKinds |-> client'.objects[j]]
            = [[j \in TKinds |-> client.objects[j]] EXCEPT ![k] = new]
      BY <2>4, <2>5, <3>1, StreamIsTranslated DEF Tables
    <3>3. b = [a EXCEPT !.objects[k] = new]
      BY <2>2, <2>3, <3>2
    <3>4. a.objects[k] = client.objects[k] /\ a.device = client.device
      BY <2>3, <2>5
    <3>5. ASSUME Placement = "fresh", h \in DOMAIN a.objects[k] PROVE FALSE
      <4>1. Lookup[k][h] = h
        BY <1>2, <1>6, <2>5, <3>5, LookupFacts
      <4>2. Match(a.objects[k], live[k], Lookup[k], Lookup["stream"])
        BY <1>8, <2>5, <3>5 DEF Agrees, ObjectsAgree
      <4>3. Lookup[k][h] \in DOMAIN live[k]
        BY <3>5, <4>2 DEF Match
      <4> QED BY <1>2, <4>1, <4>3
    <3>6. b = [a EXCEPT !.objects[r.kind] =
                 With(@, r.handle, [conf |-> r.conf, dev |-> a.device, on |-> None])]
      BY <1>4, <2>3, <2>5, <3>3, <3>4 DEF new
    <3>7. Creates(a, r, b)
      BY <1>4, <2>5, <3>5, <3>6 DEF Creates
    <3> QED BY <1>4, <3>7 DEF Follows, Late
  <2>6. CASE k \notin TKinds
    <3>1. \A j \in TKinds : client'.objects[j] = client.objects[j]
      BY <2>1, <2>4, <2>6, StreamIsTranslated DEF Created, Tables
    <3>2. b = a
      BY <2>2, <2>3, <3>1
    <3> QED BY <1>4, <2>6, <3>2 DEF Follows, OfRepeated, Late
  <2> QED BY <2>5, <2>6
<1> QED BY <1>1, <1>3, <1>5, <1>7, <1>8, Served DEF r

LEMMA DestroyInv ==
  ASSUME IInv, Typed', NEW k \in Kinds, NEW h \in DOMAIN client.objects[k], destroy(k, h)
  PROVE  IInv'
<1> DEFINE r == Destroy(k, h)
<1>1. live' = Destroyed(live, k, resource_mg_get(k, h)) /\ Recorded(r)
      /\ client' = [client EXCEPT !.objects = Destroyed(@, k, h)]
  BY DEF destroy
<1>2. h \in Handle /\ TypeOK /\ client \in Clients
  BY TypeFacts DEF IInv, Typed
<1>3. r \in Records
  BY <1>2 DEF Destroy, Blank, Records, Record, WellFormed
<1>4. r.fn = "destroy" /\ r.kind = k /\ r.handle = h
  BY DEF Destroy, Blank
<1> HIDE DEF r
<1>5. mode = "serving" /\ UNCHANGED <<mode, pos, restored, map, rm_modules, rm_functions,
                                      loaded, device, files, saved, checkpoint, faithful>>
  BY DEF destroy, Serving, managers, ghosts
<1>6. Performs(r)
  BY <1>1, <1>4, <1>5 DEF Performs
<1>7. ASSUME NEW a, NEW b, Settled, a = Core(client), b = Core(client)', Agrees(a), Sound(a)
      PROVE  Follows(a, r, b) /\ ~ Late(a, r)
  <2>1. /\ client'.objects = Destroyed(client.objects, k, h)
        /\ client'.device = client.device /\ client'.modules = client.modules
        /\ client'.functions = client.functions
    BY <1>1, <1>2 DEF Clients
  <2>2. b = [objects |-> [j \in TKinds |-> client'.objects[j]], device |-> client.device,
             modules |-> client.modules, functions |-> client.functions]
    BY <1>7, <2>1 DEF Core
  <2>3. a = [objects |-> [j \in TKinds |-> client.objects[j]], device |-> client.device,
             modules |-> client.modules, functions |-> client.functions]
    BY <1>7 DEF Core
  <2>4. client.objects \in Tables
    BY <1>2 DEF Clients
  <2>5. CASE k \in TKinds
    <3>1. [j \in TKinds |-> client'.objects[j]] = Ended(a.objects, k, h)
      BY <2>1, <2>3, <2>5, StreamIsTranslated DEF Destroyed, Ended
    <3>2. b = [a EXCEPT !.objects = Ended(a.objects, k, h)]
      BY <2>2, <2>3, <3>1
    <3>3. a.objects[k] = client.objects[k]
      BY <2>3, <2>5
    <3> QED BY <1>4, <2>5, <3>2, <3>3 DEF Follows, Ends, Late
  <2>6. CASE k \notin TKinds
    <3>1. ASSUME NEW j \in TKinds PROVE client'.objects[j] = client.objects[j]
      <4>1. k # "stream" /\ j # k /\ j \in Kinds /\ client.objects[j] \in Objects
        BY <2>4, <2>6, StreamIsTranslated DEF Tables
      <4>2. client'.objects[j] = [x \in DOMAIN client.objects[j] |-> client.objects[j][x]]
        BY <2>1, <4>1 DEF Destroyed
      <4> QED BY <4>1, <4>2, MapIs DEF Objects
    <3>2. b = a
      BY <2>2, <2>3, <3>1
    <3> QED BY <1>4, <2>6, <3>2 DEF Follows, OfRepeated, Late
  <2> QED BY <2>5, <2>6
<1> QED BY <1>1, <1>3, <1>5, <1>6, <1>7, Served

LEMMA BindInv ==
  ASSUME IInv, Typed', NEW k \in Kinds, NEW h \in DOMAIN client.objects[k],
         NEW s \in DOMAIN client.objects["stream"], bind(k, h, s)
  PROVE  IInv'
<1> DEFINE r == Bind(k, h, s)
<1>1. /\ live' = Bound(live, k, resource_mg_get(k, h), resource_mg_get("stream", s))
      /\ client' = [client EXCEPT !.objects = Bound(@, k, h, s)] /\ Recorded(r)
      /\ k # "stream"
  BY DEF bind
<1>2. h \in Handle /\ s \in Handle /\ TypeOK /\ client \in Clients /\ client.objects \in Tables
  BY KindsAreKnown, TypeFacts DEF IInv, Typed
<1>3. r \in Records
  BY <1>1, <1>2 DEF Bind, Blank, Records, Record, WellFormed
<1>4. r.fn = "bind" /\ r.kind = k /\ r.handle = h /\ r.on = s
  BY DEF Bind, Blank
<1> HIDE DEF r
<1>5. mode = "serving" /\ UNCHANGED <<mode, pos, restored, map, rm_modules, rm_functions,
                                      loaded, device, files, saved, checkpoint, faithful>>
  BY DEF bind, Serving, managers, ghosts
<1>6. Performs(r)
  BY <1>1, <1>4, <1>5 DEF Performs
<1>7. ASSUME NEW a, NEW b, Settled, a = Core(client), b = Core(client)', Agrees(a), Sound(a)
      PROVE  Follows(a, r, b) /\ ~ Late(a, r)
  <2>1. /\ client'.objects = [client.objects EXCEPT ![k][h].on = s]
        /\ client'.device = client.device /\ client'.modules = client.modules
        /\ client'.functions = client.functions
    BY <1>1, <1>2 DEF Clients, Bound
  <2>2. b = [objects |-> [j \in TKinds |-> client'.objects[j]], device |-> client.device,
             modules |-> client.modules, functions |-> client.functions]
    BY <1>7, <2>1 DEF Core
  <2>3. a = [objects |-> [j \in TKinds |-> client.objects[j]], device |-> client.device,
             modules |-> client.modules, functions |-> client.functions]
    BY <1>7 DEF Core
  <2>4. CASE k \in TKinds
    <3> DEFINE new == [client.objects[k] EXCEPT ![h].on = s]
    <3>1. client'.objects = [client.objects EXCEPT ![k] = new]
      BY <2>1
    <3>2. a.objects[k] = client.objects[k] /\ a.objects["stream"] = client.objects["stream"]
      BY <2>3, <2>4, StreamIsTranslated
    <3>3. [a.objects EXCEPT ![k][h].on = s] = [a.objects EXCEPT ![k] = new]
      BY <3>2
    <3> HIDE DEF new
    <3>4. \A j \in TKinds : client'.objects[j] = IF j = k THEN new ELSE client.objects[j]
      BY <1>2, <3>1, StreamIsTranslated DEF Tables
    <3>5. [j \in TKinds |-> client'.objects[j]] = [a.objects EXCEPT ![k] = new]
      BY <2>3, <2>4, <3>4
    <3>6. b = [a EXCEPT !.objects = [a.objects EXCEPT ![k][h].on = s]]
      BY <2>2, <2>3, <3>3, <3>5, SMTT(30)
    <3>7. b = [a EXCEPT !.objects[k][h].on = s]
      BY <3>6
    <3> QED BY <1>4, <2>4, <3>2, <3>7 DEF Follows, Binds, Late
  <2>5. CASE k \notin TKinds
    <3>1. \A j \in TKinds : client'.objects[j] = client.objects[j]
      BY <1>2, <2>1, <2>5, StreamIsTranslated DEF Tables
    <3>2. b = a
      BY <2>2, <2>3, <3>1
    <3> QED BY <1>4, <2>5, <3>2 DEF Follows, OfRepeated, Late
  <2> QED BY <2>4, <2>5
<1> QED BY <1>1, <1>3, <1>5, <1>6, <1>7, Served

LEMMA SetDeviceInv ==
  ASSUME IInv, Typed', NEW d \in Devices, cuda_set_device(d)
  PROVE  IInv'
<1> DEFINE r == SetDevice(d)
<1>1. device' = d /\ client' = [client EXCEPT !.device = d] /\ Recorded(r)
      /\ mode = "serving"
      /\ UNCHANGED <<mode, map, restored, rm_modules, rm_functions, live, loaded, files,
                     saved, checkpoint, faithful>>
  BY DEF cuda_set_device, Serving, managers, ghosts
<1>2. r \in Records
  BY KindsAreKnown DEF SetDevice, Blank, Records, Record, WellFormed
<1>3. r.fn = "set_device" /\ r.handle = d
  BY DEF SetDevice, Blank
<1> HIDE DEF r
<1>4. Performs(r)
  BY <1>1, <1>3 DEF Performs
<1>5. ASSUME NEW a, NEW b, a = Core(client), b = Core(client)'
      PROVE  Follows(a, r, b) /\ ~ Late(a, r)
  <2>1. client \in Clients
    BY DEF IInv, Typed
  <2>2. b = [a EXCEPT !.device = d]
    BY <1>1, <1>5, <2>1 DEF Core, Clients
  <2> QED BY <1>3, <2>2 DEF Follows, Selects, Late
<1> QED BY <1>1, <1>2, <1>4, <1>5, Served

LEMMA ElfLoadInv ==
  ASSUME IInv, Typed', NEW m \in Modules, rpc_elf_load(m)
  PROVE  IInv'
<1> DEFINE r == ElfLoad(m)
<1>1. /\ client' = [client EXCEPT !.modules = With(@, m, client.device)] /\ Recorded(r)
      /\ mode = "serving" /\ m \notin DOMAIN client.modules
      /\ UNCHANGED <<mode, map, restored, rm_functions, live, device, files, saved,
                     checkpoint, faithful>>
  BY DEF rpc_elf_load, Serving, ghosts
<1>2. \E p \in Handle \ DOMAIN loaded :
        /\ loaded' = With(loaded, p, [key |-> m, dev |-> device])
        /\ rm_modules' = With(rm_modules, m, p)
  BY DEF rpc_elf_load
<1>3. r \in Records
  BY KindsAreKnown DEF ElfLoad, Blank, Records, Record, WellFormed
<1>4. r.fn = "elf_load" /\ r.key = m
  BY DEF ElfLoad, Blank
<1> HIDE DEF r
<1>5. Performs(r)
  BY <1>1, <1>2, <1>4 DEF Performs
<1>6. ASSUME NEW a, NEW b, a = Core(client), b = Core(client)'
      PROVE  Follows(a, r, b) /\ ~ Late(a, r)
  <2>1. client \in Clients
    BY DEF IInv, Typed
  <2>2. a.modules = client.modules /\ a.device = client.device
    BY <1>6 DEF Core
  <2>3. b = [a EXCEPT !.modules = With(client.modules, m, client.device)]
    BY <1>1, <1>6, <2>1 DEF Core, Clients
  <2> QED BY <1>1, <1>4, <2>2, <2>3 DEF Follows, Loads, Late
<1> QED BY <1>1, <1>3, <1>5, <1>6, Served

LEMMA RegisterInv ==
  ASSUME IInv, Typed', NEW m \in DOMAIN client.modules, NEW f \in Functions,
         rpc_register_function(f, m)
  PROVE  IInv'
<1> DEFINE r == Register(f, m)
<1>1. /\ client' = [client EXCEPT !.functions = With(@, f, m)] /\ Recorded(r)
      /\ mode = "serving" /\ Registered(f, m)
      /\ UNCHANGED <<mode, map, restored, rm_modules, live, loaded, device, files, saved,
                     checkpoint, faithful>>
  BY DEF rpc_register_function, Serving, gpu, ghosts
<1>2. client \in Clients /\ m \in Modules
  BY ClientType, MapIs DEF IInv, Typed
<1>3. r \in Records
  BY <1>2, KindsAreKnown DEF Register, Blank, Records, Record, WellFormed
<1>4. r.fn = "register" /\ r.key = m /\ r.name = f
  BY DEF Register, Blank
<1> HIDE DEF r
<1>5. Performs(r)
  BY <1>1, <1>4 DEF Performs
<1>6. ASSUME NEW a, NEW b, a = Core(client), b = Core(client)'
      PROVE  Follows(a, r, b) /\ ~ Late(a, r)
  <2>1. a.modules = client.modules /\ a.functions = client.functions
    BY <1>6 DEF Core
  <2>2. b = [a EXCEPT !.functions = With(client.functions, f, m)]
    BY <1>1, <1>2, <1>6 DEF Core, Clients
  <2> QED BY <1>4, <2>1, <2>2 DEF Follows, Registers, Late
<1> QED BY <1>1, <1>3, <1>5, <1>6, Served

LEMMA HandlerInv == ASSUME IInv, Typed', Handler PROVE IInv'
BY CreateInv, DestroyInv, BindInv, SetDeviceInv, ElfLoadInv, RegisterInv DEF Handler

LEMMA CheckpointInv ==
  ASSUME IInv, Typed', server_runtime_checkpoint \/ checkpoint_stale_elf \/ svc_exit
  PROVE  IInv'
<1>1. ASSUME Stop, checkpoint' \in {checkpoint, "damaged"},
             checkpoint' = checkpoint => UNCHANGED <<file_records, saved>>
      PROVE  IInv'
  <2>1. Quiet'
    BY <1>1 DEF Stop, Quiet
  <2>2. Covered'
    BY <1>1 DEF IInv, Covered
  <2> QED BY <1>1, <2>1, <2>2 DEF IInv, Up, Settled, Replaying, Stop
<1>2. CASE svc_exit
  <2>1. Stop /\ checkpoint' = checkpoint /\ UNCHANGED <<file_records, saved>>
    BY <1>2 DEF svc_exit, files
  <2> QED BY <1>1, <2>1
<1>3. CASE server_runtime_checkpoint
  <2>1. /\ mode = "serving" /\ file_records' = api_records /\ saved' = client
        /\ checkpoint' = (IF faithful THEN "complete" ELSE "damaged")
        /\ UNCHANGED <<mode, pos, restored, map, rm_modules, rm_functions, live, loaded,
                       device, api_records, client, faithful>>
    BY <1>3 DEF server_runtime_checkpoint, CanDump, Dump, managers, gpu
  <2>2. Covered'
    <3>1. SUFFICES ASSUME checkpoint' = "complete" PROVE Told(api_records, Core(client))
      BY <2>1 DEF Covered
    <3>2. Settled
      BY <2>1, <3>1 DEF Settled
    <3> QED BY <3>2 DEF IInv, Up
  <2>3. Up'
    <3>1. SUFFICES ASSUME Settled', NEW a, a = Core(client)'
                   PROVE  Told(api_records', a) /\ Agrees(a)'
      BY DEF Up
    <3>2. Settled /\ a = Core(client)
      BY <2>1, <3>1 DEF Settled, Core
    <3>3. Told(api_records, a) /\ Agrees(a)
      BY <3>2 DEF IInv, Up
    <3>4. Agrees(a)'
      BY <2>1, <3>3, LookupKept DEF Agrees, ModulesAgree, ObjectsAgree
    <3> QED BY <2>1, <3>3, <3>4
  <2> QED BY <2>1, <2>2, <2>3 DEF IInv, Quiet, Replaying
<1>4. CASE checkpoint_stale_elf
  <2>1. mode = "serving" /\ checkpoint' = "damaged"
    BY <1>4 DEF checkpoint_stale_elf, CanDump
  <2>2. CASE Stop
    <3>1. checkpoint # checkpoint' \/ UNCHANGED <<file_records, saved>>
          \/ checkpoint = "damaged"
      BY <2>1
    <3>2. Quiet' /\ Covered'
      BY <2>1, <2>2 DEF Stop, Quiet, Covered
    <3> QED BY <2>2, <3>2 DEF IInv, Up, Settled, Replaying, Stop
  <2>3. CASE UNCHANGED <<mode, pos, restored, managers, gpu, api_records, client, faithful>>
    <3>1. UNCHANGED <<mode, pos, restored, map, rm_modules, rm_functions, live, loaded,
                      device, api_records, client, faithful>>
      BY <2>3 DEF managers, gpu
    <3>2. Up'
      <4>1. SUFFICES ASSUME Settled', NEW a, a = Core(client)'
                     PROVE  Told(api_records', a) /\ Agrees(a)'
        BY DEF Up
      <4>2. Settled /\ a = Core(client)
        BY <3>1, <4>1 DEF Settled, Core
      <4>3. Told(api_records, a) /\ Agrees(a)
        BY <4>2 DEF IInv, Up
      <4>4. Agrees(a)'
        BY <3>1, <4>3, LookupKept DEF Agrees, ModulesAgree, ObjectsAgree
      <4> QED BY <3>1, <4>3, <4>4
    <3> QED BY <2>1, <3>1, <3>2 DEF IInv, Quiet, Covered, Replaying
  <2> QED BY <1>4, <2>2, <2>3 DEF checkpoint_stale_elf
<1> QED BY <1>2, <1>3, <1>4

LEMMA RestartInv ==
  ASSUME IInv, Typed', server_runtime_restore
  PROVE  IInv'
<1>1. /\ mode = "down" /\ mode' = "restoring" /\ pos' = 1 /\ restored' = TRUE
      /\ client' = saved /\ faithful' = (checkpoint = "complete")
      /\ UNCHANGED <<map, rm_modules, rm_functions, live, loaded, device, api_records,
                     file_records, file_elf, saved, checkpoint>>
  BY DEF server_runtime_restore, managers, gpu, files
<1>2. Covered'
  BY <1>1 DEF IInv, Covered
<1>3. Replaying'
  <2>1. SUFFICES ASSUME checkpoint = "complete"
                 PROVE  \E t : /\ History(file_records, t)
                               /\ t[Len(file_records) + 1] = Core(saved)
                               /\ CaughtUp(t)'
    BY <1>1 DEF Replaying
  <2>2. PICK t : History(file_records, t) /\ t[Len(file_records) + 1] = Core(saved)
    BY <2>1 DEF IInv, Covered, Told
  <2>3. live = NoObjects /\ map = NoObjects /\ loaded = Nothing /\ rm_modules = Nothing
        /\ rm_functions = Nothing /\ device = 0 /\ api_records = <<>>
    BY <1>1 DEF IInv, Quiet
  <2>4. ASSUME NEW a, a = t[pos'] PROVE Agrees(a)' /\ Told(api_records', a)
    <3>1. a = Core(NewClient)
      BY <1>1, <2>2, <2>4 DEF History
    <3>2. Agrees(a)'
      <4>1. Agrees(a)
        BY <2>3, <3>1, AgreesAtFirst
      <4>2. ASSUME NEW k \in TKinds, Match(a.objects[k], live[k], Lookup[k], Lookup["stream"])
            PROVE  Match(a.objects[k], live[k], Lookup'[k], Lookup'["stream"])
        <5>1. DOMAIN a.objects[k] = {}
          BY <3>1, NewClientFacts DEF Nothing
        <5>2. Same(a.objects[k], Lookup[k], Lookup["stream"], Lookup'[k], Lookup'["stream"])
          BY <5>1 DEF Same
        <5> QED BY <4>2, <5>2, MatchKept
      <4> QED BY <1>1, <4>1, <4>2 DEF Agrees, ObjectsAgree, ModulesAgree
    <3> QED BY <1>1, <2>3, <3>1, <3>2, ToldFirst
  <2>5. CaughtUp(t)'
    BY <1>1, <2>4 DEF CaughtUp
  <2> QED BY <2>2, <2>5
<1> QED BY <1>1, <1>2, <1>3 DEF IInv, Quiet, Up, Settled

LEMMA ReplayFacts ==
  ASSUME IInv, Restoring
  PROVE  /\ Replayed \in Records /\ Kept \in Records /\ api_records \in Seq(Records)
         /\ mode = "restoring" /\ restored /\ TypeOK
         /\ Replayed.fn # "elf_load" => Kept = Replayed
         /\ Kept = [Replayed EXCEPT !.image = FALSE]
BY ReplayedType, RecordFields DEF IInv, Typed, Replaying, Restoring

(* What a record that the replay keeps tells is what it was read to say.   *)
LEMMA KeptTells ==
  ASSUME NEW r \in Records, NEW q, q = [r EXCEPT !.image = FALSE], NEW rs \in Seq(Records),
         r.fn # "destroy",
         NEW a, NEW b, Told(rs, a), Follows(a, r, b)
  PROVE  Told(Append(rs, q), b)
<1>1. q \in Records
  BY RecordFields
<1>2. /\ q.fn = r.fn /\ q.kind = r.kind /\ q.handle = r.handle /\ q.on = r.on
      /\ q.conf = r.conf /\ q.key = r.key /\ q.name = r.name
  BY DEF Records, Record
<1>3. Follows(a, q, b)
  BY <1>2 DEF Follows, OfRepeated, Creates, Ends, Binds, Selects, Loads, Registers
<1>4. ~ Late(a, q)
  BY <1>2 DEF Late
<1> QED BY <1>1, <1>3, <1>4, ToldNext

LEMMA RestoreHandleInv == ASSUME IInv, Typed', cr_restore_handle PROVE IInv'
<1>1. PICK r \in Records : r = Replayed
  BY ReplayFacts DEF cr_restore_handle
<1>2. Restoring /\ r.fn = "create" /\ r.kind \in Translated /\ GoOn /\ Recorded(Kept)
      /\ UNCHANGED <<restored, rm_modules, rm_functions, loaded, device, files, client, saved,
                     checkpoint>>
  BY <1>1 DEF cr_restore_handle
<1>3. PICK p \in Places(r.kind) :
        /\ live' = Created(live, r.kind, p, r.conf, device)
        /\ map' = [map EXCEPT ![r.kind] = With(@, r.handle, p)]
  BY <1>1 DEF cr_restore_handle
<1>4. p \in Handle \ DOMAIN live[r.kind] /\ r.kind \in TKinds /\ r.kind \in Kinds
  BY <1>2, ReplayFacts, TypeFacts, RecordFields DEF TKinds
<1>5. ASSUME NEW k \in TKinds, NEW h \in Handle
      PROVE  Lookup'[k][h] = IF k = r.kind /\ h = r.handle THEN p ELSE Lookup[k][h]
  <2>1. k \in Kinds /\ k \in Translated /\ k \notin Repeated
    BY DEF TKinds, Translated, Repeated
  <2>2. ~ Bypassed(k) /\ ~ Bypassed(k)'
    BY <1>2, <2>1, ReplayFacts DEF Bypassed
  <2>3. map \in [Kinds -> Map(Handle, Handle)]
    BY <1>2, ReplayFacts DEF TypeOK
  <2>4. Lookup[k][h] = (IF h \notin DOMAIN map[k] THEN h ELSE map[k][h])
    BY <2>2 DEF Lookup, resource_mg_get
  <2>5. Lookup'[k][h] = (IF h \notin DOMAIN map'[k] THEN h ELSE map'[k][h])
    BY <2>2 DEF Lookup, resource_mg_get
  <2>6. CASE k = r.kind
    <3>1. map'[k] = With(map[k], r.handle, p)
      BY <1>3, <2>1, <2>3, <2>6
    <3> QED BY <2>4, <2>5, <2>6, <3>1 DEF With
  <2>7. CASE k # r.kind
    <3>1. map'[k] = map[k]
      BY <1>3, <2>1, <2>3, <2>7
    <3> QED BY <2>4, <2>5, <2>7, <3>1
  <2> QED BY <2>6, <2>7
<1>6. Performs(r)
  BY <1>2, <1>3, <1>4, <1>5 DEF Performs
<1>7. ASSUME NEW a, NEW b, Told(api_records, a), Follows(a, r, b)
      PROVE  Told(api_records', b)
  BY <1>1, <1>2, <1>7, ReplayFacts, KeptTells DEF Recorded
<1> QED BY <1>1, <1>2, <1>6, <1>7, ReplayedOne

LEMMA RestoreElfInv == ASSUME IInv, Typed', cr_restore_elf PROVE IInv'
<1>1. PICK r \in Records : r = Replayed
  BY ReplayFacts DEF cr_restore_elf, ElfIs
<1>2. Restoring /\ r.fn = "elf_load" /\ GoOn /\ Recorded(Kept)
      /\ UNCHANGED <<restored, map, rm_functions, live, device, files, client, saved,
                     checkpoint>>
  BY <1>1 DEF cr_restore_elf, ElfIs
<1>3. \E p \in Handle \ DOMAIN loaded :
        /\ loaded' = With(loaded, p, [key |-> r.key, dev |-> device])
        /\ rm_modules' = With(rm_modules, r.key, p)
  BY <1>1 DEF cr_restore_elf, ElfIs
<1>4. Performs(r)
  BY <1>2, <1>3 DEF Performs
<1>5. ASSUME NEW a, NEW b, Told(api_records, a), Follows(a, r, b)
      PROVE  Told(api_records', b)
  BY <1>1, <1>2, <1>5, ReplayFacts, KeptTells DEF Recorded
<1> QED BY <1>1, <1>2, <1>4, <1>5, ReplayedOne

LEMMA GivesUpInv == ASSUME IInv, Typed', restore_gives_up PROVE IInv'
<1>1. mode' = "serving" /\ faithful' = FALSE /\ UNCHANGED <<file_records, saved, checkpoint>>
  BY DEF restore_gives_up, files
<1>2. Covered'
  BY <1>1 DEF IInv, Covered
<1> QED BY <1>1, <1>2 DEF IInv, Quiet, Up, Settled, Replaying

LEMMA ElfPassesInv == ASSUME IInv, Typed', cr_restore_elf_passes PROVE IInv'
<1>1. /\ mode = "restoring" /\ mode' = mode /\ faithful' = FALSE
      /\ UNCHANGED <<restored, client, file_records, saved, checkpoint>>
  BY DEF cr_restore_elf_passes, ElfIs, Restoring, files
<1>2. Covered'
  BY <1>1 DEF IInv, Covered
<1>3. restored' /\ client' = saved'
  BY <1>1 DEF IInv, Replaying
<1> QED BY <1>1, <1>2, <1>3 DEF IInv, Quiet, Up, Settled, Replaying

LEMMA CrashInv == ASSUME IInv, Typed', cr_restore_elf_crashes PROVE IInv'
<1>1. Stop /\ UNCHANGED <<file_records, saved, checkpoint>>
  BY DEF cr_restore_elf_crashes, files
<1>2. Quiet' /\ Covered'
  BY <1>1 DEF Stop, Quiet, IInv, Covered
<1> QED BY <1>1, <1>2 DEF IInv, Up, Settled, Replaying, Stop

LEMMA CompleteInv == ASSUME IInv, Typed', restore_complete PROVE IInv'
<1>1. /\ mode = "restoring" /\ pos > Len(file_records) /\ mode' = "serving"
      /\ UNCHANGED <<pos, restored, map, rm_modules, rm_functions, live, loaded, device,
                     api_records, file_records, client, saved, checkpoint, faithful>>
  BY DEF restore_complete, managers, gpu, files, ghosts
<1>2. pos = Len(file_records) + 1
  BY <1>1 DEF IInv, Typed, TypeOK
<1>3. Up'
  <2>1. SUFFICES ASSUME Settled', NEW a, a = Core(client)'
                 PROVE  Told(api_records', a) /\ Agrees(a)'
    BY DEF Up
  <2>2. faithful /\ a = Core(saved)
    BY <1>1, <2>1 DEF IInv, Replaying, Settled, Core
  <2>3. PICK t : t[Len(file_records) + 1] = Core(saved) /\ CaughtUp(t)
    BY <1>1, <2>2 DEF IInv, Replaying
  <2>4. a = t[pos]
    BY <1>2, <2>2, <2>3
  <2>5. Told(api_records, a) /\ Agrees(a)
    BY <2>3, <2>4 DEF CaughtUp
  <2>6. Agrees(a)'
    BY <1>1, <2>5, LookupKept DEF Agrees, ModulesAgree, ObjectsAgree
  <2> QED BY <1>1, <2>5, <2>6
<1>4. Covered'
  BY <1>1 DEF IInv, Covered
<1> QED BY <1>1, <1>3, <1>4 DEF IInv, Quiet, Replaying

(* The records whose handlers the replay calls, but for creations.         *)
LEMMA AgainInv ==
  ASSUME IInv, Typed', Restoring, restored' = restored, NEW r \in Records, r = Replayed,
         Again(r), Performs(r), r.fn # "elf_load", r.fn # "create"
  PROVE  IInv'
<1>1. /\ api_records' = api_records \o <<r, r>> /\ GoOn
      /\ UNCHANGED <<restored, files, client, saved, checkpoint>>
  BY ReplayFacts DEF Again
<1>2. ASSUME NEW a, NEW b, Told(api_records, a), Follows(a, r, b),
             Late(a, r) => LastIs(api_records, r)
      PROVE  Told(api_records', b)
  BY <1>1, <1>2, ToldTwice, ReplayFacts
<1>3. LastIs(api_records', r)
  BY <1>1, ReplayFacts DEF LastIs
<1> QED BY <1>1, <1>2, <1>3, ReplayedOne

LEMMA CreateAgainInv == ASSUME IInv, Typed', create_again PROVE IInv'
<1>1. PICK r \in Records : r = Replayed
  BY ReplayFacts DEF create_again
<1>2. Restoring /\ r.fn = "create" /\ r.kind \in Repeated /\ UNCHANGED <<device, rm_functions>>
  BY <1>1 DEF create_again
<1>3. PICK p \in Places(r.kind) :
        /\ live' = Created(live, r.kind, p, r.conf, device)
        /\ Again([r EXCEPT !.handle = p])
  BY <1>1 DEF create_again
<1> DEFINE q == [r EXCEPT !.handle = p]
<1>4. p \in Handle \ DOMAIN live[r.kind] /\ r.kind \notin TKinds /\ r.kind \in Kinds
  BY <1>2, ReplayFacts, TypeFacts, RecordFields DEF TKinds, Repeated, Translated
<1>5. q \in Records /\ q.fn = "create" /\ q.kind = r.kind
  BY <1>2, <1>4, RecordFields DEF Records, Record
<1>6. /\ api_records' = api_records \o <<r, q>> /\ GoOn
      /\ UNCHANGED <<restored, map, rm_modules, loaded, files, client, saved, checkpoint>>
  BY <1>1, <1>2, <1>3, ReplayFacts DEF Again
<1> HIDE DEF q
<1>7. Performs(r)
  BY <1>2, <1>3, <1>4, <1>6 DEF Performs
<1>8. ASSUME NEW a, NEW b, Told(api_records, a), Follows(a, r, b)
      PROVE  Told(api_records', b)
  <2>1. OfRepeated(r) /\ OfRepeated(q) /\ ~ Late(a, r) /\ ~ Late(a, q)
    BY <1>2, <1>4, <1>5 DEF OfRepeated, Late
  <2>2. b = a
    BY <1>2, <1>4, <1>8 DEF Follows, Creates, Ends, Binds, Selects, Loads, Registers
  <2>3. api_records \in Seq(Records)
    BY <1>2, ReplayFacts
  <2>4. Told(Append(api_records, r), a) /\ Append(api_records, r) \in Seq(Records)
    BY <1>8, <2>1, <2>2, <2>3, ToldNext
  <2>5. Told(Append(Append(api_records, r), q), a)
    BY <1>5, <2>1, <2>4, ToldNext DEF Follows
  <2>6. Append(Append(api_records, r), q) = api_records \o <<r, q>>
    BY <1>5, <2>3
  <2> QED BY <1>6, <2>2, <2>5, <2>6
<1> QED BY <1>1, <1>2, <1>6, <1>7, <1>8, ReplayedOne

LEMMA CallRecordInv == ASSUME IInv, Typed', CallRecord PROVE IInv'
<1>1. Restoring
  BY DEF CallRecord, destroy_again, bind_again, create_again, set_device_again, register_again
<1>2. PICK r \in Records : r = Replayed
  BY <1>1, ReplayFacts
<1>3. CASE destroy_again
  <2>1. r.fn = "destroy" /\ Again(r) /\ UNCHANGED <<restored, map, rm_modules, loaded>>
        /\ live' = Destroyed(live, r.kind, resource_mg_get(r.kind, r.handle))
        /\ UNCHANGED <<device, rm_functions>>
    BY <1>2, <1>3 DEF destroy_again, Again
  <2>2. Performs(r)
    BY <2>1 DEF Performs
  <2> QED BY <1>1, <1>2, <2>1, <2>2, AgainInv
<1>4. CASE bind_again
  <2>1. r.fn = "bind" /\ Again(r) /\ UNCHANGED <<restored, map, rm_modules, loaded>>
        /\ live' = Bound(live, r.kind, resource_mg_get(r.kind, r.handle),
                         resource_mg_get("stream", r.on))
        /\ UNCHANGED <<device, rm_functions>>
    BY <1>2, <1>4 DEF bind_again, Again
  <2>2. Performs(r)
    BY <2>1 DEF Performs
  <2> QED BY <1>1, <1>2, <2>1, <2>2, AgainInv
<1>5. CASE set_device_again
  <2>1. r.fn = "set_device" /\ Again(r) /\ UNCHANGED <<restored, map, rm_modules, loaded>>
        /\ device' = r.handle /\ UNCHANGED <<live, rm_functions>>
    BY <1>2, <1>5 DEF set_device_again, Again
  <2>2. Performs(r)
    BY <2>1 DEF Performs
  <2> QED BY <1>1, <1>2, <2>1, <2>2, AgainInv
<1>6. CASE register_again
  <2>1. r.fn = "register" /\ Again(r) /\ UNCHANGED <<restored, map, rm_modules, loaded>>
        /\ Registered(r.name, r.key) /\ UNCHANGED <<live, device>>
    BY <1>2, <1>6 DEF register_again, Again
  <2>2. Performs(r)
    BY <2>1 DEF Performs
  <2> QED BY <1>1, <1>2, <2>1, <2>2, AgainInv
<1>7. CASE create_again
  BY <1>7, CreateAgainInv
<1> QED BY <1>3, <1>4, <1>5, <1>6, <1>7 DEF CallRecord

LEMMA InvNext == ASSUME IInv, [Next]_vars PROVE IInv'
<1>1. Typed'
  BY TypeNext DEF IInv
<1>2. CASE UNCHANGED vars
  <2>1. UNCHANGED <<mode, pos, restored, map, rm_modules, rm_functions, live, loaded, device,
                    api_records, file_records, client, saved, checkpoint, faithful>>
    BY <1>2 DEF vars, managers, gpu, files, ghosts
  <2>2. \A a : Agrees(a) => Agrees(a)'
    BY <2>1, LookupKept DEF Agrees, ModulesAgree, ObjectsAgree
  <2>3. \A r : Repeats(r) => Repeats(r)'
    BY <2>1 DEF Repeats, Gone, resource_mg_get, Bypassed
  <2>4. Up'
    BY <2>1, <2>2 DEF IInv, Up, Settled, Core
  <2>5. Replaying'
    BY <2>1, <2>2, <2>3 DEF IInv, Replaying, CaughtUp, Core
  <2>6. Quiet' /\ Covered'
    BY <2>1 DEF IInv, Quiet, Covered
  <2> QED BY <1>1, <2>4, <2>5, <2>6 DEF IInv
<1> QED BY <1>1, <1>2, HandlerInv, CheckpointInv, RestartInv, RestoreHandleInv, RestoreElfInv,
           GivesUpInv, ElfPassesInv, CrashInv, CallRecordInv, CompleteInv
        DEF Next

LEMMA InvAlways == Spec => []IInv
BY InvInit, InvNext, PTL DEF Spec

------------------------------------------------------------------------------
(* What follows for the client. *)

LEMMA WhatAgrees ==
  ASSUME IInv, Settled
  PROVE  \E a : a = Core(client) /\ Sound(a) /\ Agrees(a)
<1>1. PICK a : a = Core(client)
  OBVIOUS
<1>2. Told(api_records, a) /\ Agrees(a)
  BY <1>1 DEF IInv, Up
<1>3. Sound(a)
  BY <1>2, ToldSound DEF IInv, Typed
<1> QED BY <1>1, <1>2, <1>3

LEMMA HandleLeads ==
  ASSUME IInv, Settled, Placement = "fresh", NEW k \in TKinds
  PROVE  /\ IsFiniteSet(Held(k)) /\ Held(k) \subseteq Handle
         /\ DOMAIN live[k] = {resource_mg_get(k, h) : h \in Held(k)}
         /\ \A g, h \in Held(k) : resource_mg_get(k, g) = resource_mg_get(k, h) => g = h
         /\ \A h \in Held(k) :
              /\ resource_mg_get(k, h) \in DOMAIN live[k]
              /\ live[k][resource_mg_get(k, h)].conf = client.objects[k][h].conf
              /\ live[k][resource_mg_get(k, h)].dev = client.objects[k][h].dev
              /\ client.objects[k][h].on # None =>
                   live[k][resource_mg_get(k, h)].on
                     = resource_mg_get("stream", client.objects[k][h].on)
<1>1. PICK a : a = Core(client) /\ Sound(a) /\ Agrees(a)
  BY WhatAgrees
<1>2. a.objects[k] = client.objects[k]
  BY <1>1 DEF Core
<1>3. /\ IsFiniteSet(Held(k)) /\ Held(k) \subseteq Handle
      /\ \A h \in Held(k) : client.objects[k][h].on \in Handle \cup {None}
  <2>1. \A h \in DOMAIN a.objects[k] : a.objects[k][h] \in Object
    BY <1>1, SoundFacts
  <2> QED BY <1>1, <1>2, <2>1, SoundFacts DEF Sound, Held, Object
<1>4. Match(client.objects[k], live[k], Lookup[k], Lookup["stream"])
  BY <1>1, <1>2 DEF Agrees, ObjectsAgree
<1>5. \A h \in Held(k) : Lookup[k][h] = resource_mg_get(k, h)
  BY <1>3, LookupFacts DEF IInv, Typed
<1>6. \A h \in Held(k) : client.objects[k][h].on # None =>
        Lookup["stream"][client.objects[k][h].on]
          = resource_mg_get("stream", client.objects[k][h].on)
  BY <1>3, LookupFacts DEF IInv, Typed
<1>7. /\ DOMAIN live[k] = {Lookup[k][h] : h \in Held(k)}
      /\ \A g, h \in Held(k) : Lookup[k][g] = Lookup[k][h] => g = h
  BY <1>4 DEF Match, Held
<1>8. ASSUME NEW h \in Held(k)
      PROVE  /\ live[k][Lookup[k][h]].conf = client.objects[k][h].conf
             /\ live[k][Lookup[k][h]].dev = client.objects[k][h].dev
             /\ client.objects[k][h].on # None =>
                  live[k][Lookup[k][h]].on = Lookup["stream"][client.objects[k][h].on]
  BY <1>4 DEF Match, Held
<1>9. DOMAIN live[k] = {resource_mg_get(k, h) : h \in Held(k)}
  BY <1>5, <1>7
<1>10. ASSUME NEW h \in Held(k)
       PROVE  /\ resource_mg_get(k, h) \in DOMAIN live[k]
              /\ live[k][resource_mg_get(k, h)].conf = client.objects[k][h].conf
              /\ live[k][resource_mg_get(k, h)].dev = client.objects[k][h].dev
              /\ client.objects[k][h].on # None =>
                   live[k][resource_mg_get(k, h)].on
                     = resource_mg_get("stream", client.objects[k][h].on)
  BY <1>5, <1>6, <1>8, <1>9
<1> QED BY <1>3, <1>5, <1>7, <1>9, <1>10

(* After any number of calls, checkpoints and restarts, every handle that  *)
(* a client holds of a translated kind leads to a live object with the     *)
(* flags and the device it asked for.                                      *)
THEOREM HandlesAlwaysLead ==
  ASSUME Placement = "fresh" PROVE Spec => []HandlesLead
<1>1. IInv => HandlesLead
  BY HandleLeads DEF HandlesLead, Leads, TKinds
<1> QED BY <1>1, InvAlways, PTL

(* What a client bound to a stream is bound to what the stream's handle    *)
(* leads to, whichever of the two was created anew, and how often.         *)
THEOREM BindingsAlwaysFollow ==
  ASSUME Placement = "fresh" PROVE Spec => []BindingsFollow
<1>1. IInv => BindingsFollow
  <2>1. SUFFICES ASSUME IInv, Settled, NEW k \in TKinds, NEW h \in Held(k),
                        client.objects[k][h].on # None
                 PROVE  /\ resource_mg_get(k, h) \in DOMAIN live[k]
                        /\ live[k][resource_mg_get(k, h)].on
                             = resource_mg_get("stream", client.objects[k][h].on)
    BY DEF BindingsFollow, TKinds
  <2> QED BY <2>1, HandleLeads
<1> QED BY <1>1, InvAlways, PTL

(* The replay creates what was destroyed since, and destroys it again: no  *)
(* object is left over, and none goes by two handles.                      *)
THEOREM EveryObjectIsAlwaysHeld ==
  ASSUME Placement = "fresh" PROVE Spec => []EveryObjectIsHeld
<1>1. ASSUME IInv, Settled, NEW k \in TKinds
      PROVE  /\ DOMAIN live[k] = {resource_mg_get(k, h) : h \in Held(k)}
             /\ Cardinality(DOMAIN live[k]) = Cardinality(Held(k))
  <2> DEFINE lead == [h \in Held(k) |-> resource_mg_get(k, h)]
  <2>1. /\ IsFiniteSet(Held(k)) /\ DOMAIN live[k] = {resource_mg_get(k, h) : h \in Held(k)}
        /\ \A g, h \in Held(k) : resource_mg_get(k, g) = resource_mg_get(k, h) => g = h
    BY <1>1, HandleLeads
  <2>2. lead \in Bijection(Held(k), DOMAIN live[k])
    BY <2>1 DEF Bijection, Injection, Surjection, IsInjective
  <2>3. ExistsBijection(Held(k), DOMAIN live[k])
    BY <2>2 DEF ExistsBijection
  <2> QED BY <2>1, <2>3, FS_Bijection
<1>2. IInv => EveryObjectIsHeld
  BY <1>1 DEF EveryObjectIsHeld, TKinds
<1> QED BY <1>2, InvAlways, PTL

(* Kernels lead to the functions of the modules loaded for them, wherever  *)
(* the driver puts modules, and whatever handles it gives to objects.      *)
THEOREM FunctionsAlwaysLead == Spec => []FunctionsLead
<1>1. ASSUME IInv, Settled, NEW f \in DOMAIN client.functions
      PROVE  LET m == client.functions[f]
             IN  /\ f \in DOMAIN rm_functions /\ rm_functions[f].name = f
                 /\ rm_functions[f].module \in DOMAIN loaded
                 /\ loaded[rm_functions[f].module] = [key |-> m, dev |-> client.modules[m]]
  <2>1. PICK a : a = Core(client) /\ Sound(a) /\ Agrees(a)
    BY <1>1, WhatAgrees
  <2>2. a.functions = client.functions /\ a.modules = client.modules
    BY <2>1 DEF Core
  <2>3. a.functions[f] \in DOMAIN a.modules
    BY <2>1, <2>2 DEF Sound
  <2>4. /\ f \in DOMAIN rm_functions
        /\ rm_functions[f] = [module |-> rm_modules[a.functions[f]], name |-> f]
        /\ rm_modules[a.functions[f]] \in DOMAIN loaded
        /\ loaded[rm_modules[a.functions[f]]]
             = [key |-> a.functions[f], dev |-> a.modules[a.functions[f]]]
    BY <2>1, <2>2, <2>3 DEF Agrees, ModulesAgree
  <2> QED BY <2>2, <2>4
<1>2. IInv => FunctionsLead
  BY <1>1 DEF FunctionsLead
<1> QED BY <1>2, InvAlways, PTL

------------------------------------------------------------------------------
(***************************************************************************)
(* HandleRestore implements ClientHandles: what the client finds behind    *)
(* its handles is what its own calls made it, and after a restart what it  *)
(* was at the checkpoint.  Clear is what the invariant gives for that.     *)
(***************************************************************************)

Clear == Settled => Finds = Table(client)

(* A table, by its parts. *)
Parts(o, d, m, g) == [objects |-> o, device |-> d, modules |-> m, functions |-> g]
ObjectsOf(c) == [k \in TKinds |-> c.objects[k]]
FunctionsOf(f, m) == [x \in DOMAIN f |-> [key |-> f[x], dev |-> m[f[x]]]]

LEMMA PartsFacts ==
  ASSUME NEW o, NEW d, NEW m, NEW g
  PROVE  /\ Parts(o, d, m, g).objects = o /\ Parts(o, d, m, g).device = d
         /\ Parts(o, d, m, g).modules = m /\ Parts(o, d, m, g).functions = g
         /\ \A p : [Parts(o, d, m, g) EXCEPT !.objects = p] = Parts(p, d, m, g)
         /\ \A p : [Parts(o, d, m, g) EXCEPT !.device = p] = Parts(o, p, m, g)
         /\ \A p : [Parts(o, d, m, g) EXCEPT !.modules = p] = Parts(o, d, p, g)
         /\ \A p : [Parts(o, d, m, g) EXCEPT !.functions = p] = Parts(o, d, m, p)
BY DEF Parts

LEMMA TableIs ==
  ASSUME NEW c
  PROVE  Table(c) = Parts(ObjectsOf(c), c.device, c.modules, FunctionsOf(c.functions, c.modules))
BY DEF Table, TKinds, Parts, ObjectsOf, FunctionsOf

LEMMA TableFacts ==
  ASSUME NEW c
  PROVE  /\ Table(c).objects = ObjectsOf(c)
         /\ Table(c).device = c.device /\ Table(c).modules = c.modules
         /\ Table(c).functions = FunctionsOf(c.functions, c.modules)
BY TableIs, PartsFacts

(* An object is found with what the client's calls made of it. *)
LEMMA FoundIs ==
  ASSUME IInv, Settled, Placement = "fresh", NEW k \in TKinds, NEW h \in Held(k)
  PROVE  Found(k, h) = client.objects[k][h]
<1>1. PICK a : a = Core(client) /\ Sound(a) /\ Agrees(a)
  BY WhatAgrees
<1>2. a.objects[k] = client.objects[k] /\ a.objects["stream"] = client.objects["stream"]
  BY <1>1, StreamIsTranslated DEF Core
<1>3. PICK p : p = resource_mg_get(k, h)
  OBVIOUS
<1>4. PICK o : o = client.objects[k][h]
  OBVIOUS
<1>5. h \in Handle /\ o \in Object /\ o.on \in Held("stream") \cup {None}
  BY <1>1, <1>2, <1>4, SoundFacts DEF Held
<1>6. /\ p \in DOMAIN live[k] /\ live[k][p].conf = o.conf /\ live[k][p].dev = o.dev
      /\ o.on # None => live[k][p].on = resource_mg_get("stream", o.on)
  BY <1>3, <1>4, HandleLeads
<1>7. Match(a.objects[k], live[k], Lookup[k], Lookup["stream"]) /\ p = Lookup[k][h]
  BY <1>1, <1>3, <1>5, LookupFacts DEF Agrees, ObjectsAgree, IInv, Typed
<1>8. o.on = None => live[k][p].on = None
  BY <1>2, <1>4, <1>7 DEF Match, Held
<1>9. live[k][p] \in Object
  BY <1>6, LookupFacts, MapIs DEF IInv, Typed, Objects
<1>10. CASE o.on = None
  <2>1. Found(k, h) = [live[k][p] EXCEPT !.on = None]
    BY <1>3, <1>6, <1>8, <1>10 DEF Found
  <2> QED BY <1>4, <1>5, <1>6, <1>9, <1>10, <2>1 DEF Object
<1>11. CASE o.on # None
  <2>1. o.on \in Held("stream") /\ live[k][p].on = resource_mg_get("stream", o.on)
    BY <1>5, <1>6, <1>11
  <2>2. {s \in Held("stream") : resource_mg_get("stream", s) = live[k][p].on} = {o.on}
    BY <2>1, HandleLeads, StreamIsTranslated
  <2>3. live[k][p].on # None
    <3>1. resource_mg_get("stream", o.on) \in DOMAIN live["stream"]
      BY <2>1, HandleLeads, StreamIsTranslated
    <3> QED BY <2>1, <3>1, LookupFacts, NoneIsNoHandle DEF IInv, Typed
  <2>4. Found(k, h) = [live[k][p] EXCEPT !.on = CHOOSE s \in {o.on} : TRUE]
    BY <1>3, <1>6, <2>2, <2>3 DEF Found
  <2>5. (CHOOSE s \in {o.on} : TRUE) = o.on
    OBVIOUS
  <2> QED BY <1>4, <1>5, <1>6, <1>9, <2>4, <2>5 DEF Object
<1> QED BY <1>10, <1>11

LEMMA ClearAlways == ASSUME Placement = "fresh" PROVE IInv => Clear
<1> SUFFICES ASSUME IInv, Settled PROVE Finds = Table(client)
  BY DEF Clear
<1>1. PICK a : a = Core(client) /\ Sound(a) /\ Agrees(a)
  BY WhatAgrees
<1>2. a.device = client.device /\ a.modules = client.modules /\ a.functions = client.functions
  BY <1>1 DEF Core
<1>3. ASSUME NEW k \in TKinds PROVE [h \in Held(k) |-> Found(k, h)] = client.objects[k]
  <2>1. [h \in Held(k) |-> Found(k, h)] = [h \in Held(k) |-> client.objects[k][h]]
    BY FoundIs
  <2>2. client.objects[k] \in Objects
    BY StreamIsTranslated DEF IInv, Typed, Clients, Tables
  <2> QED BY <2>1, <2>2, MapIs DEF Objects, Held
<1>4. [k \in TKinds |-> [h \in Held(k) |-> Found(k, h)]] = [k \in TKinds |-> client.objects[k]]
  BY <1>3
<1>5. [m \in DOMAIN client.modules |-> FoundModule(rm_modules[m]).dev] = client.modules
  <2>1. \A m \in DOMAIN client.modules :
          FoundModule(rm_modules[m]) = [key |-> m, dev |-> client.modules[m]]
    BY <1>1, <1>2 DEF Agrees, ModulesAgree, FoundModule
  <2>2. client.modules = [m \in DOMAIN client.modules |-> client.modules[m]]
    BY <1>1, <1>2, SoundFacts, MapIs
  <2>3. ASSUME NEW m \in DOMAIN client.modules
        PROVE  FoundModule(rm_modules[m]).dev = client.modules[m]
    <3>1. FoundModule(rm_modules[m]) = [key |-> m, dev |-> client.modules[m]]
      BY <2>1
    <3> QED BY <3>1
  <2> QED BY <2>2, <2>3
<1>6. ASSUME NEW f \in DOMAIN client.functions
      PROVE  FoundModule(rm_functions[f].module)
               = [key |-> client.functions[f], dev |-> client.modules[client.functions[f]]]
  <2>1. client.functions[f] \in DOMAIN client.modules
    BY <1>1, <1>2 DEF Sound
  <2>2. rm_functions[f] = [module |-> rm_modules[client.functions[f]], name |-> f]
    BY <1>1, <1>2 DEF Agrees, ModulesAgree
  <2> QED BY <1>1, <1>2, <2>1, <2>2 DEF Agrees, ModulesAgree, FoundModule
<1>7. device = client.device
  BY <1>1, <1>2 DEF Agrees
<1> QED BY <1>4, <1>5, <1>6, <1>7 DEF Finds, Table, TKinds

PromisedStep == [Promise!Next]_(Promise!handleVars)

LEMMA HoldsIs ==
  ASSUME Clear
  PROVE  /\ Holds = IF Settled THEN Table(client) ELSE Table(NewClient)
         /\ State = "up" <=> Settled
         /\ State = "down" <=> mode # "serving"
         /\ State \in {"up", "down", "lost"}
BY DEF Clear, Holds, State, Settled

LEMMA NothingIs == Table(NewClient) = Promise!NothingHeld
<1>1. Nothing = Promise!Empty
  BY DEF Nothing, Promise!Empty
<1>2. ObjectsOf(NewClient) = [k \in TKinds |-> Nothing]
  BY NewClientType, NoObjectsType, StreamIsTranslated DEF ObjectsOf
<1>3. FunctionsOf(NewClient.functions, NewClient.modules) = Nothing
  BY NewClientType DEF FunctionsOf, Nothing
<1>4. NewClient.device = 0 /\ NewClient.modules = Nothing
  BY NewClientType
<1>5. Table(NewClient) = Parts([k \in TKinds |-> Nothing], 0, Nothing, Nothing)
  BY <1>2, <1>3, <1>4, TableIs
<1> QED BY <1>1, <1>5 DEF Parts, Promise!NothingHeld, TKinds

(* What changes nothing that is promised. *)
LEMMA Quietly ==
  ASSUME Clear, Clear', UNCHANGED <<mode, faithful, saved, checkpoint>>,
         Settled => Table(client') = Table(client)
  PROVE  PromisedStep
<1>1. State' = State /\ Settled' = Settled /\ (State = "up" <=> Settled)
  BY DEF State, Settled
<1>2. Holds' = IF Settled THEN Table(client') ELSE Table(NewClient)
  BY <1>1 DEF Clear, Holds
<1>3. Holds' = Holds
  BY <1>1, <1>2, HoldsIs
<1>4. OnDisk' = OnDisk
  BY DEF OnDisk
<1> QED BY <1>1, <1>3, <1>4 DEF PromisedStep, Promise!handleVars

LEMMA Called ==
  ASSUME Clear, Clear', Settled, UNCHANGED <<mode, faithful, saved, checkpoint>>
  PROVE  Promise!Call /\ Holds = Table(client) /\ Holds' = Table(client')
<1>1. State' = State /\ State = "up" /\ Settled'
  BY DEF State, Settled
<1>2. OnDisk' = OnDisk
  BY DEF OnDisk
<1> QED BY <1>1, <1>2 DEF Promise!Call, Clear, Holds

(* A call that leaves device, modules and functions alone. *)
LEMMA ObjectsOnly ==
  ASSUME NEW c, NEW d, d.device = c.device, d.modules = c.modules, d.functions = c.functions
  PROVE  Table(d) = [Table(c) EXCEPT !.objects = ObjectsOf(d)]
BY TableIs, PartsFacts

LEMMA CreateImplements ==
  ASSUME IInv, Clear, Clear', Placement = "fresh",
         NEW k \in Kinds, NEW c \in Confs, create(k, c)
  PROVE  PromisedStep
<1>1. PICK h \in Places(k) :
        client' = [client EXCEPT !.objects = Created(@, k, h, c, client.device)]
  BY DEF create
<1>2. mode = "serving" /\ UNCHANGED <<mode, faithful, saved, checkpoint>>
  BY DEF create, Serving, ghosts
<1>3. h \in Handle /\ h \notin DOMAIN live[k] /\ h \notin DOMAIN map[k]
  BY <1>2 DEF Places
<1> DEFINE new == With(client.objects[k], h, [conf |-> c, dev |-> client.device, on |-> None])
<1>4. /\ client'.objects = [client.objects EXCEPT ![k] = new]
      /\ client'.device = client.device /\ client'.modules = client.modules
      /\ client'.functions = client.functions /\ client.objects \in Tables
  BY <1>1 DEF Created, IInv, Typed, Clients
<1> HIDE DEF new
<1>5. \A j \in Kinds : client'.objects[j] = IF j = k THEN new ELSE client.objects[j]
  BY <1>4 DEF Tables
<1>6. CASE ~ Settled
  BY <1>2, <1>6, Quietly
<1>7. CASE k \notin TKinds
  <2>1. ObjectsOf(client') = ObjectsOf(client)
    BY <1>5, <1>7, StreamIsTranslated DEF ObjectsOf
  <2>2. Table(client') = Table(client)
    BY <1>4, <2>1, TableIs
  <2> QED BY <1>2, <2>2, Quietly
<1>8. CASE Settled /\ k \in TKinds
  <2>1. Promise!Call /\ Holds = Table(client) /\ Holds' = Table(client')
    BY <1>2, <1>8, Called
  <2>2. Holds.objects = ObjectsOf(client) /\ Holds.device = client.device
    BY <2>1, TableFacts
  <2>3. h \notin Held(k)
    <3>1. resource_mg_get(k, h) = h
      BY <1>3 DEF resource_mg_get
    <3> QED BY <1>3, <1>8, <3>1, HandleLeads
  <2>4. h \notin DOMAIN Holds.objects[k]
    BY <1>8, <2>2, <2>3 DEF Held, ObjectsOf
  <2>5. ObjectsOf(client') = [Holds.objects EXCEPT ![k] = new]
    BY <1>5, <1>8, <2>2, StreamIsTranslated DEF ObjectsOf
  <2>6. Holds' = [Holds EXCEPT !.objects = [Holds.objects EXCEPT ![k] = new]]
    BY <1>4, <2>1, <2>5, ObjectsOnly
  <2>7. new = Promise!With(Holds.objects[k], h,
                           [conf |-> c, dev |-> Holds.device, on |-> None])
    BY <1>8, <2>2 DEF new, With, Promise!With, ObjectsOf
  <2>8. Promise!Create(k, h, c)
    BY <2>1, <2>4, <2>6, <2>7 DEF Promise!Create
  <2> QED BY <1>3, <1>8, <2>8 DEF PromisedStep, Promise!Next, TKinds
<1> QED BY <1>6, <1>7, <1>8

LEMMA DestroyImplements ==
  ASSUME IInv, Clear, Clear', Placement = "fresh",
         NEW k \in Kinds, NEW h \in DOMAIN client.objects[k], destroy(k, h)
  PROVE  PromisedStep
<1>1. mode = "serving" /\ UNCHANGED <<mode, faithful, saved, checkpoint>>
      /\ client' = [client EXCEPT !.objects = Destroyed(@, k, h)]
  BY DEF destroy, Serving, ghosts
<1>2. /\ client'.objects = Destroyed(client.objects, k, h)
      /\ client'.device = client.device /\ client'.modules = client.modules
      /\ client'.functions = client.functions /\ client.objects \in Tables
  BY <1>1 DEF IInv, Typed, Clients
<1>3. h \in Handle /\ \A j \in Kinds : client.objects[j] \in Objects
  BY <1>2, MapIs DEF Tables, Objects
<1>4. CASE ~ Settled
  BY <1>1, <1>4, Quietly
<1>5. CASE k \notin TKinds
  <2>1. ASSUME NEW j \in TKinds PROVE client'.objects[j] = client.objects[j]
    <3>1. k # "stream" /\ j # k /\ j \in Kinds
      BY <1>5, <2>1, StreamIsTranslated
    <3>2. client'.objects[j] = [x \in DOMAIN client.objects[j] |-> client.objects[j][x]]
      BY <1>2, <3>1 DEF Destroyed
    <3> QED BY <1>3, <3>1, <3>2, MapIs DEF Objects
  <2>2. ObjectsOf(client') = ObjectsOf(client)
    BY <2>1 DEF ObjectsOf
  <2>3. Table(client') = Table(client)
    BY <1>2, <2>2, TableIs
  <2> QED BY <1>1, <2>3, Quietly
<1>6. CASE Settled /\ k \in TKinds
  <2> DEFINE gone(j) == IF j = k THEN {h} ELSE {}
             freed(o) == IF k = "stream" /\ o.on = h THEN [o EXCEPT !.on = None] ELSE o
             left(o) == [x \in DOMAIN o \ {h} |-> o[x]]
  <2>1. Promise!Call /\ Holds = Table(client) /\ Holds' = Table(client')
    BY <1>1, <1>6, Called
  <2>2. Holds.objects = ObjectsOf(client)
    BY <2>1, TableFacts
  <2>3. h \in DOMAIN Holds.objects[k]
    BY <1>6, <2>2 DEF ObjectsOf
  <2>4. ASSUME NEW j \in TKinds
        PROVE  client'.objects[j]
                 = [x \in DOMAIN Holds.objects[j] \ gone(j) |-> freed(Holds.objects[j][x])]
    <3>1. Holds.objects[j] = client.objects[j] /\ j \in Kinds
      BY <2>2, <2>4, StreamIsTranslated DEF ObjectsOf
    <3>2. CASE j # k
      BY <1>2, <3>1, <3>2 DEF Destroyed
    <3>3. CASE j = k
      <4>1. PICK a : a = Core(client) /\ Sound(a)
        BY <1>6, WhatAgrees
      <4>2. k = "stream" => \A x \in DOMAIN client.objects[k] : client.objects[k][x].on = None
        BY <4>1, StreamIsTranslated DEF Sound, Core
      <4>3. \A x \in DOMAIN client.objects[k] : freed(client.objects[k][x]) = client.objects[k][x]
        BY <1>3, <4>2, NoneIsNoHandle
      <4>4. client'.objects[j] = [x \in DOMAIN client.objects[k] \ {h} |-> client.objects[k][x]]
        BY <1>2, <3>1, <3>3 DEF Destroyed, Without
      <4> HIDE DEF freed
      <4> QED BY <3>1, <3>3, <4>3, <4>4
    <3> QED BY <3>2, <3>3
  <2>5. Holds' = [Holds EXCEPT !.objects =
                    [j \in TKinds |-> [x \in DOMAIN Holds.objects[j] \ gone(j) |->
                                         freed(Holds.objects[j][x])]]]
    <3> HIDE DEF freed, gone
    <3>1. ObjectsOf(client')
            = [j \in TKinds |-> [x \in DOMAIN Holds.objects[j] \ gone(j) |->
                                   freed(Holds.objects[j][x])]]
      BY <2>4 DEF ObjectsOf
    <3> QED BY <1>2, <2>1, <3>1, ObjectsOnly
  <2>6. Promise!Destroy(k, h)
    BY <2>1, <2>3, <2>5 DEF Promise!Destroy, TKinds
  <2> QED BY <1>3, <1>6, <2>6 DEF PromisedStep, Promise!Next, TKinds
<1> QED BY <1>4, <1>5, <1>6

LEMMA BindImplements ==
  ASSUME IInv, Clear, Clear', NEW k \in Kinds, NEW h \in DOMAIN client.objects[k],
         NEW s \in DOMAIN client.objects["stream"], bind(k, h, s)
  PROVE  PromisedStep
<1>1. /\ mode = "serving" /\ UNCHANGED <<mode, faithful, saved, checkpoint>>
      /\ client.objects[k][h].dev = client.objects["stream"][s].dev
      /\ client' = [client EXCEPT !.objects = Bound(@, k, h, s)]
  BY DEF bind, Serving, ghosts
<1> DEFINE new == [client.objects[k] EXCEPT ![h].on = s]
<1>2. /\ client'.objects = [client.objects EXCEPT ![k] = new]
      /\ client'.device = client.device /\ client'.modules = client.modules
      /\ client'.functions = client.functions /\ client.objects \in Tables
  BY <1>1 DEF Bound, IInv, Typed, Clients
<1>3. h \in Handle /\ s \in Handle
  BY <1>2, KindsAreKnown, MapIs DEF Tables, Objects
<1> HIDE DEF new
<1>4. \A j \in Kinds : client'.objects[j] = IF j = k THEN new ELSE client.objects[j]
  BY <1>2 DEF Tables
<1>5. CASE ~ Settled
  BY <1>1, <1>5, Quietly
<1>6. CASE k \notin TKinds
  <2>1. ObjectsOf(client') = ObjectsOf(client)
    BY <1>4, <1>6, StreamIsTranslated DEF ObjectsOf
  <2>2. Table(client') = Table(client)
    BY <1>2, <2>1, TableIs
  <2> QED BY <1>1, <2>2, Quietly
<1>7. CASE Settled /\ k \in TKinds
  <2>1. Promise!Call /\ Holds = Table(client) /\ Holds' = Table(client')
    BY <1>1, <1>7, Called
  <2>2. Holds.objects = ObjectsOf(client)
    BY <2>1, TableFacts
  <2>3. Holds.objects[k] = client.objects[k] /\ Holds.objects["stream"] = client.objects["stream"]
    BY <1>7, <2>2, StreamIsTranslated DEF ObjectsOf
  <2>4. ObjectsOf(client') = [Holds.objects EXCEPT ![k] = new]
    BY <1>4, <1>7, <2>2, StreamIsTranslated DEF ObjectsOf
  <2>5. Holds' = [Holds EXCEPT !.objects = [Holds.objects EXCEPT ![k] = new]]
    BY <1>2, <2>1, <2>4, ObjectsOnly
  <2>6. [Holds.objects EXCEPT ![k][h].on = s] = [Holds.objects EXCEPT ![k] = new]
    BY <2>3 DEF new
  <2>7. Holds' = [Holds EXCEPT !.objects[k][h].on = s]
    BY <2>5, <2>6
  <2>8. Promise!Bind(k, h, s)
    BY <1>1, <2>1, <2>3, <2>7 DEF Promise!Bind
  <2> QED BY <1>3, <1>7, <2>8 DEF PromisedStep, Promise!Next, TKinds
<1> QED BY <1>5, <1>6, <1>7

LEMMA SetDeviceImplements ==
  ASSUME IInv, Clear, Clear', NEW d \in Devices, cuda_set_device(d)
  PROVE  PromisedStep
<1>1. mode = "serving" /\ UNCHANGED <<mode, faithful, saved, checkpoint>>
      /\ client' = [client EXCEPT !.device = d] /\ client \in Clients
  BY DEF cuda_set_device, Serving, ghosts, IInv, Typed
<1>2. CASE ~ Settled
  BY <1>1, <1>2, Quietly
<1>3. CASE Settled
  <2>1. Promise!Call /\ Holds = Table(client) /\ Holds' = Table(client')
    BY <1>1, <1>3, Called
  <2>2. /\ client'.objects = client.objects /\ client'.device = d
        /\ client'.modules = client.modules /\ client'.functions = client.functions
    BY <1>1 DEF Clients
  <2>5. ObjectsOf(client') = ObjectsOf(client)
    BY <2>2 DEF ObjectsOf
  <2>3. Table(client') = [Table(client) EXCEPT !.device = d]
    BY <2>2, <2>5, TableIs, PartsFacts
  <2>4. Promise!SetDevice(d)
    BY <2>1, <2>3 DEF Promise!SetDevice
  <2> QED BY <2>4 DEF PromisedStep, Promise!Next
<1> QED BY <1>2, <1>3

LEMMA ElfLoadImplements ==
  ASSUME IInv, Clear, Clear', NEW m \in Modules, rpc_elf_load(m)
  PROVE  PromisedStep
<1>1. /\ mode = "serving" /\ UNCHANGED <<mode, faithful, saved, checkpoint>>
      /\ m \notin DOMAIN client.modules
      /\ client' = [client EXCEPT !.modules = With(@, m, client.device)] /\ client \in Clients
  BY DEF rpc_elf_load, Serving, ghosts, IInv, Typed
<1>2. CASE ~ Settled
  BY <1>1, <1>2, Quietly
<1>3. CASE Settled
  <2>1. Promise!Call /\ Holds = Table(client) /\ Holds' = Table(client')
    BY <1>1, <1>3, Called
  <2>2. /\ client'.objects = client.objects /\ client'.device = client.device
        /\ client'.modules = With(client.modules, m, client.device)
        /\ client'.functions = client.functions
    BY <1>1 DEF Clients
  <2>3. ASSUME NEW f \in DOMAIN client.functions
        PROVE  client'.modules[client.functions[f]] = client.modules[client.functions[f]]
    <3>1. PICK a : a = Core(client) /\ Sound(a)
      BY <1>3, WhatAgrees
    <3>2. a.functions = client.functions /\ a.modules = client.modules
      BY <3>1 DEF Core
    <3>3. client.functions[f] \in DOMAIN client.modules
      BY <3>1, <3>2 DEF Sound
    <3> QED BY <1>1, <2>2, <3>3 DEF With
  <2>4. FunctionsOf(client.functions, client'.modules)
          = FunctionsOf(client.functions, client.modules)
    BY <2>3 DEF FunctionsOf
  <2>7. ObjectsOf(client') = ObjectsOf(client)
    BY <2>2 DEF ObjectsOf
  <2>5. Table(client')
          = [Table(client) EXCEPT !.modules = With(client.modules, m, client.device)]
    BY <2>2, <2>4, <2>7, TableIs, PartsFacts
  <2>6. Promise!Load(m)
    BY <1>1, <2>1, <2>5, TableFacts DEF Promise!Load, Promise!With, With
  <2> QED BY <2>6 DEF PromisedStep, Promise!Next
<1> QED BY <1>2, <1>3

LEMMA RegisterImplements ==
  ASSUME IInv, Clear, Clear', NEW m \in DOMAIN client.modules, NEW f \in Functions,
         rpc_register_function(f, m)
  PROVE  PromisedStep
<1>1. /\ mode = "serving" /\ UNCHANGED <<mode, faithful, saved, checkpoint>>
      /\ f \notin DOMAIN client.functions
      /\ client' = [client EXCEPT !.functions = With(@, f, m)] /\ client \in Clients
  BY DEF rpc_register_function, Serving, ghosts, IInv, Typed
<1>2. CASE ~ Settled
  BY <1>1, <1>2, Quietly
<1>3. CASE Settled
  <2>1. Promise!Call /\ Holds = Table(client) /\ Holds' = Table(client')
    BY <1>1, <1>3, Called
  <2>2. /\ client'.objects = client.objects /\ client'.device = client.device
        /\ client'.modules = client.modules /\ client'.functions = With(client.functions, f, m)
        /\ m \in Modules
    BY <1>1, MapIs DEF Clients
  <2> DEFINE fn == [key |-> m, dev |-> client.modules[m]]
             old == FunctionsOf(client.functions, client.modules)
  <2>3. FunctionsOf(With(client.functions, f, m), client.modules) = With(old, f, fn)
    BY DEF FunctionsOf, With
  <2> HIDE DEF fn, old
  <2>6. ObjectsOf(client') = ObjectsOf(client)
    BY <2>2 DEF ObjectsOf
  <2>4. Table(client') = [Table(client) EXCEPT !.functions = With(old, f, fn)]
    BY <2>2, <2>3, <2>6, TableIs, PartsFacts DEF old
  <2>7. Table(client).functions = old /\ DOMAIN old = DOMAIN client.functions
    BY TableFacts DEF old, FunctionsOf
  <2>5. Promise!Register(f, m)
    BY <1>1, <2>1, <2>4, <2>7, TableFacts DEF Promise!Register, Promise!With, With, fn
  <2> QED BY <2>2, <2>5 DEF PromisedStep, Promise!Next
<1> QED BY <1>2, <1>3

LEMMA HandlerImplements ==
  ASSUME IInv, Clear, Clear', Placement = "fresh", Handler
  PROVE  PromisedStep
BY CreateImplements, DestroyImplements, BindImplements, SetDeviceImplements,
   ElfLoadImplements, RegisterImplements
   DEF Handler

(* A checkpoint that can be relied on, one that cannot, and the end of a   *)
(* server.                                                                 *)
LEMMA CheckpointImplements ==
  ASSUME IInv, Clear, Clear', server_runtime_checkpoint \/ checkpoint_stale_elf \/ svc_exit
  PROVE  PromisedStep
<1>1. mode = "serving"
  BY DEF server_runtime_checkpoint, checkpoint_stale_elf, svc_exit, CanDump
<1>2. State # "down"
  BY <1>1, HoldsIs
<1>3. ASSUME Stop PROVE State' = "down" /\ Holds' = Promise!NothingHeld
  BY <1>3, NothingIs DEF Stop, State, Holds
<1>4. ASSUME UNCHANGED <<mode, faithful, client>> PROVE State' = State /\ Holds' = Holds
  <2>1. State' = State /\ Settled' = Settled
    BY <1>4 DEF State, Settled
  <2>3. State = "up" <=> Settled
    BY HoldsIs
  <2>2. Holds' = IF Settled THEN Table(client') ELSE Table(NewClient)
    BY <2>1, <2>3 DEF Clear, Holds
  <2> QED BY <1>4, <2>1, <2>2, HoldsIs
<1>5. checkpoint' = "damaged" => OnDisk' = Promise!NothingHeld /\ checkpoint' # "complete"
  BY NothingIs DEF OnDisk
<1>6. CASE svc_exit
  <2>1. Stop /\ UNCHANGED <<saved, checkpoint>>
    BY <1>6 DEF svc_exit
  <2>2. Promise!Stop
    BY <1>2, <1>3, <2>1 DEF Promise!Stop, OnDisk
  <2> QED BY <2>2 DEF PromisedStep, Promise!Next
<1>7. CASE checkpoint_stale_elf
  <2>1. checkpoint' = "damaged" /\ (Stop \/ UNCHANGED <<mode, faithful, client>>)
    BY <1>7 DEF checkpoint_stale_elf
  <2>2. Promise!Spoil
    BY <1>2, <1>3, <1>4, <1>5, <2>1 DEF Promise!Spoil
  <2> QED BY <2>2 DEF PromisedStep, Promise!Next
<1>8. CASE server_runtime_checkpoint
  <2>1. /\ UNCHANGED <<mode, faithful, client>> /\ saved' = client
        /\ checkpoint' = (IF faithful THEN "complete" ELSE "damaged")
    BY <1>8 DEF server_runtime_checkpoint
  <2>2. CASE faithful
    <3>1. Settled /\ checkpoint' = "complete"
      BY <1>1, <2>1, <2>2 DEF Settled
    <3>2. OnDisk' = Holds /\ State = "up"
      BY <2>1, <3>1, HoldsIs DEF OnDisk
    <3>3. Promise!Checkpoint
      BY <1>4, <2>1, <3>1, <3>2 DEF Promise!Checkpoint
    <3> QED BY <3>3 DEF PromisedStep, Promise!Next
  <2>3. CASE ~ faithful
    <3>1. Promise!Spoil
      BY <1>2, <1>4, <1>5, <2>1, <2>3 DEF Promise!Spoil
    <3> QED BY <3>1 DEF PromisedStep, Promise!Next
  <2> QED BY <2>2, <2>3
<1> QED BY <1>6, <1>7, <1>8

(* The steps of a restart are not seen until it is done. *)
LEMMA RestartImplements ==
  ASSUME IInv, Clear, Clear',
         \/ server_runtime_restore \/ cr_restore_handle \/ cr_restore_elf
         \/ cr_restore_elf_passes \/ cr_restore_elf_crashes \/ restore_gives_up \/ CallRecord \/ restore_complete
  PROVE  PromisedStep
<1>1. mode # "serving" /\ UNCHANGED <<saved, checkpoint>>
  BY DEF server_runtime_restore, cr_restore_handle, cr_restore_elf, restore_gives_up,
         cr_restore_elf_passes, cr_restore_elf_crashes, ElfIs, CallRecord, destroy_again, bind_again, create_again, set_device_again,
         register_again, Again, restore_complete, Restoring, ghosts
<1>2. State = "down" /\ Holds = Table(NewClient) /\ OnDisk' = OnDisk
  BY <1>1, HoldsIs DEF OnDisk, Settled
<1>3. CASE mode' # "serving"
  <2>1. State' = "down" /\ Holds' = Table(NewClient)
    BY <1>3 DEF State, Holds
  <2> QED BY <1>1, <1>2, <2>1 DEF PromisedStep, Promise!handleVars
<1>4. CASE mode' = "serving" /\ ~ faithful'
  <2>1. State' = "lost" /\ Holds' = Table(NewClient)
    BY <1>4 DEF State, Holds
  <2>2. Promise!Lose
    BY <1>1, <1>2, <2>1 DEF Promise!Lose
  <2> QED BY <2>2 DEF PromisedStep, Promise!Next
<1>5. CASE mode' = "serving" /\ faithful'
  <2>1. mode = "restoring" /\ faithful /\ client' = client
    <3>1. ~ restore_gives_up /\ ~ server_runtime_restore
      BY <1>5 DEF restore_gives_up, server_runtime_restore
    <3>2. ~ (cr_restore_handle \/ cr_restore_elf \/ cr_restore_elf_passes
             \/ cr_restore_elf_crashes \/ CallRecord)
      BY <1>1, <1>5
         DEF cr_restore_handle, cr_restore_elf, cr_restore_elf_passes, CallRecord,
             cr_restore_elf_crashes, Stop,
             destroy_again, bind_again,
             create_again, set_device_again, register_again, Again, GoOn
    <3> QED BY <1>5, <3>1, <3>2 DEF restore_complete, ghosts
  <2>2. checkpoint = "complete" /\ client = saved
    BY <2>1 DEF IInv, Replaying
  <2>3. State' = "up" /\ Settled'
    BY <1>5 DEF State, Settled
  <2>4. Holds' = Table(client')
    BY <2>3 DEF Holds, Clear
  <2>5. Holds' = OnDisk
    BY <2>1, <2>2, <2>4 DEF OnDisk
  <2>6. Promise!Restart
    BY <1>1, <1>2, <2>2, <2>3, <2>5 DEF Promise!Restart
  <2> QED BY <2>6 DEF PromisedStep, Promise!Next
<1> QED BY <1>3, <1>4, <1>5

(* What a client finds behind the handles of its objects, its modules and  *)
(* its kernels, on its device, is what ClientHandles promises: the server  *)
(* that replayed the records is the one that wrote them, to the client.    *)
THEOREM ImplementsTheHandles ==
  ASSUME Placement = "fresh" PROVE Spec => ImplementsClientHandles
<1>1. Init => Promise!Init
  <2> SUFFICES ASSUME Init PROVE Promise!Init
    OBVIOUS
  <2>1. mode = "serving" /\ faithful /\ client = NewClient /\ checkpoint = "none"
    BY DEF Init
  <2>2. Clear
    BY InvInit, ClearAlways
  <2>3. State = "up" /\ Holds = Promise!NothingHeld
    BY <2>1, <2>2, HoldsIs, NothingIs DEF Settled
  <2>4. OnDisk = Promise!NothingHeld
    BY <2>1, NothingIs DEF OnDisk
  <2> QED BY <2>1, <2>3, <2>4 DEF Promise!Init
<1>2. IInv /\ Clear /\ Clear' /\ [Next]_vars => [Promise!Next]_(Promise!handleVars)
  <2> SUFFICES ASSUME IInv, Clear, Clear', [Next]_vars PROVE PromisedStep
    BY DEF PromisedStep
  <2>1. CASE UNCHANGED vars
    BY <2>1, Quietly DEF vars, ghosts
  <2>2. CASE Next
    BY <2>2, HandlerImplements, CheckpointImplements, RestartImplements DEF Next
  <2> QED BY <2>1, <2>2
<1>3. IInv => Clear
  BY ClearAlways
<1> QED BY <1>1, <1>2, <1>3, InvAlways, PTL DEF Spec, ImplementsClientHandles, Promise!Spec

=============================================================================
