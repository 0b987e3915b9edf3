---------------------------- MODULE HandleRestore ----------------------------
(***************************************************************************)
(* Checkpoint and restart of what a client holds beside memory: streams,   *)
(* events, library handles, the current device, modules and functions.     *)
(* Handles of streams, events, cuSOLVER and cuBLAS are created anew by the *)
(* replay and mapped (translated kinds); those of cuDNN are created by     *)
(* calling the handler again (repeated kinds); modules and functions go by *)
(* keys of the client's and are always looked up.                          *)
(*                                                                         *)
(* A manager is the map it implements (ResourceMg implements HandleMap); a *)
(* checkpoint is one step (CheckpointRestart has its steps).               *)
(***************************************************************************)
EXTENDS Integers, Sequences, FiniteSets

CONSTANTS
  Handle,       \* what drivers and libraries call their objects
  None,         \* no stream
  Confs,        \* flags, priorities
  Devices,      \* the first one is current in a new process
  Kinds,        \* the kinds of objects the client uses
  Modules,      \* the client's fat binaries, by their handles
  Functions,    \* the client's kernels, by their stubs
  Placement,    \* which handle a new object gets: "fresh" or "any"
  MaxCalls, MaxCheckpoints, MaxRestarts, MaxFailures   \* bounds

Translated == {"stream", "event", "cusolver", "cublas"}
Repeated == {"cudnn"}

ASSUME NoneIsNoHandle == None \notin Handle
ASSUME DevicesAreNumbers == Devices \subseteq Nat /\ 0 \in Devices
ASSUME KindsAreKnown == Kinds \subseteq Translated \cup Repeated /\ "stream" \in Kinds
ASSUME PlacementIsKnown == Placement \in {"fresh", "any"}
ASSUME BoundsAreNumbers == MaxCalls \in Nat /\ MaxCheckpoints \in Nat
                           /\ MaxRestarts \in Nat /\ MaxFailures \in Nat

VARIABLES
  mode,          \* serving, down or restoring
  pos,           \* the record the replay has come to
  restored,      \* this server was started with CRICKET_RESTORE=yes
  map,           \* the managers' translations, by kind
  rm_modules,    \* fat binary -> CUmodule
  rm_functions,  \* stub -> CUfunction, a function of a CUmodule
  live,          \* the objects of driver and libraries, by kind and handle
  loaded,        \* the modules of the driver
  device,        \* the current device of the server
  api_records,   \* the recorder's list
  file_records,  \* ckp/api_records
  file_elf,      \* the files ckp/elf-0x<key>: whether their contents are right
  client,        \* what the client holds
  saved,         \* that, when a checkpoint was last reported done
  checkpoint,    \* none, damaged (no restart can rely on it) or complete
  faithful,      \* this server started afresh or from a complete checkpoint
  used           \* how much of the bounds has been used

managers == <<map, rm_modules, rm_functions>>
gpu == <<live, loaded, device>>
files == <<file_records, file_elf>>
ghosts == <<saved, checkpoint, faithful>>
vars == <<mode, pos, restored, managers, gpu, api_records, files, client, ghosts,
          used>>

Object == [conf : Confs, dev : Devices, on : Handle \cup {None}]
Module == [key : Modules, dev : Devices]
Function == [module : Handle, name : Functions]

With(f, a, b) == [x \in DOMAIN f \cup {a} |-> IF x = a THEN b ELSE f[x]]
Without(f, a) == [x \in DOMAIN f \ {a} |-> f[x]]
Nothing == [x \in {} |-> 0]
NoObjects == [k \in Kinds |-> Nothing]
NewClient == [objects |-> NoObjects, modules |-> Nothing, functions |-> Nothing,
              device |-> 0]

Init ==
  /\ mode = "serving" /\ pos = 1 /\ restored = FALSE
  /\ map = NoObjects /\ rm_modules = Nothing /\ rm_functions = Nothing
  /\ live = NoObjects /\ loaded = Nothing /\ device = 0
  /\ api_records = <<>> /\ file_records = <<>> /\ file_elf = Nothing
  /\ client = NewClient /\ saved = NewClient
  /\ checkpoint = "none" /\ faithful = TRUE
  /\ used = [calls |-> 0, checkpoints |-> 0, restarts |-> 0, failures |-> 0]

------------------------------------------------------------------------------
(* Objects, as the client and as driver and libraries know them.           *)

Created(objects, k, h, conf, d) ==
  [objects EXCEPT ![k] = With(@, h, [conf |-> conf, dev |-> d, on |-> None])]

(* Whoever uses a stream that is destroyed is left without.                *)
Destroyed(objects, k, h) ==
  [j \in Kinds |->
     IF j = k THEN Without(objects[j], h)
     ELSE [x \in DOMAIN objects[j] |->
             IF k = "stream" /\ objects[j][x].on = h
             THEN [objects[j][x] EXCEPT !.on = None] ELSE objects[j][x]]]

(* cublasSetStream and the like, cudaEventRecord.                          *)
Bound(objects, k, h, s) ==
  IF h \in DOMAIN objects[k] /\ s \in DOMAIN objects["stream"]
  THEN [objects EXCEPT ![k][h].on = s] ELSE objects

(* any: nothing is known of it; fresh: a client is never given a handle    *)
(* that a restored object of its goes by.                                  *)
Places(k) ==
  {h \in Handle \ DOMAIN live[k] :
     Placement = "fresh" /\ mode = "serving" => h \notin DOMAIN map[k]}

(* The managers of cuDNN are bypassed in a restored server, of all, and    *)
(* have nothing to translate in the other.                                 *)
Bypassed(k) == IF k \in Repeated THEN restored ELSE ~ restored
resource_mg_get(k, h) ==
  IF Bypassed(k) \/ h \notin DOMAIN map[k] THEN h ELSE map[k][h]

------------------------------------------------------------------------------
(* The handlers.  A record has the fields all of them need.                *)

Blank == [fn |-> "none", kind |-> "stream", handle |-> None, on |-> None,
          conf |-> None, key |-> None, name |-> None, image |-> FALSE]
Create(k, h, conf) == [Blank EXCEPT !.fn = "create", !.kind = k, !.handle = h, !.conf = conf]
Destroy(k, h) == [Blank EXCEPT !.fn = "destroy", !.kind = k, !.handle = h]
Bind(k, h, s) == [Blank EXCEPT !.fn = "bind", !.kind = k, !.handle = h, !.on = s]
SetDevice(d) == [Blank EXCEPT !.fn = "set_device", !.handle = d]
ElfLoad(m) == [Blank EXCEPT !.fn = "elf_load", !.key = m, !.image = TRUE]
Register(f, m) == [Blank EXCEPT !.fn = "register", !.key = m, !.name = f]

Recorded(r) == api_records' = Append(api_records, r)

Serving ==
  /\ mode = "serving" /\ used.calls < MaxCalls
  /\ used' = [used EXCEPT !.calls = @ + 1]

create(k, conf) ==
  /\ Serving
  /\ \E h \in Places(k) :
       /\ live' = Created(live, k, h, conf, device)
       /\ client' = [client EXCEPT !.objects = Created(@, k, h, conf, client.device)]
       /\ Recorded(Create(k, h, conf))
  /\ UNCHANGED <<mode, pos, restored, managers, loaded, device, files, ghosts>>

destroy(k, h) ==
  /\ Serving
  /\ live' = Destroyed(live, k, resource_mg_get(k, h))
  /\ client' = [client EXCEPT !.objects = Destroyed(@, k, h)]
  /\ Recorded(Destroy(k, h))
  /\ UNCHANGED <<mode, pos, restored, managers, loaded, device, files, ghosts>>

(* A program binds objects to streams of the same device only.             *)
bind(k, h, s) ==
  /\ Serving /\ k # "stream"
  /\ client.objects[k][h].dev = client.objects["stream"][s].dev
  /\ live' = Bound(live, k, resource_mg_get(k, h), resource_mg_get("stream", s))
  /\ client' = [client EXCEPT !.objects = Bound(@, k, h, s)]
  /\ Recorded(Bind(k, h, s))
  /\ UNCHANGED <<mode, pos, restored, managers, loaded, device, files, ghosts>>

cuda_set_device(d) ==
  /\ Serving
  /\ device' = d
  /\ client' = [client EXCEPT !.device = d]
  /\ Recorded(SetDevice(d))
  /\ UNCHANGED <<mode, pos, restored, managers, live, loaded, files, ghosts>>

(* A fat binary is loaded once; its handle is never used for another.      *)
rpc_elf_load(m) ==
  /\ Serving /\ m \notin DOMAIN client.modules
  /\ \E p \in Handle \ DOMAIN loaded :
       /\ loaded' = With(loaded, p, [key |-> m, dev |-> device])
       /\ rm_modules' = With(rm_modules, m, p)
  /\ client' = [client EXCEPT !.modules = With(@, m, client.device)]
  /\ Recorded(ElfLoad(m))
  /\ UNCHANGED <<mode, pos, restored, map, rm_functions, live, device, files, ghosts>>

Bug_BypassModules(f, m) ==
  rm_functions' = With(rm_functions, f, [module |-> m, name |-> f])

(* The function of that name in the module that goes by the key.           *)
Registered(f, m) ==
  rm_functions' = IF m \in DOMAIN rm_modules
                  THEN With(rm_functions, f, [module |-> rm_modules[m], name |-> f])
                  ELSE rm_functions

rpc_register_function(f, m) ==
  /\ Serving /\ f \notin DOMAIN client.functions
  /\ Registered(f, m)
  /\ client' = [client EXCEPT !.functions = With(@, f, m)]
  /\ Recorded(Register(f, m))
  /\ UNCHANGED <<mode, pos, restored, map, rm_modules, gpu, files, ghosts>>

------------------------------------------------------------------------------
(* Checkpoints. *)

Elfs == {i \in 1 .. Len(api_records) : api_records[i].fn = "elf_load"}
Stale == {api_records[i].key : i \in {j \in Elfs : ~ api_records[j].image}}
Fresh == {api_records[i].key : i \in Elfs} \ Stale

Dump(elf) ==
  /\ file_records' = api_records
  /\ file_elf' = [m \in DOMAIN elf \cup DOMAIN file_elf |->
                    IF m \in DOMAIN elf THEN elf[m] ELSE file_elf[m]]
  /\ used' = [used EXCEPT !.checkpoints = @ + 1]

CanDump == mode = "serving" /\ used.checkpoints < MaxCheckpoints

server_runtime_checkpoint ==
  /\ CanDump /\ Stale = {}
  /\ Dump([m \in Fresh |-> TRUE])
  /\ saved' = client
  /\ checkpoint' = IF faithful THEN "complete" ELSE "damaged"
  /\ UNCHANGED <<mode, pos, restored, managers, gpu, api_records, client, faithful>>

Stop ==
  /\ mode' = "down"
  /\ map' = NoObjects /\ rm_modules' = Nothing /\ rm_functions' = Nothing
  /\ live' = NoObjects /\ loaded' = Nothing /\ device' = 0
  /\ api_records' = <<>>
  /\ client' = NewClient
  /\ UNCHANGED <<pos, restored, faithful>>

(* cr_dump_elf_entry follows a pointer that a record kept from an earlier  *)
(* process: the file is emptied, and what then happens is undefined.  The  *)
(* write is refused, which ends the dump, or copies whatever is there, or  *)
(* the server crashes.  Records of earlier processes come before others.   *)
checkpoint_stale_elf ==
  /\ CanDump /\ Stale # {}
  /\ \E emptied \in SUBSET Stale, rest \in {{}, Fresh} :
       emptied # {} /\ Dump([m \in emptied \cup rest |-> m \in rest])
  /\ checkpoint' = "damaged"
  /\ \/ Stop /\ UNCHANGED saved
     \/ /\ saved' \in {saved, client}
        /\ UNCHANGED <<mode, pos, restored, managers, gpu, api_records, client, faithful>>

svc_exit == mode = "serving" /\ Stop /\ UNCHANGED <<files, saved, checkpoint, used>>

------------------------------------------------------------------------------
(* Restart. *)

server_runtime_restore ==
  /\ mode = "down" /\ checkpoint # "none" /\ used.restarts < MaxRestarts
  /\ mode' = "restoring" /\ pos' = 1 /\ restored' = TRUE
  /\ client' = saved
  /\ faithful' = (checkpoint = "complete")
  /\ used' = [used EXCEPT !.restarts = @ + 1]
  /\ UNCHANGED <<managers, gpu, api_records, files, saved, checkpoint>>

Restoring == mode = "restoring" /\ pos <= Len(file_records)
Replayed == file_records[pos]
Kept == [Replayed EXCEPT !.image = FALSE]
GoOn == pos' = pos + 1 /\ UNCHANGED <<mode, faithful>>

Bug_KeepOldMapping ==
  /\ Restoring /\ Replayed.fn = "create" /\ Replayed.kind \in Translated
  /\ \E h \in Places(Replayed.kind) :
       /\ live' = Created(live, Replayed.kind, h, Replayed.conf, device)
       /\ map' = IF Replayed.handle \in DOMAIN map[Replayed.kind] THEN map
                 ELSE [map EXCEPT ![Replayed.kind] = With(@, Replayed.handle, h)]
  /\ Recorded(Kept) /\ GoOn
  /\ UNCHANGED <<restored, rm_modules, rm_functions, loaded, device, files, client,
                 saved, checkpoint, used>>

(* cr_restore_streams, _events, _cusolver and _cublas.                     *)
cr_restore_handle ==
  /\ Restoring /\ Replayed.fn = "create" /\ Replayed.kind \in Translated
  /\ \E h \in Places(Replayed.kind) :
       /\ live' = Created(live, Replayed.kind, h, Replayed.conf, device)
       /\ map' = [map EXCEPT ![Replayed.kind] = With(@, Replayed.handle, h)]
  /\ Recorded(Kept) /\ GoOn
  /\ UNCHANGED <<restored, rm_modules, rm_functions, loaded, device, files, client,
                 saved, checkpoint, used>>

ElfIs(right) ==
  /\ Restoring /\ Replayed.fn = "elf_load"
  /\ Replayed.key \in DOMAIN file_elf /\ file_elf[Replayed.key] = right

Bug_OneModule ==
  /\ ElfIs(TRUE)
  /\ \E p \in Handle \ DOMAIN loaded :
       /\ loaded' = With(loaded, p, [key |-> Replayed.key, dev |-> device])
       /\ rm_modules' = IF rm_modules = Nothing THEN With(rm_modules, Replayed.key, p)
                        ELSE rm_modules
  /\ Recorded(Kept) /\ GoOn
  /\ UNCHANGED <<restored, map, rm_functions, live, device, files, client, saved,
                 checkpoint, used>>

cr_restore_elf ==
  /\ ElfIs(TRUE)
  /\ \E p \in Handle \ DOMAIN loaded :
       /\ loaded' = With(loaded, p, [key |-> Replayed.key, dev |-> device])
       /\ rm_modules' = With(rm_modules, Replayed.key, p)
  /\ Recorded(Kept) /\ GoOn
  /\ UNCHANGED <<restored, map, rm_functions, live, device, files, client, saved,
                 checkpoint, used>>

(* A file that is too short cannot be read, but what is returned then is   *)
(* the result of the recorded call: the replay goes on without the module. *)
cr_restore_elf_passes ==
  /\ ElfIs(FALSE)
  /\ pos' = pos + 1 /\ faithful' = FALSE
  /\ Recorded(Kept)
  /\ UNCHANGED <<mode, restored, managers, gpu, files, client, saved, checkpoint, used>>

(* A file that was never written is not opened, its contents are whatever  *)
(* the memory held, the driver refuses them, and the file that is not open *)
(* is closed.                                                              *)
cr_restore_elf_crashes ==
  /\ Restoring /\ Replayed.fn = "elf_load" /\ Replayed.key \notin DOMAIN file_elf
  /\ Stop
  /\ UNCHANGED <<files, saved, checkpoint, used>>

(* The driver does not take a file of garbage, or refuses to create an     *)
(* object: the restore gives up, and the server serves all the same.       *)
restore_gives_up ==
  /\ Restoring
  /\ \/ ElfIs(FALSE) /\ UNCHANGED used
     \/ /\ Replayed.fn = "create" /\ Replayed.kind \in Translated
        /\ used.failures < MaxFailures
        /\ used' = [used EXCEPT !.failures = @ + 1]
  /\ mode' = "serving" /\ faithful' = FALSE
  /\ Recorded(Kept)
  /\ UNCHANGED <<pos, restored, managers, gpu, files, client, saved, checkpoint>>

(* cr_call_record: the handler runs again and records itself again.        *)
Again(r) ==
  /\ api_records' = api_records \o <<Kept, r>>
  /\ GoOn
  /\ UNCHANGED <<restored, map, rm_modules, loaded, files, client, saved, checkpoint,
                 used>>

Bug_DestroySkipped ==
  /\ Restoring /\ Replayed.fn = "destroy"
  /\ Again(Replayed)
  /\ UNCHANGED <<live, device, rm_functions>>

(* The handle may be one the replay did not create again; what a driver    *)
(* does then is taken to be a refusal.                                     *)
destroy_again ==
  /\ Restoring /\ Replayed.fn = "destroy"
  /\ live' = Destroyed(live, Replayed.kind, resource_mg_get(Replayed.kind, Replayed.handle))
  /\ Again(Replayed)
  /\ UNCHANGED <<device, rm_functions>>

Bug_BindUntranslated ==
  /\ Restoring /\ Replayed.fn = "bind"
  /\ live' = Bound(live, Replayed.kind, resource_mg_get(Replayed.kind, Replayed.handle),
                   Replayed.on)
  /\ Again(Replayed)
  /\ UNCHANGED <<device, rm_functions>>

bind_again ==
  /\ Restoring /\ Replayed.fn = "bind"
  /\ live' = Bound(live, Replayed.kind, resource_mg_get(Replayed.kind, Replayed.handle),
                   resource_mg_get("stream", Replayed.on))
  /\ Again(Replayed)
  /\ UNCHANGED <<device, rm_functions>>

(* A handle of a repeated kind: nothing is mapped to the new one.          *)
create_again ==
  /\ Restoring /\ Replayed.fn = "create" /\ Replayed.kind \in Repeated
  /\ \E h \in Places(Replayed.kind) :
       /\ live' = Created(live, Replayed.kind, h, Replayed.conf, device)
       /\ Again([Replayed EXCEPT !.handle = h])
  /\ UNCHANGED <<device, rm_functions>>

set_device_again ==
  /\ Restoring /\ Replayed.fn = "set_device"
  /\ device' = Replayed.handle
  /\ Again(Replayed)
  /\ UNCHANGED <<live, rm_functions>>

register_again ==
  /\ Restoring /\ Replayed.fn = "register"
  /\ Registered(Replayed.name, Replayed.key)
  /\ Again(Replayed)
  /\ UNCHANGED <<live, device>>

restore_complete ==
  /\ mode = "restoring" /\ pos > Len(file_records)
  /\ mode' = "serving"
  /\ UNCHANGED <<pos, restored, managers, gpu, api_records, files, client, ghosts, used>>

------------------------------------------------------------------------------
Handler ==
  \/ \E k \in Kinds, conf \in Confs : create(k, conf)
  \/ \E k \in Kinds : \E h \in DOMAIN client.objects[k] :
       \/ destroy(k, h)
       \/ \E s \in DOMAIN client.objects["stream"] : bind(k, h, s)
  \/ \E d \in Devices : cuda_set_device(d)
  \/ \E m \in Modules : rpc_elf_load(m)
  \/ \E m \in DOMAIN client.modules, f \in Functions : rpc_register_function(f, m)

CallRecord ==
  \/ destroy_again \/ bind_again \/ create_again \/ set_device_again \/ register_again

Next ==
  \/ Handler
  \/ server_runtime_checkpoint \/ checkpoint_stale_elf \/ svc_exit
  \/ server_runtime_restore
  \/ cr_restore_handle \/ cr_restore_elf \/ cr_restore_elf_passes
  \/ cr_restore_elf_crashes \/ restore_gives_up \/ CallRecord
  \/ restore_complete

Spec == Init /\ [][Next]_vars

------------------------------------------------------------------------------
Map(D, S) == UNION {[E -> S] : E \in SUBSET D}

(* The type invariant. *)
TypeOK ==
  /\ mode \in {"serving", "down", "restoring"} /\ pos \in Nat \ {0}
  /\ mode = "restoring" => pos <= Len(file_records) + 1
  /\ restored \in BOOLEAN /\ faithful \in BOOLEAN
  /\ checkpoint \in {"none", "damaged", "complete"}
  /\ map \in [Kinds -> Map(Handle, Handle)]
  /\ rm_modules \in Map(Modules, Handle) /\ rm_functions \in Map(Functions, Function)
  /\ live \in [Kinds -> Map(Handle, Object)] /\ loaded \in Map(Handle, Module)
  /\ device \in Devices
  /\ file_elf \in Map(Modules, BOOLEAN)
  /\ \A c \in {client, saved} :
       /\ c.objects \in [Kinds -> Map(Handle, Object)] /\ c.device \in Devices
       /\ c.modules \in Map(Modules, Devices) /\ c.functions \in Map(Functions, Modules)

Settled == mode = "serving" /\ faithful

Held(k) == DOMAIN client.objects[k]

Leads(k) ==
  \A h \in Held(k) :
    LET p == resource_mg_get(k, h)
    IN  /\ p \in DOMAIN live[k]
        /\ live[k][p].conf = client.objects[k][h].conf
        /\ live[k][p].dev = client.objects[k][h].dev

(* Every handle the client holds leads to a live object with the flags it  *)
(* asked for, on the device that was current, however handles were reused  *)
(* and devices changed before the checkpoint and after the restart.        *)
HandlesLead ==
  Settled => \A k \in Kinds \cap Translated : Leads(k)

(* The same of the kinds that the replay creates through their handlers.   *)
RepeatedHandlesLead ==
  Settled => \A k \in Kinds \cap Repeated : Leads(k)

(* What the client bound to a stream is bound to the object that the       *)
(* stream's handle leads to: two managers' translations agree.             *)
BindingsFollow ==
  Settled => \A k \in Kinds \cap Translated : \A h \in Held(k) :
    LET s == client.objects[k][h].on
        p == resource_mg_get(k, h)
    IN  s # None => p \in DOMAIN live[k] /\ live[k][p].on = resource_mg_get("stream", s)

(* No two handles lead to one object, and no object is left that nobody    *)
(* can destroy, though every restart replays all creations.                *)
EveryObjectIsHeld ==
  Settled => \A k \in Kinds \cap Translated :
    /\ DOMAIN live[k] = {resource_mg_get(k, h) : h \in Held(k)}
    /\ Cardinality(DOMAIN live[k]) = Cardinality(Held(k))

(* A kernel's stub leads to the function of that name in the module that   *)
(* was loaded for its fat binary, on the device it was loaded on.          *)
FunctionsLead ==
  Settled => \A f \in DOMAIN client.functions :
    LET m == client.functions[f]
    IN  /\ f \in DOMAIN rm_functions /\ rm_functions[f].name = f
        /\ rm_functions[f].module \in DOMAIN loaded
        /\ loaded[rm_functions[f].module] = [key |-> m, dev |-> client.modules[m]]

(* What the client finds of an object by its handle h, its stream by the   *)
(* handle that leads there.                                                *)
Found(k, h) ==
  LET p == resource_mg_get(k, h)
      on == {s \in Held("stream") : resource_mg_get("stream", s) = live[k][p].on}
  IN  IF p \notin DOMAIN live[k] THEN None
      ELSE [live[k][p] EXCEPT !.on = IF @ = None THEN None ELSE CHOOSE s \in on : TRUE]
FoundModule(p) == IF p \in DOMAIN loaded THEN loaded[p] ELSE [key |-> None, dev |-> None]
Finds ==
  [objects |-> [k \in Kinds \cap Translated |-> [h \in Held(k) |-> Found(k, h)]],
   device |-> device,
   modules |-> [m \in DOMAIN client.modules |-> FoundModule(rm_modules[m]).dev],
   functions |-> [f \in DOMAIN client.functions |-> FoundModule(rm_functions[f].module)]]

(* What it should find. *)
Table(c) ==
  [objects |-> [k \in Kinds \cap Translated |-> c.objects[k]], device |-> c.device,
   modules |-> c.modules,
   functions |-> [f \in DOMAIN c.functions |->
                    [key |-> c.functions[f], dev |-> c.modules[c.functions[f]]]]]

State == IF mode # "serving" THEN "down" ELSE IF faithful THEN "up" ELSE "lost"
Holds == IF State = "up" THEN Finds ELSE Table(NewClient)
OnDisk == Table(IF checkpoint = "complete" THEN saved ELSE NewClient)
Promise == INSTANCE ClientHandles WITH
  Kinds <- Kinds \cap Translated, state <- State, holds <- Holds,
  good <- checkpoint = "complete", saved <- OnDisk

(* What the client finds of streams, events, library handles, device,      *)
(* modules and functions, through the managers and their translations, is  *)
(* what ClientHandles promises: its own calls change it, one object at a   *)
(* time, and a restart gives back what was there at the last checkpoint    *)
(* (cr_restore, cr_call_record, resource_mg_get).                          *)
ImplementsClientHandles == Promise!Spec
==============================================================================
