# Models and proofs for the GPU sharing code

The repository runs CUDA programs against a GPU in another process or on
another machine. It has two halves that share no code: `src/cricket-trial` is
Cricket, which virtualises the CUDA API with ONC RPC and adds checkpoint and
restart; `src/fake_cuda` and `src/GRPC_Network` are a PyTorch dispatch hook
that sends each ATen operation to a gRPC server. This directory models what in
both depends on order, failure, aliasing or arithmetic, checks it with TLC, and
proves the parts that should hold for every instance with TLAPS.

## The system

```
 application ── cpu-client*.c ──RPC──> cpu-server*.c ──> CUDA driver, GPU
 (LD_PRELOAD)        │                   │    │
                     │                   │    ├─ resource-mg.c   handles, pointers: client -> server
                mt-memcpy.c <──TCP──> mt-memcpy.c  copy threads
                                         │    ├─ api-recorder.c, list.c   what was called
                                         │    ├─ gsched_none.c   whose turn it is
                                         │    └─ cr.c  <──> files of a checkpoint
 PyTorch ── interceptor.py ── remote_client.py ──gRPC──> server.py
```

| component | state | operations | how it interacts | hard part | correct when |
|---|---|---|---|---|---|
| Resource managers (`resource-mg.c`) | `bypass`, sorted `map_res`, unsorted `new_res` | init, create, get, add_sorted, for handles and for blocks of memory | called by every RPC handler; filled by the restore | bisection with unsigned bounds; pointers into blocks | behaves as a map from client handles to server handles |
| Recorder (`api-recorder.c`) | list `api_records` | append a record with arguments, result, data | written by the handlers, dumped and replayed by `cr.c` | frees do not cancel allocations; a signal may dump half a record | the records determine what the client holds |
| Checkpoint and restart (`cr.c`, `cpu-server.c`) | the files of a checkpoint, the replay position | dump of the records, images and memory; replay | signal handler or RPC on the dump side; before `svc_run` on the restore side | crash half-way, failing calls, reused addresses, drivers that place blocks elsewhere, a checkpoint of a restored server | the client's handles lead to what it stored there |
| Runtime API (`cpu-server-runtime.c`) | `hainfo`, list of parallel copies, managers | about 150 handlers: translate, call, record | RPC from the client | host memory tables of a fixed size; calls that are recorded or replayed inconsistently | each handler finds the resource its client means |
| Driver API (`cpu-server-driver.c`) | managers of modules, functions, globals | load, register, unload, get function, launch | RPC | functions belong to modules that are unloaded and reloaded | a registered function leads to the function of a loaded module |
| Library handlers (`cpu-server-cublas.c`, `-cusolver`, `-cudnn`, `-cublaslt`, `-nvml`) | handles | create, translate, forward, destroy | RPC | which of them a restart brings back | handles survive a restart |
| Parallel copy (`mt-memcpy.c`, `oob.c`) | list of transfers, a listener and n copy threads each | init, accept, receive or send a part, sync | RPC thread and client threads over TCP | parts arrive on connections in any order; the list moves; a peer goes away | after the sync every byte of the block has arrived, once |
| Scheduler (`gsched_none.c`) | table of connections, mutexes | retain, release, remove | around every handler | retain and release have to pair | one connection uses a device at a time |
| Lists (`list.c`) | storage, length, capacity | append, insert, remove, at | used by all of the above | pointers into storage that moves | a sequence |
| InfiniBand (`cpu-ib.c`) | 32 memory registrations | register, send, receive | alternative to TCP | fixed tables | a transfer uses its own registration |
| Host memory (`cudaHostAlloc` in both `-runtime.c`) | a table `hainfo` of 64 entries on either side, names in `/dev/shm` | allocate, map, unlink, free, copy by index | client and server meet by name only | clients that fail or are killed half-way, tables that are numbered independently | a copy moves the caller's own memory |
| Client (`cpu-client*.c`) | connection, list of kernels, fat binaries | a stub per CUDA call, registration, launch, connect, repair | RPC | a signal between two calls; what is known of a kernel comes from three places | a call is made on a live connection, a kernel gets the arguments its caller gave |
| ELF reader (`cpu-elf2.c`) | none | walk over a fat binary, decompress, parse | client start-up, `elf_load` | lengths and offsets read from the data, matches that overlap themselves | the text parsed is the cubin that was compressed |
| Migration (`tests/cr/*.sh`, `cpu-server.c`) | the directory of the checkpoint, CRIU's image | signal, dump, kill, restart, restore | between processes that do not wait for each other | the two images are taken at different times, one of them in a signal handler | a restored client finds its memory |
| In-kernel checkpoint (`gpu/src`) | call stacks of the GPU | through cuda-gdb | separate tool | vendor debugger | a kernel resumes where it was |
| Python interceptor (`fake_cuda`) | dispatch mode, channel | dispatch, connect, install | gRPC | in-place operations, aliases, fallback after a lost answer | a program computes what it computes locally |
| Python server (`GRPC_Network`) | none between calls | execute an operation on copies | thread pool of 4 | tensors that are views | tensors arrive unchanged |

`PROJECT.json` lists every place where these parts are hard to test
("hazards") with the property that watches it.

## Modules

| module | models | uses |
|---|---|---|
| `HandleMap` | what `resource-mg.h` promises of the handle managers: a map that get, create and add_sorted read and write in one step | |
| `ResourceMg` | `resource_mg_*` with the loops of both bisections, one comparison per step | refines `HandleMap` |
| `BlockMap` | the same promise for blocks of memory: a pointer anywhere in a block is moved with it | |
| `MemoryMg`, `MCMemoryMg` | `memory_mg_*`, loops included | refines `BlockMap` |
| `ClientMemory` | what checkpoint and restart promise a client: memory that only its own calls change, and that a restart sets back to the last good checkpoint | |
| `CheckpointRestart`, `MCCheckpointRestart` | recorder, checkpoint, restart and the memory handlers for one client, with its image | `memory_mg_*` as single steps; refines `ClientMemory` |
| `ClientHandles` | the same promise for everything else a client holds: a table of objects, a device, modules and functions | |
| `HandleRestore`, `MCHandleRestore` | checkpoint and restart of streams, events, library handles, the current device, modules and functions | `resource_mg_*` as single steps, a checkpoint as one; refines `ClientHandles` |
| `MtMemcpy` | the parallel copy: client threads, RPC thread, listeners, copy threads and the list they share | |
| `HostMemory` | `cudaHostAlloc` over shared memory: server, clients, names, copies by index | |
| `FatBinary` | the client's reading of a fat binary: walk, decompression, parameters | |
| `KernelLaunch`, `MCKernelLaunch` | registration of kernels, packing and translation of the arguments of a launch, restart | extends `FatBinary`, an instance of `BlockMap` |
| `Migration` | checkpoint and restart of server and one of its clients by script, with the signal inside a handler that is cut into steps | recorder and replay of `CheckpointRestart` in less detail; refines `ClientMemory` |
| `RemoteDispatch`, `MCRemoteDispatch` | the Python half: modes, connection, calls, the server's pool, the fallback | |
| `TensorCodec` | how a tensor is read out of memory, sent and rebuilt | |
| `ResourceMgProofs`, `MemoryMgProofs`, `CheckpointRestartProofs`, `HandleRestoreProofs`, `MigrationProofs`, `MtMemcpyProofs`, `RemoteDispatchProofs` | theorems, each about the module it is named for | |
| `DataProofs` | theorems about data on its way: `HostMemory`, `TensorCodec` and `KernelLaunch` with `FatBinary` | extends the three |

### Resource managers

`ResourceMg` keeps `map_res` as a sequence of records, `start`, `end` and `mid`
as the locals of the loop, and `pc`-like `call` for which function runs.
`resource_mg_get` and `resource_mg_add_sorted` differ in the code in how they
leave the loop, and do here. The `size_t` bounds are integers with -1 standing
for `SIZE_MAX`: `WindowHoldsKey` and `TypeOK` show that the wrapped value is
never used as an index. The step that returns is the step of `HandleMap`; all
others stutter. `MemoryMg` has the three comparisons of `memory_mg_get`
(start, inside, right of) and blocks with sizes. Neither models
`malloc` or `list_append` failing.

### Checkpoint and restart

| action | code |
|---|---|
| `cuda_malloc`, `cuda_malloc_fails`, `cuda_free` | the handlers of `cpu-server-runtime.c`, with their records |
| `cuda_memcpy_htod` | every call that only changes memory and that the replay passes over (`cr.c:887-891`, `940`): copies, `cudaMemset`, launches |
| `cuda_memset_3d` | every call that only changes memory and that the replay repeats with the same effect (`cr.c:965`): `cudaMemset2D` and `3D`, the asynchronous variants, cuBLAS |
| `cuda_memcpy_shm` | copies from memory shared with the client, which the replay repeats from a segment that is new |
| `cuda_memcpy_mt` | a parallel copy, which leaves two records, its beginning and its sync; the replay repeats both, without a client |
| `cr_dump`, `cr_dump_fails` | `cr_dump`: all records are rewritten in place |
| `cr_dump_memory_entry`, `dump_*` | one turn of the loop of `cr_dump_memory`, and each way it fails |
| `checkpoint_created` | the end of `cricket_server_checkpoint`; here the client's image is taken |
| `svc_exit`, `Crash` | the process ends while serving, or anywhere |
| `server_runtime_restore` | a start with `CRICKET_RESTORE=yes`: empty managers, no bypass, the client's image |
| `cr_restore_memory`, `restore_*`, `cr_call_record` | one turn of the loop of `cr_restore` per kind of record and outcome |
| `replayed_sync_waits` | a replayed sync that hits on a replayed copy and joins its listener (`cpu-server-runtime.c:1766`): the server stays in the mode "joining" until somebody kills it |
| `restore_complete` | `svc_run` |

The driver is a set of live blocks; `Placement` says what is known about where
`cudaMalloc` puts a block. Reading through a variable that was never
initialised is a choice between its outcomes (`restore_short_file`,
`cuda_malloc_fails`). `Stores` says which of the four kinds of stores the client
uses. `saved`, `checkpoint`, `faithful` and `missed` are history variables: no guard
of the code reads them. The server says of a checkpoint that it was "successfully
created" whatever happened to single blocks (`cpu-server.c:95`): such files are
`Reported`, which is "complete" or "doubtful", the latter if a block's file could not be
opened (it is in `missed`), if a failed `cudaMalloc` is among the records or if the server
itself came from no complete checkpoint. `FirstCheckpointCovers` is about all that is
reported; what is promised of a restart is promised of complete checkpoints.

`ImplementsClientMemory` maps all of it to `ClientMemory`, which has no records, files,
translations or device: a client has blocks by its pointers to them, and a checkpoint is a
copy of these. Its `memory` is what the client finds when it looks its
pointers up (`Found`), so the property says more than that the client's
image is right: at every step, the look-up for every pointer is what it was, but for the one block that the
client allocates, frees or stores in. A dump takes the checkpoint away with its first step (`Spoil`) and
gives the new one with its last; a replay is one step, its last (`Restart`), and while it
lasts nothing is promised. A server that came up without a good checkpoint, or that gave up half-way, is `lost`: up, with no promise.

What is abstracted: the contents of a block is one value; a call that fails at
`fopen` of the record file, before anything is written, changes nothing and is
left out; `fclose` is not checked by the code and its failure is not a separate
step; host memory never runs out; the checkpoint runs between handlers, though
`signal_checkpoint` may interrupt one; the image of the client is taken at the
moment the checkpoint is reported, though the script starts CRIU on its own; a
crash cuts the record file between records; a server never starts afresh
beside the files of an older checkpoint.

### Handles, modules and functions

`HandleRestore` keeps the managers as the maps they implement and follows what
a client holds beside memory. The handlers differ in which of three ways brings
a handle back, and the model has one action for each way:

| way | kinds | code | action |
|---|---|---|---|
| translated | stream, event, cuSOLVER, cuBLAS | `cr_restore_streams`, `_events`, `_cusolver`, `_cublas`: create again, map the old handle to the new one | `cr_restore_handle` |
| repeated | cuDNN | the default branch of `cr_restore_resources` calls the handler again; the new handle is in the result, which nobody reads; the manager was initialised with `restore` as its bypass flag, the others with `!restore` | `create_again` |
| by key | fat binaries, functions | `cr_restore_elf` loads the file of the client's handle; `rpc_register_function` is called again | `cr_restore_elf`, `register_again` |

`bind`, `destroy` and `cuda_set_device` stand for the calls that relate two
handles, end one, or change where the next one is created; the replay calls
their handlers again (`bind_again`, `destroy_again`, `set_device_again`), and a
handler that is called again appends its own record, beside the one the replay
keeps: the list grows with every restart. The field `image` of a record says
that the ELF pointer in it belongs to this process; a record kept from an
earlier one makes `cr_dump_elf_entry` empty the file and then follow a stale
pointer (`checkpoint_stale_elf`: an error that ends the dump, garbage, or a crash).
What a restart does with such files has three ways: garbage that can be read is
refused by the driver and the restore gives up (`restore_gives_up`); a file that is too short
makes `cr_restore_elf` return the result of the recorded call, so the replay goes
on without the module (`cr_restore_elf_passes`); a file that is not there is closed all the
same, which ends the process (`cr_restore_elf_crashes`). A failed
restore leads to a server that serves, because `ret &=` in
`server_runtime_restore` keeps the 0 it starts from.

`ImplementsClientHandles` maps the translated kinds, the device, the modules and the
functions to `ClientHandles`, a table without records, managers or driver: an object is its
flags, its device and the handle of its stream. The table of the mapping (`Finds`) is not
the client's own image of it but what it finds: an object through `resource_mg_get`, its
stream by the handle that leads to what the driver bound it to, a function by the module its
stub leads to. So the property relates all managers at once, and says of each call that it
changes nothing else. A replay is one step of it, its last; a checkpoint a step as well,
`Spoil` where no restart can rely on it.

Abstractions: a checkpoint is one step, its partial failures are in
`CheckpointRestart`; creations of a serving server succeed; the default stream
0 is not represented; a program binds objects only to streams of the same
device, as CUDA asks; an object bound to a stream that is destroyed is left
with none; a replayed destroy of a handle the replay did not create again is taken to be
refused by the driver; a fat binary is loaded once and never unloaded
(`cpu-client.c:448` has the call commented out). Left out: `cudaDeviceReset`,
arrays, graphs, contexts, device variables, what a restart makes of modules that
`cuModuleLoadData` loaded, cuBLASLt.

### Parallel copies

`MtMemcpy` follows one `cudaMemcpy` of each client through three calls: an init
(`cuda_memcpy_mt_htod`, `_dtoh`), the transfer over one connection per thread,
and the sync.

| action | code |
|---|---|
| `mt_memcpy_init_server`, `init_allocates`, `pthread_barrier_wait` | the RPC thread in an init: element of the list and listener; the memory; the barrier and the reply |
| `listener_opens`, `listener_accepts`, `listener_joins` | `mt_memcpy_server_thread` |
| `copy_thread_*` | `mt_memcpy_copy_thread`, one per connection |
| `mt_memcpy_client`, `thread_sends`, `thread_receives` | `mt_memcpy_client` and its threads |
| `cuda_memcpy_mt_sync`, `sync_returns` | the sync: the join, and `list_rm` if the element is the last |
| `list_append`, `dangling_pointer` | the storage of the list moves when it grows; threads use their pointer into it afterwards |
| `listener_fails`, `connect_fails`, `copy_thread_fails` | a socket, a connection, a `cudaMemcpy` that fails |

A block is a function from cells to the cell of the source they hold, so that a
part in the wrong place, twice or missing can be told. The RPC server is one
thread: `rpc` names the call that holds it, waiting in the barrier or the join
included. The accept queue is merged with accepting. The client's half is built
only WITH_MT_MEMCPY (`cpu-client-runtime.c:1710`); the server's handlers are
always there. Not modelled: `pthread_cancel` of copy threads, a failing
`malloc`, the client's RPC timeout of 25 s, and a copy to a NULL pointer, the
only way into the loop of `cpu-server-runtime.c:1770`.

### Host memory

`HostMemory` has one step per handler of the server and one for what a client
does between two of its calls, for two clients on the server's host.

| action | code |
|---|---|
| `cudaHostAlloc` | the guard on the client's own table and the call |
| `cuda_host_alloc`, `host_alloc_*_fails` | `cuda_host_alloc_1_svc`: name, `shm_open`, `ftruncate`, `mmap`, `cudaHostRegister`, and what each failure leaves behind (the name, the counter) |
| `client_maps`, `client_*_fails` | the client's `shm_open` and `mmap` of the name the server made |
| `cuda_host_alloc_regshm`, `regshm_fails`, `client_unlinks` | the name goes; the client unlinks it once more |
| `cudaFreeHost`, `cuda_free_host` | the client names the entry by its place in its own table; over TCP the server keeps it, entry 0 is never given back |
| `cudaMemcpy`, `cuda_memcpy_shm` | a copy by the index the server gave, with the check the handler makes |
| `cudaMemcpyToSymbol`, `cuda_memcpy_to_symbol_shm` | the same by the place in the client's table, which is another number |
| `client_exits` | exit or kill between any two steps, and a new process |

A segment is a number; `linked` is `/dev/shm`. `O_CREAT | O_TRUNC` of an
existing name opens what is there (`Fresh`), so a name left behind can make two
allocations one. That it does not is `AllocationsAreApart`: the counter has
moved past every name that somebody has mapped. What `cudaMemcpyToSymbol` moves is not
compared, for it sends the wrong index (Findings). Nothing in the code compares the counters with
the 64 entries of the tables: the guards on `Slots` end the model there. The device memory of
checkpoints and the bytes of a segment are left out, and there is one server:
two on a host use the same names.

### Fat binaries and launches

`FatBinary` walks over the sections of a fat binary as `elf2_get_fatbin_info`
does, with the loop of `decompress` in one action per part of its body: `token`,
`plain_length`, `plain`, `offset`, `match_length`, `match`. What nvcc writes is the inverse
(`Encoded`), so that what comes out can be compared with what went in: a compressed
section comes with its tokens, each of which says where it begins on either side, how
many bytes stand as they are, and how long and how far back its match is. `IsFatBinary`
says what nvcc writes, and is assumed of every fat binary (`FatBinariesAssumption`): tokens that
join up and repeat what is there, only the last without a match, and cubins that list all
parameters of their kernel and their size. A byte of a cubin is the parameter, size or nothing it stands for, and `get_parm_for_kernel`
collects them in any order they are listed. `decompressed` has the `memset` of
the padding, which goes over the beginning of the output (Findings).

`KernelLaunch` continues: `cudaRegisterFatBinary` and its failure,
`cudaRegisterFunction` (the client exits if the server refuses a function it knows),
`cuModuleLoadData` of an image as it stands, `cuModuleGetFunction` and its failure, `launch_kernel` (the client packs arguments at the offsets it
read), `translate_param` (one turn of the loop of `cuda_launch_kernel_1_svc`: eight
bytes are read, looked up and written back, whatever the width of the
parameter), `cuLaunchKernel`. Since every parameter is looked up as a pointer,
`mistaken` collects those that were changed and are none; `ArgumentsArrive` says
that such a coincidence, which needs a restart, is the only way an argument is lost, overlapping
windows included. A restart here only means that two blocks have changed
places.

A kernel is known before it has a `host_fun`: until it is registered the field is whatever
the storage of the list held (`Unset`), and it is again after a `cuModuleGetFunction` that
got no function, as the client then keeps a result that nothing was put into. Such an
entry is equal to no function for certain and may be equal to any, so a launch of a function
behind it may take it (`launch_astray`). Nothing can be said of such a launch, and it is not
followed; what is said of others holds beside it.

Left out: the ELF format around the entries (section names, symbols), `cuModuleLoad` of a
file, unloading, launches over more than one device, `cudaLaunchCooperativeKernel` (Findings), and global
variables.

### Migration

`Migration` composes what the other modules keep apart: the server's handlers are cut where
a signal may come in between (`list_append`, `record_api`, `execute`,
`record_result`, `answer`), and beside them run the clients, the two scripts and CRIU.

| action | code |
|---|---|
| `calling`, `returns`, `call_fails` | a call of a client; a connection that is gone fails it |
| `list_append`, `record_api`, `record_result` | `RECORD_API`, `RECORD_RESULT`: a new element has what the memory held before until the result is set |
| `signal_checkpoint`, `checkpoint_crashes` | `signal_checkpoint` of `cpu-server.c`, in the handler it meets; the arguments of a record that is not set are read from anywhere |
| `kill_usr1`, `criu_dump`, `restart`, `criu_restore` | `checkpoint.sh` and `restore.sh`, which wait for nobody |
| `svc_register`, `cr_restore_*` | start of the server: it is registered and its socket listens before the replay |
| `repair_connection`, `repaired` | the client's handler of `SIGUSR1`, which `restore.sh` sends |

`Fit` names what the scripts leave to chance: the client is in no call of its own when
the checkpoint is written and makes none until CRIU freezes it. Every conjunct
is needed: without any of them TLC finds a client whose memory is not what it
stored. With it, `ClientFindsItsMemory` holds even where the signal came upon
another client's handler and the replay gave up at its half-written record,
because the records are replayed in order and that record is the last.
`RestoredClientIsServed` is about the order of listening and replaying: a client that comes back
early waits in the server's queue.

`ImplementsClientMemory` maps the whole to `ClientMemory` too, seen from App and with
another division of labour: there is a good checkpoint from the moment on at which both
images are there and fit, which is CRIU's dump or, if the server is late, the
signal's handler; there is a memory while somebody may ask for it, so the restart is the step by which
the second of server and client comes up. App's blocks are those it has been told of or is about to be
(`Stored`); a call takes effect in `execute`, in one step, and no step of other clients, of
the signal, the scripts, CRIU or the replay is seen at all.

Blocks are named by their caller and number; reuse of addresses, frees and
where a restart puts a block are in `CheckpointRestart`. `restore.sh` waits three
seconds for the server to listen; the model has the client exit when it is
earlier, as `clnt_create` fails then.

### Remote operations

`RemoteDispatch` follows each operation of a PyTorch program down the stack of
modes of its thread.

| action | code |
|---|---|
| `enable_locally`, `enable_remotely`, `disable`, `disconnect_*`, `connect_*`, `enable_installs`, `intercept` | `enable`, `disable`, `intercept` (`__init__.py`), `connect`, `disconnect` (`remote_client.py`), with other threads between the steps |
| `is_connected`, `not_connected`, `FallBack`, `execute_locally` | `__torch_dispatch__`: the mode is off the stack while it runs, so `func(...)` goes to the mode below |
| `pack_call`, `ExecuteOp`, `unpack_worker`, `return_remote` and their failures | `call_op`; `_stub` is read twice |
| `pool_begins`, `server_answers`, `stray_ends` | the pool of `server.py`; a job whose call was given up still occupies a thread |
| `call_lost`, `call_cancelled` | gRPC |

Two worlds are kept side by side: `store` and `heap`, which tensors share which
storage and what is in it, and `ideal`, the same of a run without a server. An
operation is functional, a view, or in place; contents are a few numbers that
tell operations and their order apart. PyTorch is modelled from how it is used:
an operation the mode answers has a result of its own, and what a mode returns
for an operation in place is dropped. Programs do not race with themselves. Left
out: autograd, random generators (the server has its own), operations without a
tensor, `out=` arguments.

`TensorCodec` has the loop of `tensor_to_proto` that decides whether the bytes
may be sent as they lie, both ways of reading them, and the reconstruction. The
contents of a cell is its address, so `RoundTrip` compares addresses. The walk
over nested arguments and the widths of types are left out.

## Runs

| run | instance | states | what it shows |
|---|---|---|---|
| `resource_mg` | handles 1..5, two targets, lists up to 4 | 133,610 | every search ends with the entry of its handle or with none; together with insertion they are the map of `HandleMap` |
| `memory_mg` | four blocks of sizes 1 to 3 in addresses 1..11, lists up to 4 | 304,044 | a pointer to the start, the middle, the last byte or just past a block is told apart correctly |
| `checkpoint_deterministic` | 3 addresses, one size, two values, 6 records, 2 checkpoints, 2 restarts, 1 crash; the lowest free address is taken | 1,405,291 | where the driver is deterministic and blocks have one size, the client's memory is that of `ClientMemory`, through reuse of addresses and frees that the replay doubles |
| `checkpoint_moved` | the same with parallel copies besides, 5 records, 1 checkpoint, 1 restart; restored blocks go anywhere, and new ones avoid addresses of restored ones | 857,096 | translation makes up for blocks that moved |
| `checkpoint_faults` | 2 addresses, any placement, sizes 1 and 2, all four kinds of stores, 4 records, 2 checkpoints, 1 restart, any one of the faults | 3,103,161 | what a server that restored nothing reports as created lacks no block but one whose file could not be opened; a restore ends unless it has a parallel copy's sync to repeat |
| `handles_moved` | kinds stream, cuBLAS, cuDNN; 2 handles, 2 modules, 1 function, 2 devices, 4 calls, 2 checkpoints, 2 restarts, 1 failing creation | 2,670,689 | what the client finds behind its handles is the table of `ClientHandles`, through two restarts that create everything anew, and no object is left that nobody holds |
| `mt_memcpy` | 2 clients, 2 threads, blocks of 3 cells, a list with room for 2, 3 copies or faults | 431,284 | copies arrive and return; threads keep to their memory and their element |
| `remote_dispatch` | 2 threads, stacks of up to 2 modes, a pool of 1, 2 operations of any kind, 2 channels, 1 lost call | 831,832 | nothing that is lost, refused, closed or repeated changes a result, as long as the server answers functional operations only; every operation returns |
| `tensor_codec` | all tensors of up to 3 dimensions of sizes 0 to 3 with strides up to 6 in 9 cells | 86,388 | elements arrive in place |
| `host_memory` | 2 clients, tables of 3 entries, 4 segments, both transports, every failure at any time | 156,994 | what a client that fails, exits or is killed leaves behind is never another client's memory; copies move their own |
| `kernel_launch` | 2 kernels, cubins of up to 13 bytes in every compression with at most one match, 2 fat binaries or images, functions asked for in vain, then launches with all arguments, before and after a restart | 464,414 | the loop stays inside its buffers, its output is what was compressed, all parameters are known when they are needed, and arguments arrive |
| `migration` | 2 clients with 2 calls each, one checkpoint by signal at any step, one dump, one restart and replay | 575,225 | images that fit give the client its memory back, and until then nobody but the client changes it; a client that comes back early is served |

`RepeatedHandlesLead`, `Identical`, `NoBlockIsLost`, `RecordsTellWhatIsHeld`,
`RunningIsListed`, `ReadsInside`, `Sorted` of both managers and `WindowHoldsKey` of `MemoryMg` are
stated in their modules and belong to no run: the first two do not hold (Findings),
the others follow from a property that is checked beside them or lead to one, and
those of the managers, `RunningIsListed` and `ReadsInside` are proved, and so are `NoBlockIsLost`
and `RecordsTellWhatIsHeld` on the conditions of **Restart** below.

Why the bounds are enough. A search in a list of four entries takes every turn
the loop has (left, right, hit, window closing on either side of the last
element, at both ends of the list), and five handles leave a gap on every side
of four. Two blocks that share an address one after the other, with a third
beside them, are what reuse of addresses needs: three addresses, and six
records (allocate, free, allocate again, and a store or a second block). A second
checkpoint and a second restart are needed for what a restored server does
wrong; a third repeats the second, since a restored server keeps nothing of
which restart it came from but its records. Two handles of a kind let one be
reused while the other is bound. Two threads and three cells give a part that
is larger than the other; two clients and three copies on a list with room for
two make the list grow while a transfer runs. Two channels let a thread's call
meet the end of the old one and the beginning of the new; two modes make an
operation that fails be sent twice before it is executed locally. Three
dimensions have a first, a middle and a last turn of the loop, and strides up to 6
include the contiguous ones.

In `host_memory` the table of three fills up with one entry to spare for each client, and four
segments are one more than the table holds, so that a name is opened again and
the limit is met. In `kernel_launch` a nibble has 2 values, a byte 6, a match is
at least 1 byte long and sections are aligned to 2: a cubin of 13 bytes then has
lengths that need no byte, one, and several (a full byte included) behind the nibble,
distances of one digit and of two, and padding or none. One match suffices
since the loop keeps nothing from one token to the next but its position and
its output, which any match may reach back into. An argument has digits 0 to 2 and an
address two of them. One kernel has two numbers and a pointer without a gap: what is
written back for the first number is also the second, and what is written back for the second is
also half of the pointer, before the pointer itself is looked up. The other has a pointer, a gap and a number that
reaches past the end. Some values are addresses of the two blocks that a restart exchanged.
Two loads let a kernel be known from an image and then be registered, or be known and not. In `migration` two calls
give App a block and a store into it; the other client's call is the one the
signal meets. A third call of either only repeats these, and one checkpoint is all
the scripts take.

`checkpoint_deterministic` allows the crash and no other fault: after a
checkpoint that failed, a short memory file of a block that is then freed stays
and is not written again by the next complete checkpoint, and the replay of the
freed block's record then meets it, where it goes wrong (Findings). The two runs for
restored clients use no stores of the kinds "replayed" and "shared"; with those
the properties do not hold (Findings).

In `checkpoint_faults` two addresses are enough, since what it asks is about the files of a first server:
two blocks, one of which is allocated again with the other's size, or a block of two
cells in the place of two of one. Four records are two allocations, a free and an allocation
again, or an allocation, a parallel copy and one call more. One fault at a time: what two
make together is covered by the theorem, which has no bound on them.

`CHECK_DEADLOCK FALSE` is in the configurations of systems that may stop: the
bounds on calls and restarts run out, a server that is down may never be
restarted, and a crashed one takes no step. `resource_mg` and `memory_mg` check
for deadlock.

### Fairness

`ResourceMg!FairSpec` asks weak fairness of the step inside a call, never of a
caller: the loops take no lock. `CheckpointRestart!FairSpec` asks it of the turns
of the dump and of the restore, which wait for nobody; nothing is asked of the
client, of whoever triggers a checkpoint, of a restart or of a fault.
`MtMemcpy!FairSpec` asks weak fairness of every thread, which the operating
system's scheduler gives, and strong fairness of the RPC thread taking a call of
a given client: other clients' calls disable it again and again, but `svc_run`
serves every connection that is ready before it polls again.
`Migration!Spec` asks it of the server inside a call or a replay, of the answer or failure
of a call App waits for, and of the signal handler of App, and of no script and no
call.
`RemoteDispatch!FairSpec` asks weak fairness of the threads inside an operation and
of the server's pool, and of nothing the program or the network may leave out.

## Proofs

`tlapm` proves these for every value of the constants that satisfies the named
assumptions beside their declarations: handles, addresses and bounds are natural
numbers, sizes are positive, the mark of undefined contents is no value of the
client's, results of operations are contents of tensors. No bound on the number of
records, blocks, checkpoints, restarts or faults is used except that it is a number.
Where a theorem needs more, its statement says so: `Regular` for restored servers in
`CheckpointRestartProofs`, `Placement = "fresh"` for objects in `HandleRestoreProofs`.
Both hold in runs, but for the parallel copies `checkpoint_moved` has besides, and the findings show what
happens without them.

**Resource managers** (`ResourceMgProofs`, `MemoryMgProofs`): `TypeCorrect`, `SortedAlways`,
`WindowAlwaysHoldsKey`, and for handles `WindowAlwaysShrinks`. None of the first three is
inductive alone: that the new element goes to the right place needs the key's
place to be inside the window, which needs the list to be sorted, which needs
insertion at the right place, and the index of every comparison must be inside
the list. `IInv` is their conjunction. The two facts that carry the argument are
`MidIsInWindow` (with a window that is not empty, half the sum of its bounds is
in it) and `InsertPositionIsBorder` (when the window is empty, everything left
of the insertion point is smaller than the key and everything from it on is
larger). `InsertAtIsShift` has what insertion does to a sequence. That the size_t
bounds never wrap to a value that is used (`end` is -1 only when the loop has
ended) is part of `TypeOK`. For blocks the same argument needs that those of the
list do not overlap, which is the one assumption on what the caller adds
(`BlocksAreApart`): then of two blocks the left one ends before the right one starts
(`LeftOnesEndBefore`), so a pointer past the start of a block cannot be in one
further left, and at most one block has it (`OneCovers`).

`ImplementsTheMap` says in both modules that the specification with its loops
implements the abstract one, `HandleMap` or `BlockMap`. The map an entry list
stands for takes of each key the entry with it (`MapAt`); `MapOfChange` says how it
changes when an entry is added or overwritten, and the border found by the loop is
used once more to show that a search that finds nothing has looked for something
that is not in the map.

**Checkpoint** (`CheckpointRestartProofs`): `TypeCorrect`, and
`FirstCheckpointAlwaysCovers`: with any placement, sizes, kinds of stores and
any number of faults, a checkpoint that a server which restored nothing reports as created has
every block of the client's image, with its contents, but those whose own file could not
be opened (`missed`); and with its size, but where a failed `cudaMalloc` was recorded with its
address (`Garbled`). This is not
obvious from the code, since records of freed blocks remain in the list, each is
dumped to a file named by its address, addresses are reused, and a failed call leaves a record with
any pointer. A file that such a record writes is shorter or as it should be: the
size read is within the block that is there, and contents are those of the block. The inductive
invariant `FirstInv` adds to the type invariant

- `Apart`, `Exact`: blocks of the device do not overlap, and the client's image
  of memory is the device's,
- `Tracked`: for every block of the client the last allocation recorded on its
  address that did not fail has its size; what is recorded on it later are stores only, or failed,
- `Written`: of the records the dump has passed, the last allocation on an
  address has left a file with the block's contents,
- `Modes`: a server that is dumping and restored nothing looks nothing up, and
  one that is restoring does not bypass the managers.

So the last writer of a file is the record of the live block, and what it reads
is that block only. The proof has one lemma per action.

**Restart** (`CheckpointRestartProofs`): `ClientAlwaysSeesItsMemory`, `CompleteAlwaysCovers`,
`ActualAddressesAlwaysPass`, `NoBlockIsEverLost`, `RecordsAlwaysTell` and `ImplementsTheMemory` are about servers
that restored a checkpoint. They hold on conditions, named `Regular`; the findings
below show what happens without them:

- `Deterministic`: `cudaMalloc` takes the lowest free address, and blocks have one
  size. The replay then finds the places of the original calls, any number of
  checkpoints and restarts long. Two sizes share a file at one address. Or
- `Elsewhere`: a client is given no address of a restored block, blocks are single cells
  and there is one checkpoint. Longer blocks are caught by the translation of a
  freed one; a second dump reads at addresses nobody translated.
- In both, stores are of the kind that the replay passes over (`Stores`), and no write to a file
  fails. With one checkpoint a failed write only spoils that checkpoint, so for
  `Elsewhere` this simplifies the proof and no more; with two it leaves a short file for the next.

Crashes, a missing checkpoint file and a `cudaMalloc` that fails are allowed, more than in the runs.
`ActualAddressesAlwaysPass` needs besides that `cudaMalloc` does not fail in `Elsewhere`, because
the handler counts the pointer of a failed call as an address of this run (`new_res`).
The invariant `KeptInv` speaks of the client's image, the device, the files, the
translations and both lists of records. `Stands` is about a server in service: the
client's pointers lead one to one to all blocks of the device, which have the
client's contents (`Leads`, `Finds`), and its records tell which pointers it holds (`Tells`).
`Dumps` and `Completes` follow the dump from record to record, as `Written` does.
`Restores` is the point: `Traces` are the sets of blocks that the recorded calls
produced one after the other, and at every record of the replay the device has the
blocks of the trace at that point, at the places that the translations lead to,
with the contents of the files of their addresses (`PutBack`).
That the replay is where the original was only has to be shown for one call,
`RestoreMemoryKept`: the lowest free place of equal sets of blocks is equal.
What `Bisect` finds is proved too (`EntryIsFound`, `OthersPassThrough`): it is a
recursive function over windows, and a window where it is wrong while it is right
in all smaller ones does not exist (`LeastOf`, from the well-foundedness of `<`).

`ImplementsTheMemory` says that the model is a `ClientMemory`. `MemoryFound`, which
follows from `KeptInv`, says that what the pointers lead to is the client's image of it as long as
the server promises anything; with it in both states of a step, each handler is the step of its name,
every step of a dump that does not complete it is a `Spoil`, and the end of a replay is
`Restart` or `Lose` by whether `Restores` still held (`EndImplements`).

**Handles** (`HandleRestoreProofs`): `TypeCorrect`, `FunctionsAlwaysLead`, `HandlesAlwaysLead`,
`BindingsAlwaysFollow` and `EveryObjectIsAlwaysHeld`, for any handles, kinds, devices,
modules, checkpoints and restarts. The replay repeats every call since the first, those on
objects that are gone as well, with other handles than the original got, and appends
to the list it will be replayed from the next time, some records twice. The proof goes by
what the client holds by the records alone: `Core` is the part of the client that a
restart must bring back, `Follows` says what one record makes of it, a
`History` has one `Core` before and after each record, and `Told` says that a list ends in one. `Agrees`
relates a `Core` to the server's tables, by a bijection through
`resource_mg_get` for objects (`Match`). The invariant `IInv` then says

- `Up`: while a server is in service, its records tell what the client holds, and its
  tables agree with it,
- `Covered`: the records in a complete checkpoint tell what the client held at that time,
- `Replaying`: some `History` of the file has the server's tables and its new list agree
  with it at the current record,
- `Quiet`: a server that is down has nothing.

A destruction is in the list twice after a restart; the second one is only
harmless because it comes at once, before the handle is given out again, and finds the
object gone (`Late`, `Repeats`). Objects need `Placement = "fresh"`: otherwise a client
may be given a handle that a restored object goes by, and
`create` does not enter it into the manager. Types, modules and functions need no assumption: they are named by the
client and always entered. Nothing is claimed of cuDNN (`RepeatedHandlesLead`), which is a finding.

`ImplementsTheHandles` says, on the same condition, that the model is a `ClientHandles`. `Clear`, which
follows from `IInv`, says that what the client finds is the table its own calls add up to: through `Match`
an object has one handle, so the one that leads to its stream is the one the client bound it to
(`FoundIs`). With `Clear` in both states, each handler is the step of its name or, for kinds that are not
translated, none; a created object gets a name the client does not use because
`HandleLeads` has every name in use lead to a live object. The end of a replay is `Restart` or `Lose` by
whether the checkpoint was complete (`Replaying`).

**Remote operations** (`RemoteDispatchProofs`): `TypeCorrect` and
`OnlyEffectsEverDiffer`, for any threads, tensors, meaning of the operations, pool
and bounds. That the two programs have the same contents now says nothing of what
an answer on its way will make of them, so the inductive invariant `IInv` adds

- `Jobs`: a thread has a job in one place only (queued, worked on or answered),
  once, and only while it waits; giving a call up leaves none. This is what keeps
  the answer to an operation that was given up from the next one,
- `Carried`: an answer is the result of what its thread sent,
- `Alone`: until the first answer that is more than its result, the program is
  where it would be without a server, what a thread packed is still what its
  argument holds, and no two operations under way share a storage that one of them
  changes. The last is the only assumption about the program (`Begin`),
- `Worlds`, `Names`: every tensor has a storage, the two programs have the same
  names, and a counting argument (`FreshIsNew`) finds a new name for every
  operation, from the assumption that there are more names than operations.

`ExecutedKeepsOthers` is the step that uses it: an operation of one thread leaves
what the others packed alone. There is one lemma per kind of step.

**Tensors** (`DataProofs`): `CodecTypeCorrect`, `TensorsAlwaysArrive` and
`OnlyTheStorageIsRead`, for any number of dimensions, sizes, strides, offsets and any
storage. That views lie inside their storage, which PyTorch sees to, is the only
assumption about a tensor. `Span` and `Total` are recursive functions over the dimensions:
`StepsExist` shows that such functions exist (by the least counterexample, since the
induction theorems cannot be used), and `SpanIs` and `TotalIs` say what they compute. The
argument is then:

- the place of an element among those sent is below their number (`FlatFits`), and no
  other element has it (`FlatDiffers`, by the uniqueness of quotient and remainder,
  `RowsDiffer`, one dimension at a time), so the receiver finds each where it looks,
- when the loop over the strides ends, each is the number of elements behind its dimension,
  which is what makes places and addresses the same (`Checked`, `RowMajor`). A
  stride the loop rejects sends the tensor the other way, whatever it is,
- the last address that is read is that of an element (`LastIsIndex`), in both ways.

**Host memory** (`DataProofs`): `TypesHold`, `ApartHolds`, `EntriesLeadHolds`
and `CopiesHold`, for any clients, size of the tables and number of segments. None is
inductive: a name may be left over whose segment nobody maps any more, or lead to one
that somebody is about to map. The invariant `IInv` says (`OneSegment`) that index
and segment determine one another wherever the two are seen together, be it a
linked name, an entry of the server or an entry of a client, and (`OneHolder`, `Opening`)
that an index is with one client at a time. Both rest on the counter never going
back: only an allocation makes a new pair, from the counter's value and from a segment
that nobody knows, or from one that only a name left over knows under the same
index. `FewerPairs` covers all other steps at once.

**Migration** (`MigrationProofs`): `TypeCorrect`, `MemoryIsFound` and `ImplementsTheMemory`, for any number of
clients and calls, and with a signal at any step, a checkpoint or replay that
crashes, a replay that gives up, and a client that comes back at any time. The
property speaks of the end of a long chain (a call, a checkpoint, a dump by CRIU, a replay, a
repaired connection), so the invariant follows what App has stored, `Stored`, from place to
place: a call that has been executed and whose answer is on its way counts.
It is in the server's memory (`Kept`); in a checkpoint at which App was quiet it is in
the files, with a closed record for each block (`Taken`); it is what the image says if the two fit
(`Fits`); the replay has put back what the records before its position name
(`PutBack`), and `AllReplayed` makes of this at the last record that all of it is there,
for the two orders in which server and client may become ready (`ServerFirst`,
`ClientFirst`). `Recorded`, `Finished` and `Filed` tie records, memory and files together, with
`OpenRecords` (only the last record is ever open) for the signal inside a handler.
The other half of the invariant, `Control`, says which states of script, server, handler and
clients go together. There is one lemma per action for each half.

For `ImplementsTheMemory` the same invariant says what the mapped memory is: while
the server answers it is `Stored` (`Kept`), and the checkpoint is what App has stored in its image (`Fits`),
which is `Mapped`. Four ways for a step to be one of `ClientMemory` are lemmas: it leaves App's
blocks alone (`Quietly`), the server ends (`Stops`), the images come to fit
(`Freezes`), server and App come together (`Meets`). The fifth is `execute`; that it allocates
what is not there and stores in what is there needs one more invariant, `Used`, of the
numbers that App's calls give its blocks.

**Launches** (`DataProofs`): `LaunchTypeCorrect`, `ReadingStaysInside`, `SectionsArrive`,
`KernelsBecomeKnown` and `ArgumentsAlwaysArrive`, for any fat binary in nvcc's format with any
number of sections and tokens, any sizes of nibble, byte, match and alignment, and any
widths, gaps and values of parameters. The assumptions are that format, that parameters lie
one behind the other with pointers as wide as an address, and that restored blocks lie in
the address space. The invariant `LaunchInv` has these parts:

- `Walk`: the walk is at the start of a section, and the kernels of all cubins before it are
  known. In a section, `Progress` is the invariant of the loop of `decompress`: it is in some
  token, has added some number of full bytes to a length, its position is the one
  the format gives for that, and its output is the content up to there. A match that
  overlaps itself is right byte by byte, each from one before it (`MatchRepeats`),
- `InfosOK`, `Registration`: what is known of a kernel is complete and its own, whether a fat binary or
  an image brought it, and a `host_fun` that was set is of that kernel, which is in a module of
  the server. That the client exits when the server refuses a function is what carries
  the second (`FunctionStep`); of a `host_fun` that was not set nothing is claimed,
- `LaunchOK`: in a launch whose numbers are never taken for pointers, parameters before the loop's
  are translated and all others are as they were packed. Eight bytes are written back for a
  parameter of one, so the step for one parameter is about all those behind it too: what is
  written is what was read, unless it was translated (`WrittenBack`), and a pointer fills
  its own place (`PlacesDiffer`).

`ValuedIs` and `ValuedDiffers` say that bytes and numbers determine one another, by induction over the
width, and `TokensLie` and `StartGrows` place tokens and sections, by induction over their
number. `LeastOf` (a set of numbers that is not empty has a least one) stands for induction everywhere.

**Parallel copies** (`MtMemcpyProofs`): `TypeCorrect`, `CopyAlwaysArrives`,
`MemoryOutlivesItsThreads`, `RunningIsAlwaysListed` and `NothingIsEverLeft`, for any
clients, number of threads, sizes and capacity of the list, with every fault. That a
destination is complete when its client returns is a fact about all threads together, and each step
writes one part of it only: `Moves` says which parts are where, by the state of the
copy thread and of the client's thread at its end; `Peers` says that the
connections belong to different threads of the client. When the listener has joined as many as
there are threads, every thread was at some connection (`AllConnected`, by
cardinality), and every cell of the block is in the part of some thread
(`PartsCover`, by the arithmetic of the division that `mt-memcpy.c` rounds down).
`Listed` and `Counted` are about the list: indices that clients hold are different
as long as only the last element is removed.

**Only model-checked.** Liveness under fairness (`CallsReturn`, `RestoreEnds`, `CopyReturns`,
`OpsReturn`, `RestoredClientIsServed`) is out of reach of the prover, which knows no
`ENABLED`. `RestoreEnds` excepts records with the sync of a parallel copy, for with them it does
not hold (Findings). Every invariant and every refinement a run checks is proved, `HandlesLead`, `EveryObjectIsHeld`, `ImplementsClientHandles`
and those of restarted servers on the conditions above. The prover's induction
theorems take an operator as a parameter and cannot be instantiated; what the proofs need of
induction they get from `LeastOf`, so no loop or recursive function is left to TLC alone.

## Findings

Properties that do not hold, with constants under which TLC shows it. Without faults, and with one checkpoint, one restart and 4 records, where nothing
else is said.

- `CheckpointRestart`, `ClientSeesItsMemory`, 2 addresses, one size, 2 values, `Stores =
  {"skipped", "replayed"}`, `Placement = "lowest"`: the replay puts a block's contents back with its
  allocation and then repeats `cudaMemset3D` and its like over them (`cr.c:966`).
- The same with `Stores = {"shared"}`: in a restored server the segment of an older
  `cudaHostAlloc` is a new one, which the client does not map. A copy from it, replayed
  or asked for by the client, writes its zeros and succeeds
  (`cpu-server-runtime.c:1904`).
- `RestoreEnds` without its exception, `Stores = {"parallel"}`: the replay repeats a parallel copy
  and its sync (`cr.c:965`), and the sync joins a listener that waits for the
  connections of a client that is not there (`cpu-server-runtime.c:1766`). The number of the
  transfer is not recorded, so it is chance whether the join is reached.
- `FirstCheckpointCovers` without `missed`, `Faults = {"open"}`: a file that could not be opened is
  no error (`cr.c:548`), and the checkpoint is reported as "successfully created"
  (`cpu-server.c:95`). Without `Garbled`, with `Faults = {"memory"}` and sizes 1 and 2: the record of a
  failed `cudaMalloc` overwrites a block's file with a shorter one
  (`cpu-server-runtime.c:1510`).
- The same, 3 addresses, sizes 1 and 2, 1 value, `Stores = {"skipped"}`: two allocations
  on one address with different sizes share one file; replaying the larger finds
  the file short and returns a variable never initialised (`cr.c:400`, `428`).
- `ActualAddressesPassThrough`, 2 addresses, one size, 1 value, `Stores = {"skipped"}`,
  `Placement = "any"`: `memory_mg_get` looks every pointer up among the restored blocks
  first. An address the driver returns in this process, equal to one a restored block goes by,
  leads to the restored block (`resource-mg.c:281`, against `resource-mg.h:28`).
- `ClientSeesItsMemory`, 3 addresses, one size, 1 value, `Stores = {"skipped"}`,
  `Placement = "lowest"`, 2 checkpoints, a failed write: the first checkpoint leaves a short file. The block is
  freed, so the second passes its record over and counts as complete; the replay
  finds the short file, allocates nothing, and the free that is repeated for it ends
  another block (`cr.c:400`, `428`).
- `ClientSeesItsMemory`, 3 addresses, size 2, 1 value, `Stores = {"skipped"}`,
  `Placement = "fresh"`: nothing removes the translation of a freed block. One
  that the replay allocates and frees again catches, from then on, the pointers to
  a later block that began inside it (`resource-mg.c:275`).
- `CheckpointCovers`, 3 addresses, one size, 1 value, `Stores = {"skipped"}`, 2 checkpoints,
  `Placement = "fresh"`: the dump reads a block at the pointer in its record, untranslated (`cr.c:534`); in a
  restored server whose blocks moved it reads nothing or another block, and reports
  success.
- `HandleRestore`, `RepeatedHandlesLead`, 2 handles, kinds stream and cuDNN, 4 calls,
  `Placement = "fresh"`: handles of cuDNN lead nowhere after a restart
  (`cpu-server-cudnn.c:24`).
- `RemoteDispatch`, `Identical`, 1 thread, 3 tensors, kinds functional and in place, 2
  operations: an operation in place that the server answers leaves the
  program's tensor as it was (`interceptor.py:65`).

Seen on the way, and not the subject of a run.

- Recorder and replay: a failed creation is recorded like a success; a failed
  restore is not noticed (`ret &=`, `cpu-server-runtime.c:88`); an error of one
  block's dump is swallowed (`cr.c:540`); an ELF file that is too short is taken for a success of the
  restore (`cr.c:359`), and one that is missing makes it close a file that is not open
  (`cr.c:386`); a restored server with modules cannot be
  checkpointed again; `cudaMemset2D` is recorded with width and height swapped, and
  `cudaMemsetAsync` with the stream in the place of the count; a record that was
  appended and not filled may be all zeros, and procedure 0 is `rpc_checkpoint`.
- Modules and kernels: `cuModuleGetFunction` takes over the client's `host_fun` of a
  kernel, whose stub is unknown from then on (`cpu-client-driver.c:632`), and on
  the server it looks the module up in the manager of streams
  (`cpu-server-driver.c:383`); where the server finds no function, the client keeps what the
  unset result held (`cpu-client-driver.c:632`); a kernel that is known and not registered
  has a `host_fun` that nothing has set (`cpu-elf2.c:978`, `list.c:74`), and a launch takes the first
  entry whose `host_fun` is equal (`cpu-client-runtime.c:1071`); `cudaLaunchCooperativeKernel` takes its function from
  `rm_kernels`, which a server that restores nothing does not initialise, and
  translates no pointer (`cpu-server-runtime.c:1058`); the padding behind a decompressed
  cubin is written over its beginning (`cpu-elf2.c:373`); the size of a fat binary
  is compared with a variable that nothing has set (`cpu-client.c:403`).
- Host memory: `cudaMemcpyToSymbol` sends the client's own index
  (`cpu-client-runtime.c:1936`); the first segment is never given back, and none
  is over TCP; two servers on a host use the same names.
- Parallel copies: a listener that gets no socket leaves the RPC thread at the
  barrier for ever, and a client thread that cannot connect leaves it in the join;
  a `cudaMemcpy` that fails in a copy thread is only logged; a sync out of order
  leaves its element in the list, which then grows under running threads.
- Scripts: `restore.sh` gives the server three seconds; a client that comes
  back before it listens exits.
- Python: `server.py` on a GPU reads its result through a device address
  (`rpc_utils.py:119`); `enable` intercepts the thread that calls it and no other.

## Not modelled

- The in-kernel checkpoint (`gpu/src`): it drives a patched cuda-gdb, and its
  state is the GPU's call stack. The headers of bfd and gdb beside it, nearly half of
  the repository's lines, are third-party declarations.
- The stubs of the client and the forwarding handlers of cuBLAS, cuDNN, cuSOLVER and NVML,
  another third of the lines: each translates its handles, makes one call and
  records it. What their kinds do at a restart is `HandleRestore`; one more of a kind
  would be the same action again. The computations behind them are the vendor's.
- The generated RPC code and logging: formats and text. That calls
  of one client come one at a time is assumed of the RPC layer.
- The scheduler (`gsched_none.c`): its table has one entry per connection, but the server runs
  one handler at a time, so its mutexes are never contended; that
  retains and releases pair is a property of each handler's text.
- InfiniBand (`cpu-ib.c`): optional, and its behaviour is the card's.
- `list.c` apart from append and its moving storage: a sequence.
- `oob.c` apart from what `MtMemcpy` uses: a peer that closes makes the loop at
  `oob.c:175` spin for ever, which is plain from its text.

So the map covers the parts that keep state and those whose order matters, and a
small share of the repository's lines.

## Plan

What is left, in this order.

1. `HandleRestore`: device variables, `cudaDeviceReset`, and modules of `cuModuleLoadData`.
2. `RemoteDispatch`: random generators, and the walk over nested arguments.
3. `Oob` with a peer that closes, and the transfers over InfiniBand.

Theorems: that the Python half implements the program run locally, as long as
operations have no other effect than their result.
