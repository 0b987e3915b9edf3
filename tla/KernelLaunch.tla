----------------------------- MODULE KernelLaunch -----------------------------
(***************************************************************************)
(* From a fat binary to a launch: the client registers what FatBinary has  *)
(* read of it, packs the arguments of a launch as the kernel's parameters  *)
(* say, and the server translates them one by one (cpu-client.c,           *)
(* cpu-client-runtime.c, cpu-client-driver.c, cpu-server-runtime.c).       *)
(* The client makes one call at a time, so do its steps and the server's.  *)
(*                                                                         *)
(* A byte of an argument is one of Digits values and an address has Word   *)
(* bytes (256 and 8).  memory_mg_get is that of BlockMap, which MemoryMg   *)
(* implements.                                                             *)
(***************************************************************************)
EXTENDS FatBinary

CONSTANTS
    Digits,             \* number of values of a byte of an argument
    Word,               \* bytes of an address
    Restored,           \* the blocks a restart puts elsewhere: client address -> [cuda, size]
    MaxFatBinaries      \* bound: fat binaries and images loaded in a run

ASSUME WordAssumption == Digits \in Nat \ {0, 1} /\ Word \in Nat \ {0}
ASSUME BoundAssumption == MaxFatBinaries \in Nat

(* Parameters lie one behind the other, and pointers are addresses.        *)
ASSUME LayoutAssumption ==
    \A k \in Kernels :
        LET p == Layout[k]
        IN  /\ p \in Seq([offset : Nat, size : Nat \ {0}, pointer : BOOLEAN])
            /\ \A o \in DOMAIN p : p[o].pointer => p[o].size = Word
            /\ \A o, q \in DOMAIN p : o < q => p[o].offset + p[o].size <= p[q].offset

(* Numbers of n bytes, the lowest first.                                   *)
Bytes == 0 .. Digits - 1
Valued(bytes) ==
    LET from[j \in 1 .. Len(bytes) + 1] ==
          IF j > Len(bytes) THEN 0 ELSE bytes[j] + Digits * from[j + 1]
    IN  from[1]
Numbers(n) == {Valued(bytes) : bytes \in [1 .. n -> Bytes]}
Bytewise(n, value) == CHOOSE bytes \in [1 .. n -> Bytes] : Valued(bytes) = value

(* Restored blocks lie in the address space.                               *)
ASSUME RestoredAssumption ==
    /\ DOMAIN Restored \subseteq Nat
    /\ \A b \in DOMAIN Restored :
         /\ Restored[b].cuda \in Nat /\ Restored[b].size \in Nat
         /\ \A i \in 0 .. Restored[b].size :
              i = 0 \/ i < Restored[b].size => Restored[b].cuda + i \in Numbers(Word)

VARIABLES
    handle,         \* whether the fat binary was loaded: it has no handle if not
    todo,           \* kernels whose registration is still to come
    loads,          \* fat binaries and images so far
    modules,        \* kernels in the modules of the server
    restored,       \* the server is a restarted one
    launch          \* the launch the program is in

launchVars == <<handle, todo, loads, modules, restored, launch>>
clientVars == <<elfVars, launchVars>>

Stub(k) == [api |-> "runtime", kernel |-> k]
CUfunction(k) == [api |-> "driver", kernel |-> k]

NoLaunch == [at |-> "none"]
ParamSize(k) ==
    LET p == Layout[k] IN IF p = <<>> THEN 0 ELSE p[Len(p)].offset + p[Len(p)].size

Reset ==
    /\ fat' = <<>> /\ pos' = 0 /\ text' = <<>>
    /\ input' = <<>> /\ output' = <<>> /\ outputSize' = 0
    /\ ipos' = 0 /\ nclen' = 0 /\ clen' = 0 /\ back' = 0

LaunchInit ==
    /\ stage = "running" /\ kernel_infos = <<>>
    /\ fat = <<>> /\ pos = 0 /\ text = <<>>
    /\ input = <<>> /\ output = <<>> /\ outputSize = 0
    /\ ipos = 0 /\ nclen = 0 /\ clen = 0 /\ back = 0
    /\ handle = TRUE /\ todo = {} /\ loads = 0 /\ modules = {} /\ restored = FALSE
    /\ launch = NoLaunch

-------------------------------------------------------------------------------
(* Registration, which nvcc calls before main or when a library is opened. *)

cudaRegisterFatBinary(f) ==
    /\ stage = "running" /\ launch = NoLaunch /\ loads < MaxFatBinaries
    /\ fat' = f /\ pos' = Align /\ stage' = "section"
    /\ loads' = loads + 1
    /\ todo' = {f[i].kernel : i \in DOMAIN f}
    /\ UNCHANGED <<decompressVars, text, kernel_infos, handle, modules, restored, launch>>

reads == elf2_get_fatbin_info /\ UNCHANGED launchVars

rpc_elf_load ==
    /\ stage = "read"
    /\ modules' = modules \cup {fat[i].kernel : i \in DOMAIN fat}
    /\ handle' = TRUE /\ stage' = "registering"
    /\ Reset
    /\ UNCHANGED <<kernel_infos, todo, loads, restored, launch>>

(* Reading it failed, or the server could not load it.                     *)
cudaRegisterFatBinary_fails ==
    /\ stage \in {"failed", "read"}
    /\ handle' = FALSE /\ stage' = "registering"
    /\ Reset
    /\ UNCHANGED <<kernel_infos, todo, loads, modules, restored, launch>>

HostFun(k, stub) ==
    [i \in DOMAIN kernel_infos |->
        IF kernel_infos[i].name = k THEN [kernel_infos[i] EXCEPT !.host_fun = stub]
        ELSE kernel_infos[i]]

(* Mutant: the client goes on when the server refuses the function.        *)
Bug_GoesOn(k) ==
    /\ stage = "registering" /\ k \in todo
    /\ todo' = todo \ {k}
    /\ kernel_infos' = HostFun(k, Stub(k))
    /\ UNCHANGED <<fat, stage, pos, decompressVars, text, handle, loads, modules, restored, launch>>

(* The server knows no module without a handle; the client exits then.     *)
cudaRegisterFunction(k) ==
    /\ stage = "registering" /\ k \in todo
    /\ todo' = todo \ {k}
    /\ \/ /\ ~Known(kernel_infos, k)
          /\ UNCHANGED <<stage, kernel_infos>>
       \/ /\ Known(kernel_infos, k) /\ handle
          /\ kernel_infos' = HostFun(k, Stub(k))
          /\ UNCHANGED stage
       \/ /\ Known(kernel_infos, k) /\ ~handle
          /\ stage' = "exited"
          /\ UNCHANGED kernel_infos
    /\ UNCHANGED <<fat, pos, decompressVars, text, handle, loads, modules, restored, launch>>

registered ==
    /\ stage = "registering" /\ todo = {}
    /\ stage' = "running" /\ handle' = TRUE
    /\ UNCHANGED <<fat, pos, decompressVars, text, kernel_infos, todo, loads, modules,
                   restored, launch>>

-------------------------------------------------------------------------------
(* Modules of the driver API, which are images of cubins as they stand.    *)

Images == UNION {{[kernel |-> f[n].kernel, content |-> f[n].content] :
                      n \in {m \in DOMAIN f : f[m].kind = "elf"}} : f \in FatBinaries}

(* The server may refuse the image the client has learnt from.             *)
cuModuleLoadData(image) ==
    /\ stage = "running" /\ launch = NoLaunch /\ loads < MaxFatBinaries
    /\ image.content[1] = Magic
    /\ loads' = loads + 1
    /\ kernel_infos' = Learnt(kernel_infos, image.kernel, image.content)
    /\ modules' \in {modules, modules \cup {image.kernel}}
    /\ UNCHANGED <<fat, stage, pos, decompressVars, text, handle, todo, restored, launch>>

(* A kernel of both APIs is known by the function of the driver from here  *)
(* on, and no longer by its stub.                                          *)
cuModuleGetFunction(k) ==
    /\ stage = "running" /\ launch = NoLaunch
    /\ k \in modules /\ Known(kernel_infos, k)
    /\ kernel_infos' = HostFun(k, CUfunction(k))
    /\ UNCHANGED <<fat, stage, pos, decompressVars, text, launchVars>>

(* The server finds no such function, or not the module, which it looks up *)
(* among the streams: what is kept is the result no answer was put into.   *)
cuModuleGetFunction_fails(k) ==
    /\ stage = "running" /\ launch = NoLaunch /\ Known(kernel_infos, k)
    /\ kernel_infos' = HostFun(k, Unset)
    /\ UNCHANGED <<fat, stage, pos, decompressVars, text, launchVars>>

restart ==
    /\ stage = "running" /\ launch = NoLaunch
    /\ restored' = TRUE
    /\ UNCHANGED <<elfVars, handle, todo, loads, modules, launch>>

-------------------------------------------------------------------------------
(*  A launch  *)

Function(f) == {i \in DOMAIN kernel_infos : kernel_infos[i].host_fun = f}
Arguments(k) ==
    LET p == Layout[k]
    IN  {a \in [DOMAIN p -> UNION {Numbers(p[o].size) : o \in DOMAIN p}] :
           \A o \in DOMAIN p : a[o] \in Numbers(p[o].size)}

(* The bytes of parameter o in the buffer, from its offset on.             *)
Place(p) == p.offset + 1 .. p.offset + p.size
Window(buffer, p, n) == SubSeq(buffer, p.offset + 1, p.offset + n)

(* The arguments lie where the parameters do; the bytes between and behind *)
(* them are what the memory held.                                          *)
Gaps(k) == 1 .. ParamSize(k) + Word - 1 \ UNION {Place(Layout[k][o]) : o \in DOMAIN Layout[k]}
Packed(k, params, args, junk) ==
    [b \in 1 .. ParamSize(k) + Word - 1 |->
        IF \E o \in DOMAIN params : b \in Place(params[o])
        THEN LET o == CHOOSE o \in DOMAIN params : b \in Place(params[o])
             IN  Bytewise(params[o].size, args[o])[b - params[o].offset]
        ELSE junk[b]]

(* cudaLaunchKernel, and cuLaunchKernel for a function of the driver.      *)
launch_kernel(f, args, junk) ==
    /\ stage = "running" /\ launch = NoLaunch
    /\ \E i \in Function(f) :
         launch' = [at |-> "params", f |-> f, args |-> args, param |-> 1,
                    params |-> kernel_infos[i].params,
                    buffer |-> Packed(f.kernel, kernel_infos[i].params, args, junk),
                    mistaken |-> {}]
    /\ UNCHANGED <<elfVars, handle, todo, loads, modules, restored>>

launch_unknown(f) ==
    /\ stage = "running" /\ launch = NoLaunch /\ Function(f) = {}
    /\ launch' = [at |-> "unknown", f |-> f]
    /\ UNCHANGED <<elfVars, handle, todo, loads, modules, restored>>

(* An entry before that of f whose host_fun nobody has set may be taken    *)
(* for it; such a launch is not followed.                                  *)
launch_astray(f) ==
    /\ stage = "running" /\ launch = NoLaunch
    /\ \E i \in Function(Unset) : \A j \in Function(f) : i < j
    /\ launch' = [at |-> "astray", f |-> f]
    /\ UNCHANGED <<elfVars, handle, todo, loads, modules, restored>>

Blocks == INSTANCE BlockMap WITH
    Addresses <- {}, Blocks <- {}, Targets <- {},
    bypass <- ~restored, map <- Restored, created <- {}, last <- 0
memory_mg_get(a) == Blocks!Translation(a)

Write(buffer, p, bytes) ==
    [b \in DOMAIN buffer |->
        IF b - p.offset \in DOMAIN bytes THEN bytes[b - p.offset] ELSE buffer[b]]

(* Mutant: a parameter is read with its own size and written back with     *)
(* that of an address, over the parameter behind it.                       *)
Bug_ReadsItsSize ==
    LET p == launch.params[launch.param]
        found == Valued(Window(launch.buffer, p, p.size))
        put == memory_mg_get(found)
    IN  /\ launch.at = "params" /\ launch.param \in DOMAIN launch.params
        /\ launch' = [launch EXCEPT
              !.param = @ + 1,
              !.buffer = Write(@, p, Bytewise(Word, put)),
              !.mistaken = IF ~p.pointer /\ put # found THEN @ \cup {launch.param} ELSE @]
        /\ UNCHANGED <<elfVars, handle, todo, loads, modules, restored>>

(* Each parameter is read and written back as an address, whatever it is,  *)
(* with the bytes behind it, be they of the next parameter.                *)
translate_param ==
    LET p == launch.params[launch.param]
        found == Valued(Window(launch.buffer, p, Word))
        put == memory_mg_get(found)
    IN  /\ launch.at = "params" /\ launch.param \in DOMAIN launch.params
        /\ launch' = [launch EXCEPT
              !.param = @ + 1,
              !.buffer = Write(@, p, Bytewise(Word, put)),
              !.mistaken = IF ~p.pointer /\ put # found THEN @ \cup {launch.param} ELSE @]
        /\ UNCHANGED <<elfVars, handle, todo, loads, modules, restored>>

(* cuLaunchKernel of the driver takes each argument from its place.        *)
cuLaunchKernel ==
    /\ launch.at = "params" /\ launch.param \notin DOMAIN launch.params
    /\ launch' = [launch EXCEPT !.at = "delivered"]
    /\ UNCHANGED <<elfVars, handle, todo, loads, modules, restored>>

launch_returns ==
    /\ launch.at \in {"delivered", "unknown", "astray"}
    /\ launch' = NoLaunch
    /\ UNCHANGED <<elfVars, handle, todo, loads, modules, restored>>

-------------------------------------------------------------------------------
LaunchNext ==
    \/ \E f \in FatBinaries : cudaRegisterFatBinary(f)
    \/ reads \/ rpc_elf_load \/ cudaRegisterFatBinary_fails
    \/ \E k \in Kernels : cudaRegisterFunction(k)
    \/ registered \/ restart
    \/ \E image \in Images : cuModuleLoadData(image)
    \/ \E k \in Kernels : cuModuleGetFunction(k) \/ cuModuleGetFunction_fails(k)
    \/ \E k \in Kernels : \E f \in {Stub(k), CUfunction(k)} :
         \/ launch_unknown(f) \/ launch_astray(f)
         \/ \E args \in Arguments(k), junk \in [Gaps(k) -> Bytes] : launch_kernel(f, args, junk)
    \/ translate_param \/ cuLaunchKernel \/ launch_returns

LaunchSpec == LaunchInit /\ [][LaunchNext]_clientVars

-------------------------------------------------------------------------------
(*  Properties  *)

Stages == {"section", "text", "token", "plain_length", "plain", "offset", "match_length",
           "match", "returned", "read", "failed", "registering", "running", "exited"}

(* Registration is at one of its places, what is known of a kernel is of   *)
(* that kernel, once, and a host_fun that was set is that of the entry's   *)
(* kernel, which a module of the server has (kernel_infos of cpu-client.c).*)
LaunchTypeOK ==
    /\ stage \in Stages /\ handle \in BOOLEAN /\ restored \in BOOLEAN
    /\ todo \subseteq Kernels /\ modules \subseteq Kernels /\ loads \in 0 .. MaxFatBinaries
    /\ pos \in Nat /\ ipos \in Nat /\ nclen \in Nat /\ clen \in Nat /\ back \in Nat
    /\ \A i, j \in DOMAIN kernel_infos :
         /\ kernel_infos[i].name \in Kernels
         /\ kernel_infos[i].name = kernel_infos[j].name => i = j
         /\ kernel_infos[i].host_fun # Unset =>
              kernel_infos[i].host_fun.kernel = kernel_infos[i].name /\ kernel_infos[i].name \in modules

(* No byte is read outside the section or written outside the output,      *)
(* wherever the loop of decompress is, and the walk comes from the start   *)
(* of a section to the start of the next (elf2_get_fatbin_info).           *)
StaysInside ==
    /\ stage = "section" => pos \in Starts
    /\ stage = "text" => pos \in Starts \cup {End}
    /\ stage = "token" => Len(output) <= outputSize
    /\ stage = "plain_length" => ipos + 1 < Len(input)
    /\ stage = "plain" => ipos + 1 + nclen <= Len(input) /\ Len(output) + nclen <= outputSize
    /\ stage = "offset" => ipos + 1 < Len(input)
    /\ stage = "match_length" => ipos < Len(input)
    /\ stage = "match" => back \in 1 .. Len(output) /\ Len(output) + clen <= outputSize
    /\ stage = "returned" => Len(output) = outputSize

(* The text that is parsed is the cubin nvcc compressed, except for its    *)
(* beginning when its size is not aligned (decompress_single_section).     *)
SectionArrives ==
    stage = "text" =>
        LET n == Len(Parsed.content)
            lost == IF Parsed.compressed THEN Padding(n) ELSE 0
        IN  SubSeq(text, lost + 1, n) = SubSeq(Parsed.content, lost + 1, n)

(* Once a fat binary is read, the client has an entry for every kernel in  *)
(* its cubins, and each entry has all parameters of its kernel, whatever   *)
(* fat binary or image it was made from (elf2_parameter_info).             *)
KernelsAreKnown ==
    /\ stage = "read" =>
         \A n \in DOMAIN fat : fat[n].kind = "elf" => Known(kernel_infos, fat[n].kernel)
    /\ \A i \in DOMAIN kernel_infos :
         kernel_infos[i].params = Layout[kernel_infos[i].name] /\ kernel_infos[i].sized

(* A kernel gets the arguments its caller gave, pointers leading to the    *)
(* blocks they led to before a restart.  Excepted are launches in which a  *)
(* number together with the bytes behind it is the address of a restored   *)
(* block (cuda_launch_kernel_1_svc); without a restart there are none.     *)
ArgumentsArrive ==
    launch.at = "delivered" =>
        /\ launch.f.kernel \in modules
        /\ restored \/ launch.mistaken = {}
        /\ launch.mistaken = {} =>
             \A o \in DOMAIN Layout[launch.f.kernel] :
                LET p == Layout[launch.f.kernel][o]
                    arrived == Valued(Window(launch.buffer, launch.params[o], p.size))
                IN  arrived = IF p.pointer THEN memory_mg_get(launch.args[o]) ELSE launch.args[o]
===============================================================================
