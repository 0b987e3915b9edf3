------------------------------ MODULE MtMemcpy --------------------------------
(***************************************************************************)
(* The parallel copy (mt-memcpy.c): a client asks the RPC server for a     *)
(* transfer, moves the parts of a block over one connection per thread,    *)
(* and then asks the server to wait until all parts are done.              *)
(*                                                                         *)
(* The RPC server is one thread and serves all clients.  Each transfer has *)
(* a listener thread and Threads copy threads in the server, which reach   *)
(* the transfer through a pointer into the list mt_memcpy_list, and        *)
(* Threads sender threads in the client.                                   *)
(***************************************************************************)
EXTENDS Integers, Sequences, FiniteSets, SequencesExt

CONSTANTS
  Clients,      \* processes that call cudaMemcpy, each from one thread
  Threads,      \* thread_num: parts of a block
  Sizes,        \* sizes of blocks, in the unit the properties look at
  Capacity,     \* what the list has room for at first (INITIAL_CAPACITY)
  Faults,       \* what may go wrong: a subset of FaultKinds
  MaxEvents     \* bound on calls and faults together

FaultKinds == {"socket", "connect", "cuda"}

ASSUME ThreadsArePositive == Threads \in Nat \ {0}
ASSUME SizesAreNumbers == Sizes \subseteq Nat \ {0}
ASSUME CapacityIsPositive == Capacity \in Nat \ {0}
ASSUME FaultsAreKnown == Faults \subseteq FaultKinds
ASSUME BoundIsANumber == MaxEvents \in Nat
ASSUME NobodyIsNoClient == "nobody" \notin Clients

VARIABLES
  caller,    \* where the client's cudaMemcpy is
  rpc,       \* the client whose call the RPC server is serving, or "nobody"
  list,      \* mt_memcpy_list: the number of the transfer of each element
  room,      \* the list's capacity
  id,        \* the index the client was given for its transfer
  transfer,  \* the element the threads of the transfer point to
  listener,  \* where the listener thread is
  peer,      \* the client's thread at the end of each accepted connection
  copier,    \* where the copy thread of each connection is
  sender,    \* where each thread of the client is
  staged,    \* server->mem_ptr: which cell of the source each cell holds
  arrived,   \* the destination, likewise
  moved,     \* the list's storage has moved under the transfer's threads
  late,      \* a sync was not for the last element of the list
  crashed,   \* the server has died of a dangling pointer
  copies,    \* how many calls there have been
  faults     \* what has gone wrong

serverVars == <<rpc, list, room, moved, late>>
threadVars == <<transfer, listener, peer, copier, sender, staged, arrived>>
vars == <<caller, id, serverVars, threadVars, crashed, copies, faults>>

HtoD == "HtoD"
DtoH == "DtoH"
Thread == 0 .. Threads - 1
Nothing == -1     \* the contents of memory nobody has written
Empty(size) == [x \in 0 .. size - 1 |-> Nothing]
Idle == [i \in Thread |-> "none"]

Transfer == [nr : Nat, dir : {HtoD, DtoH}, size : Sizes \cup {0},
             port : BOOLEAN, mem : {"none", "held", "freed"}]
NewTransfer(nr, dir, size) ==
  [nr |-> nr, dir |-> dir, size |-> size, port |-> FALSE, mem |-> "none"]
NoTransfer == NewTransfer(0, HtoD, 0)

Init ==
  /\ caller = [c \in Clients |-> "idle"] /\ id = [c \in Clients |-> 0]
  /\ rpc = "nobody" /\ list = <<>> /\ room = Capacity
  /\ transfer = [c \in Clients |-> NoTransfer]
  /\ listener = [c \in Clients |-> "none"]
  /\ peer = [c \in Clients |-> <<>>] /\ copier = [c \in Clients |-> <<>>]
  /\ sender = [c \in Clients |-> Idle]
  /\ staged = [c \in Clients |-> Empty(0)] /\ arrived = [c \in Clients |-> Empty(0)]
  /\ moved = [c \in Clients |-> FALSE]
  /\ late = FALSE /\ crashed = FALSE /\ copies = 0 /\ faults = {}

WithinBound == copies + Cardinality(faults) < MaxEvents
Fault(kind) ==
  /\ kind \in Faults \ faults /\ WithinBound
  /\ faults' = faults \cup {kind}

Put(f, c, v) == [f EXCEPT ![c] = v]
PutAt(f, c, i, v) == [f EXCEPT ![c][i] = v]

------------------------------------------------------------------------------
(* The part of thread i: equal shares, the last thread takes the rest.     *)
First(i, size) == i * (size \div Threads)
Part(i, size) ==
  First(i, size) .. (IF i = Threads - 1 THEN size ELSE First(i + 1, size)) - 1

Cells(c) == 0 .. transfer[c].size - 1
Source(c) == [x \in Cells(c) |-> x]

(* The number the sender of a part tells the receiver, on the server's     *)
(* k-th connection, and the number the receiver goes by.                   *)
SentNumber(c, k) == IF transfer[c].dir = HtoD THEN peer[c][k] ELSE k - 1
Bug_OwnNumber(c, k) == IF transfer[c].dir = HtoD THEN k - 1 ELSE peer[c][k]
PlacedNumber(c, k) == SentNumber(c, k)

(* Memory `to` after the part the k-th connection brings out of `from`.    *)
Brought(c, k, to, from) ==
  LET size == transfer[c].size
      shift == First(SentNumber(c, k), size) - First(PlacedNumber(c, k), size)
  IN  [x \in DOMAIN to |-> IF x \in Part(PlacedNumber(c, k), size)
                           THEN from[x + shift] ELSE to[x]]
Copied(c, k, to, from) ==
  [x \in DOMAIN to |-> IF x \in Part(PlacedNumber(c, k), transfer[c].size)
                       THEN from[x] ELSE to[x]]

------------------------------------------------------------------------------
(* The client (cudaMemcpy in cpu-client-runtime.c, built WITH_MT_MEMCPY).  *)

Asks == {"idle", "done"}

cudaMemcpy(c, dir, size) ==
  /\ caller[c] \in Asks /\ WithinBound
  /\ caller' = Put(caller, c, "init") /\ copies' = copies + 1
  /\ transfer' = Put(transfer, c, NewTransfer(copies', dir, size))
  /\ staged' = Put(staged, c, Empty(size))
  /\ arrived' = Put(arrived, c, Empty(size))
  /\ UNCHANGED <<id, serverVars, listener, peer, copier, sender, crashed, faults>>

(* mt_memcpy_client starts its threads ...                                 *)
mt_memcpy_client(c) ==
  /\ caller[c] = "connect"
  /\ caller' = Put(caller, c, "transfer")
  /\ sender' = Put(sender, c, [i \in Thread |-> "start"])
  /\ UNCHANGED <<id, serverVars, transfer, listener, peer, copier, staged,
                 arrived, crashed, copies, faults>>

(* ... a thread may fail to connect; nobody looks at its result ...        *)
connect_fails(c, i) ==
  /\ sender[c][i] = "start" /\ Fault("connect")
  /\ sender' = PutAt(sender, c, i, "ended")
  /\ UNCHANGED <<caller, id, serverVars, transfer, listener, peer, copier,
                 staged, arrived, crashed, copies>>

(* ... and joins them, and calls for the sync.                            *)
Joined(c) == caller[c] = "transfer" /\ \A i \in Thread : sender[c][i] = "ended"

(* The thread of a part going to the device has written its number and its *)
(* part to the connection.  They may still be on the way when it ends.     *)
thread_sends(c, i) ==
  /\ transfer[c].dir = HtoD /\ sender[c][i] = "connected"
  /\ sender' = PutAt(sender, c, i, "ended")
  /\ UNCHANGED <<caller, id, serverVars, transfer, listener, peer, copier,
                 staged, arrived, crashed, copies, faults>>

(* The thread of a part coming from the device takes the number and the    *)
(* part that its connection brings.                                        *)
thread_receives(c, k) ==
  /\ transfer[c].dir = DtoH /\ copier[c][k] = "ended"
  /\ LET i == peer[c][k]
     IN  /\ sender[c][i] = "connected"
         /\ sender' = PutAt(sender, c, i, "ended")
         /\ arrived' = Put(arrived, c, Brought(c, k, arrived[c], staged[c]))
  /\ UNCHANGED <<caller, id, serverVars, transfer, listener, peer, copier,
                 staged, crashed, copies, faults>>

------------------------------------------------------------------------------
(* The RPC thread.  It takes a call only when it has done with the last.   *)

Ready(c, what) == rpc = "nobody" /\ caller[c] = what /\ rpc' = c
Running(c) == listener[c] \notin {"none", "ended"}

(* list_append: a full list gets new storage, usually somewhere else.      *)
Bug_FullByOne(nr) ==
  /\ list' = Append(list, nr)
  /\ IF Len(list) <= room THEN UNCHANGED <<room, moved>>
     ELSE /\ room' = 2 * room
          /\ \E away \in BOOLEAN :
               moved' = [d \in Clients |-> moved[d] \/ (away /\ Running(d))]
list_append(nr) ==
  /\ list' = Append(list, nr)
  /\ IF Len(list) < room THEN UNCHANGED <<room, moved>>
     ELSE /\ room' = 2 * room
          /\ \E away \in BOOLEAN :
               moved' = [d \in Clients |-> moved[d] \/ (away /\ Running(d))]

(* cuda_memcpy_mt_htod_1_svc, _dtoh_1_svc: a new element and its listener. *)
mt_memcpy_init_server(c) ==
  /\ Ready(c, "init")
  /\ list_append(transfer[c].nr)
  /\ listener' = Put(listener, c, "start")
  /\ UNCHANGED <<caller, id, late, transfer, peer, copier, sender, staged,
                 arrived, crashed, copies, faults>>

init_allocates(c) ==
  /\ rpc = c /\ caller[c] = "init" /\ transfer[c].mem = "none"
  /\ transfer' = [transfer EXCEPT ![c].mem = "held"]
  /\ UNCHANGED <<caller, id, serverVars, listener, peer, copier, sender, staged,
                 arrived, crashed, copies, faults>>

(* The barrier: listener and RPC thread meet; the reply has the port and   *)
(* the index of the element.                                               *)
pthread_barrier_wait(c) ==
  /\ rpc = c /\ caller[c] = "init" /\ transfer[c].mem = "held"
  /\ listener[c] = "barrier"
  /\ listener' = Put(listener, c, "accept")
  /\ caller' = Put(caller, c, "connect") /\ id' = Put(id, c, Len(list) - 1)
  /\ rpc' = "nobody"
  /\ UNCHANGED <<list, room, moved, late, transfer, peer, copier, sender,
                 staged, arrived, crashed, copies, faults>>

(* cuda_memcpy_mt_sync_1_svc: blocks the RPC thread until the listener is  *)
(* done.  Only the last element is taken out of the list.                  *)
cuda_memcpy_mt_sync(c) ==
  /\ Joined(c) /\ Ready(c, "transfer") /\ id[c] < Len(list)
  /\ caller' = Put(caller, c, "joining")
  /\ UNCHANGED <<id, list, room, moved, late, threadVars, crashed, copies, faults>>

Bug_RemoveTheLast(c) == list' = Front(list) /\ UNCHANGED late
Bug_RemovePastTheLast(c) == UNCHANGED <<list, late>>
list_rm(c) ==
  IF id[c] = Len(list) - 1 THEN list' = Front(list) /\ UNCHANGED late
                           ELSE late' = TRUE /\ UNCHANGED list

sync_returns(c) ==
  /\ rpc = c /\ caller[c] = "joining" /\ listener[c] = "ended"
  /\ caller' = Put(caller, c, "done") /\ rpc' = "nobody"
  /\ list_rm(c)
  /\ listener' = Put(listener, c, "none")
  /\ peer' = Put(peer, c, <<>>) /\ copier' = Put(copier, c, <<>>)
  /\ sender' = Put(sender, c, Idle)
  /\ moved' = Put(moved, c, FALSE) /\ id' = Put(id, c, 0)
  /\ transfer' = Put(transfer, c, NewTransfer(0, HtoD, transfer[c].size))
  /\ staged' = Put(staged, c, Empty(transfer[c].size))
  /\ UNCHANGED <<room, arrived, crashed, copies, faults>>

------------------------------------------------------------------------------
(* The listener thread and the copy threads. *)

listener_opens(c) ==
  /\ listener[c] = "start"
  /\ listener' = Put(listener, c, "barrier")
  /\ transfer' = [transfer EXCEPT ![c].port = TRUE]
  /\ UNCHANGED <<caller, id, serverVars, peer, copier, sender, staged, arrived,
                 crashed, copies, faults>>

(* Without a socket the thread returns, and nobody comes to the barrier.   *)
listener_fails(c) ==
  /\ listener[c] = "start" /\ Fault("socket")
  /\ listener' = Put(listener, c, "failed")
  /\ UNCHANGED <<caller, id, serverVars, transfer, peer, copier, sender, staged,
                 arrived, crashed, copies>>

(* A client thread has connected and is accepted; it gets a copy thread.   *)
Bug_AcceptOneMore(c, i) ==
  /\ listener[c] = "accept" /\ sender[c][i] = "start"
  /\ sender' = PutAt(sender, c, i, "connected")
  /\ peer' = Put(peer, c, Append(peer[c], i))
  /\ copier' = Put(copier, c, Append(copier[c], "waiting"))
  /\ listener' = IF Len(peer[c]) = Threads THEN Put(listener, c, "join")
                                           ELSE listener
  /\ UNCHANGED <<caller, id, serverVars, transfer, staged, arrived, crashed,
                 copies, faults>>
listener_accepts(c, i) ==
  /\ listener[c] = "accept" /\ sender[c][i] = "start"
  /\ sender' = PutAt(sender, c, i, "connected")
  /\ peer' = Put(peer, c, Append(peer[c], i))
  /\ copier' = Put(copier, c, Append(copier[c], "waiting"))
  /\ listener' = IF Len(peer'[c]) = Threads THEN Put(listener, c, "join")
                                            ELSE listener
  /\ UNCHANGED <<caller, id, serverVars, transfer, staged, arrived, crashed,
                 copies, faults>>

Finished(c) == \A k \in DOMAIN copier[c] : copier[c][k] \in {"ended", "failed"}

Bug_JoinNone(c) ==
  /\ listener[c] = "join"
  /\ listener' = Put(listener, c, "ended")
  /\ transfer' = [transfer EXCEPT ![c].mem = "freed", ![c].port = FALSE]
  /\ UNCHANGED <<caller, id, serverVars, peer, copier, sender, staged, arrived,
                 crashed, copies, faults>>
listener_joins(c) ==
  /\ listener[c] = "join" /\ Finished(c)
  /\ listener' = Put(listener, c, "ended")
  /\ transfer' = [transfer EXCEPT ![c].mem = "freed", ![c].port = FALSE]
  /\ UNCHANGED <<caller, id, serverVars, peer, copier, sender, staged, arrived,
                 crashed, copies, faults>>

CopierStep(c, k, from, to) ==
  /\ copier[c][k] = from /\ copier' = PutAt(copier, c, k, to)
  /\ UNCHANGED <<caller, id, serverVars, transfer, listener, peer, sender,
                 crashed, copies>>

(* To the device: number and part have come, and are copied to the device. *)
copy_thread_receives(c, k) ==
  /\ transfer[c].dir = HtoD /\ sender[c][peer[c][k]] = "ended"
  /\ CopierStep(c, k, "waiting", "staged")
  /\ staged' = Put(staged, c, Brought(c, k, staged[c], Source(c)))
  /\ UNCHANGED <<arrived, faults>>

copy_thread_stores(c, k) ==
  /\ transfer[c].dir = HtoD
  /\ CopierStep(c, k, "staged", "ended")
  /\ arrived' = Put(arrived, c, Copied(c, k, arrived[c], staged[c]))
  /\ UNCHANGED <<staged, faults>>

(* From the device: the part is copied from the device, and is sent.       *)
copy_thread_loads(c, k) ==
  /\ transfer[c].dir = DtoH
  /\ CopierStep(c, k, "waiting", "staged")
  /\ staged' = Put(staged, c, [x \in Cells(c) |->
                 IF x \in Part(SentNumber(c, k), transfer[c].size) THEN x
                                                           ELSE staged[c][x]])
  /\ UNCHANGED <<arrived, faults>>

copy_thread_sends(c, k) ==
  /\ transfer[c].dir = DtoH
  /\ CopierStep(c, k, "staged", "ended")
  /\ UNCHANGED <<staged, arrived, faults>>

(* cudaMemcpy fails: a thread that stores goes on as if nothing were, one  *)
(* that loads returns without closing the connection.                      *)
copy_thread_fails(c, k) ==
  /\ Fault("cuda")
  /\ IF transfer[c].dir = HtoD THEN CopierStep(c, k, "staged", "ended")
                               ELSE CopierStep(c, k, "waiting", "failed")
  /\ UNCHANGED <<staged, arrived>>

(* A thread of a transfer uses its pointer after the list has moved.  It   *)
(* may find the old bytes, and go on, or it ends the server.               *)
dangling_pointer(c) ==
  /\ moved[c] /\ Running(c)
  /\ crashed' = TRUE
  /\ UNCHANGED <<caller, id, serverVars, threadVars, copies, faults>>

------------------------------------------------------------------------------
ClientStep(c) ==
  \/ mt_memcpy_client(c)
  \/ \E i \in Thread : thread_sends(c, i)
  \/ \E k \in DOMAIN copier[c] : thread_receives(c, k)

TakesCall(c) == mt_memcpy_init_server(c) \/ cuda_memcpy_mt_sync(c)

RpcStep(c) == init_allocates(c) \/ pthread_barrier_wait(c) \/ sync_returns(c)

ListenerStep(c) ==
  \/ listener_opens(c) \/ listener_joins(c)
  \/ \E i \in Thread : listener_accepts(c, i)

CopyStep(c) ==
  \E k \in DOMAIN copier[c] :
    \/ copy_thread_receives(c, k) \/ copy_thread_stores(c, k)
    \/ copy_thread_loads(c, k) \/ copy_thread_sends(c, k)

FaultStep(c) ==
  \/ listener_fails(c) \/ dangling_pointer(c)
  \/ \E i \in Thread : connect_fails(c, i)
  \/ \E k \in DOMAIN copier[c] : copy_thread_fails(c, k)

Calls(c) == \E dir \in {HtoD, DtoH}, size \in Sizes : cudaMemcpy(c, dir, size)

Next ==
  /\ ~ crashed
  /\ \E c \in Clients : \/ Calls(c) \/ ClientStep(c) \/ TakesCall(c) \/ RpcStep(c)
                        \/ ListenerStep(c) \/ CopyStep(c) \/ FaultStep(c)

Spec == Init /\ [][Next]_vars

(* Every thread runs on when it can.  svc_run serves each connection that  *)
(* is ready before it polls again, so no client is passed over for ever.   *)
FairSpec ==
  /\ Spec
  /\ \A c \in Clients :
       /\ WF_vars(~ crashed /\ ClientStep(c))
       /\ WF_vars(~ crashed /\ RpcStep(c))
       /\ WF_vars(~ crashed /\ ListenerStep(c))
       /\ WF_vars(~ crashed /\ CopyStep(c))
       /\ SF_vars(~ crashed /\ TakesCall(c))

------------------------------------------------------------------------------
(* The type invariant: the index a client was given is one of the list.    *)
TypeOK ==
  /\ caller \in [Clients -> {"idle", "init", "connect", "transfer",
                             "joining", "done"}]
  /\ rpc \in Clients \cup {"nobody"}
  /\ list \in Seq(Nat) /\ room \in Nat /\ Len(list) <= room
  /\ id \in [Clients -> Nat]
  /\ transfer \in [Clients -> Transfer]
  /\ listener \in [Clients -> {"none", "start", "barrier", "failed", "accept",
                               "join", "ended"}]
  /\ peer \in [Clients -> Seq(Thread)]
  /\ copier \in [Clients -> Seq({"waiting", "staged", "ended", "failed"})]
  /\ sender \in [Clients -> [Thread -> {"none", "start", "connected", "ended"}]]
  /\ \A c \in Clients :
       /\ staged[c] \in [Cells(c) -> Cells(c) \cup {Nothing}]
       /\ arrived[c] \in [Cells(c) -> Cells(c) \cup {Nothing}]
       /\ Len(peer[c]) = Len(copier[c]) /\ Len(peer[c]) <= Threads
  /\ moved \in [Clients -> BOOLEAN] /\ crashed \in BOOLEAN
  /\ late \in BOOLEAN /\ copies \in Nat /\ faults \subseteq Faults

(* When cudaMemcpy has returned, every cell of the source is in its place, *)
(* in whatever order the threads connected and were accepted, though other *)
(* threads could not connect or had no socket.  A cudaMemcpy that fails in *)
(* the server is not noticed, and is left out.                             *)
CopyArrives ==
  "cuda" \notin faults =>
    \A c \in Clients : caller[c] = "done" => arrived[c] = Source(c)

(* No copy thread works outside the life of the memory it works in, and    *)
(* the client is given a port that somebody listens on.                    *)
ThreadsHaveTheirMemory ==
  \A c \in Clients :
    /\ ~ Finished(c) => transfer[c].mem = "held"
    /\ caller[c] = "connect" => transfer[c].port

(* A transfer whose threads may still run has its element in the list, at  *)
(* the index its client was told: the sync finds it, and nobody else gets  *)
(* the element.                                                            *)
RunningIsListed ==
  \A c \in Clients :
    caller[c] \in {"connect", "transfer", "joining"}
      => id[c] < Len(list) /\ list[id[c] + 1] = transfer[c].nr

(* As long as the syncs come in the reverse order of the transfers, the    *)
(* list holds the transfers that wait for their sync and nothing else.     *)
NothingIsLeftBehind ==
  ~ late => Len(list) = Cardinality({c \in Clients : listener[c] # "none"})

(* A call of cudaMemcpy returns, unless a fault or a moved list got in its *)
(* way: no order of accepts, parts and other clients' calls blocks it.     *)
CopyReturns ==
  \A c \in Clients :
    (caller[c] = "init") ~> (caller[c] = "done" \/ crashed \/ faults # {})
==============================================================================
