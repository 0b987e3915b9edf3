---------------------------- MODULE RemoteDispatch ----------------------------
(***************************************************************************)
(* The Python half: PyTorch programs whose operations are taken over by a  *)
(* TorchDispatchMode (interceptor.py) and sent one by one to a server      *)
(* (remote_client.py, server.py), with local execution as the fallback.    *)
(*                                                                         *)
(* Several threads of one program share the connection.  Each has its own  *)
(* stack of modes; an operation goes down the stack, and a mode that fails *)
(* hands it to the one below.  The server keeps nothing between calls.     *)
(***************************************************************************)
EXTENDS Integers, Sequences, FiniteSets

CONSTANTS
  Threads, Main,     \* the program's threads; one calls enable and disable
  Nobody,            \* whom a job of the server's pool is for when given up
  Tensors,           \* names of the program's tensors
  Values,            \* contents of tensors
  Result(_, _),      \* what an operation of a kind makes of contents
  Kinds,             \* the kinds of operations the program uses
  Workers,           \* threads of the server's pool
  MaxOps, MaxChannels, MaxFaults   \* bounds

AllKinds == {"functional", "view", "in_place"}

ASSUME MainIsAThread == Main \in Threads /\ Nobody \notin Threads
ASSUME KindsAreKnown == Kinds \subseteq AllKinds
ASSUME ResultsAreValues == \A k \in AllKinds, v \in Values : Result(k, v) \in Values
ASSUME NamesAreEnough == IsFiniteSet(Tensors) /\ Cardinality(Tensors) > MaxOps
ASSUME WorkersAreANumber == Workers \in Nat \ {0}
ASSUME BoundsAreNumbers == MaxOps \in Nat /\ MaxChannels \in Nat /\ MaxFaults \in Nat

VARIABLES
  modes,      \* how many modes there are on each thread's stack
  withs,      \* how many `with intercept()` each thread is in
  active,     \* _active_mode is set
  control,    \* where the main thread is in enable or disable
  enabling,   \* which of the two
  channel,    \* _channel: its number, 0 for None
  stub,       \* _stub: the number of its channel, 0 for None
  closed,     \* channels that were closed
  call,       \* what each thread is doing
  box,        \* result_box of each thread's call
  queue,      \* the jobs the server's pool has not begun
  working,    \* whose jobs it has begun
  strays,     \* how many jobs it works on that were given up
  answer,     \* what has come back for each thread
  store,      \* the storage of each tensor
  heap,       \* the contents of each storage
  ideal,      \* store and heap if there were no server
  diverted,   \* an operation that is more than its result was answered remotely
  ops, opened, faults   \* how much of the bounds has been used

modeVars == <<modes, withs, active>>
linkVars == <<channel, stub, closed, opened>>
controlVars == <<control, enabling>>
serverVars == <<queue, working, strays, answer>>
programVars == <<store, heap, ideal, diverted>>
vars == <<modeVars, linkVars, controlVars, serverVars, programVars, call, box, ops,
          faults>>

With(f, a, b) == [x \in DOMAIN f \cup {a} |-> IF x = a THEN b ELSE f[x]]
NoAnswer == [came |-> FALSE, error |-> FALSE, value |-> 0]
NoCall(v) == [at |-> "idle", kind |-> "functional", arg |-> v, plain |-> TRUE,
              level |-> 0, via |-> 0, sent |-> 0]

(* Every thread begins with the same tensor. *)
First == CHOOSE t \in Tensors : TRUE
Init ==
  /\ modes = [t \in Threads |-> 0] /\ withs = [t \in Threads |-> 0] /\ active = FALSE
  /\ control = "none" /\ enabling = FALSE
  /\ channel = 0 /\ stub = 0 /\ closed = {} /\ opened = 0
  /\ call = [t \in Threads |-> NoCall(First)] /\ box = [t \in Threads |-> 0]
  /\ queue = <<>> /\ working = {} /\ strays = 0
  /\ answer = [t \in Threads |-> NoAnswer]
  /\ store = [n \in {First} |-> First]
  /\ \E v \in Values : heap = [n \in {First} |-> v]
  /\ ideal = [store |-> store, heap |-> heap]
  /\ diverted = FALSE /\ ops = 0 /\ faults = 0

------------------------------------------------------------------------------
(* enable, disable and intercept (__init__.py).                            *)

Free(t) == call[t].at = "idle" /\ (t = Main => control = "none")

Bug_InstallAgain ==
  /\ active' = TRUE
  /\ modes' = [modes EXCEPT ![Main] = @ + 1]
install ==
  /\ active' = TRUE
  /\ modes' = IF active THEN modes ELSE [modes EXCEPT ![Main] = @ + 1]

enable_locally ==
  /\ Free(Main)
  /\ install
  /\ UNCHANGED <<withs, linkVars, controlVars, serverVars, programVars, call, box, ops, faults>>

enable_remotely ==
  /\ Free(Main) /\ opened < MaxChannels
  /\ control' = "disconnect" /\ enabling' = TRUE
  /\ UNCHANGED <<modeVars, linkVars, serverVars, programVars, call, box, ops, faults>>

(* uninstall takes the top mode off, whichever it is. *)
disable ==
  /\ Free(Main)
  /\ active' = FALSE
  /\ modes' = IF active THEN [modes EXCEPT ![Main] = @ - 1] ELSE modes
  /\ control' = "disconnect" /\ enabling' = FALSE
  /\ UNCHANGED <<withs, linkVars, serverVars, programVars, call, box, ops, faults>>

disconnect_closes ==
  /\ control = "disconnect" /\ control' = "clear"
  /\ closed' = closed \cup ({channel} \ {0})
  /\ UNCHANGED <<modeVars, channel, stub, opened, enabling, serverVars, programVars,
                 call, box, ops, faults>>

disconnect_clears ==
  /\ control = "clear"
  /\ channel' = 0 /\ stub' = 0
  /\ control' = IF enabling THEN "connect" ELSE "none"
  /\ UNCHANGED <<modeVars, closed, opened, enabling, serverVars, programVars, call,
                 box, ops, faults>>

connect_opens ==
  /\ control = "connect" /\ control' = "install"
  /\ opened' = opened + 1 /\ channel' = opened' /\ stub' = opened'
  /\ UNCHANGED <<modeVars, closed, enabling, serverVars, programVars, call, box, ops,
                 faults>>

(* The check of the port fails; enable raises before it installs.          *)
connect_refused ==
  /\ control = "connect" /\ control' = "none"
  /\ opened' = opened + 1
  /\ UNCHANGED <<modeVars, channel, stub, closed, enabling, serverVars, programVars,
                 call, box, ops, faults>>

enable_installs ==
  /\ control = "install" /\ control' = "none"
  /\ install
  /\ UNCHANGED <<withs, linkVars, enabling, serverVars, programVars, call, box, ops,
                 faults>>

intercept(t) ==
  /\ Free(t)
  /\ \/ withs[t] = 0 /\ withs' = [withs EXCEPT ![t] = 1]
                     /\ modes' = [modes EXCEPT ![t] = @ + 1]
     \/ withs[t] = 1 /\ withs' = [withs EXCEPT ![t] = 0]
                     /\ modes' = [modes EXCEPT ![t] = @ - 1]
  /\ UNCHANGED <<active, linkVars, controlVars, serverVars, programVars, call, box,
                 ops, faults>>

------------------------------------------------------------------------------
(* __torch_dispatch__ and call_op.                                         *)

SameStore(a, b) == ideal.store[a] = ideal.store[b]

(* The program does not race with itself: a storage that one thread        *)
(* changes is used by no other.                                            *)
Begin(t, kind, arg, plain) ==
  /\ Free(t) /\ ops < MaxOps
  /\ \A u \in Threads \ {t} :
       call[u].at # "idle" /\ "in_place" \in {kind, call[u].kind}
         => ~ SameStore(arg, call[u].arg)
  /\ call' = [call EXCEPT ![t] = [at |-> "dispatch", kind |-> kind, arg |-> arg,
                                  plain |-> plain, level |-> modes[t], via |-> 0,
                                  sent |-> 0]]
  /\ ops' = ops + 1
  /\ UNCHANGED <<modeVars, linkVars, controlVars, serverVars, programVars, box, faults>>

At(t, where) == call[t].at = where
Goes(t, where) == call' = [call EXCEPT ![t].at = where]

(* A mode hands the operation to the one below it.  What the server does   *)
(* with a call that was given up interests nobody.                         *)
GiveUp(t) ==
  /\ queue' = [i \in DOMAIN queue |-> IF queue[i] = t THEN Nobody ELSE queue[i]]
  /\ working' = working \ {t}
  /\ strays' = IF t \in working THEN strays + 1 ELSE strays
  /\ answer' = [answer EXCEPT ![t] = NoAnswer]
Bug_SameModeAgain(t) ==
  /\ call' = [call EXCEPT ![t].at = "dispatch"]
  /\ GiveUp(t)
  /\ UNCHANGED <<modeVars, linkVars, controlVars, programVars, box, ops>>
FallBack(t) ==
  /\ call' = [call EXCEPT ![t].at = "dispatch", ![t].level = @ - 1]
  /\ GiveUp(t)
  /\ UNCHANGED <<modeVars, linkVars, controlVars, programVars, box, ops>>

Dispatches(t) == At(t, "dispatch") /\ call[t].level > 0

not_connected(t) ==
  /\ Dispatches(t) /\ stub = 0
  /\ FallBack(t) /\ UNCHANGED faults

is_connected(t) ==
  /\ Dispatches(t) /\ stub # 0
  /\ Goes(t, "call_op")
  /\ UNCHANGED <<modeVars, linkVars, controlVars, serverVars, programVars, box, ops,
                 faults>>

(* The bytes of the tensor are copied into the request.                    *)
pack_call(t) ==
  /\ At(t, "call_op") /\ stub # 0 /\ call[t].plain
  /\ call' = [call EXCEPT ![t].at = "packed", ![t].sent = heap[store[call[t].arg]]]
  /\ UNCHANGED <<modeVars, linkVars, controlVars, serverVars, programVars, box, ops,
                 faults>>

(* The stub is gone, or the dtype is not one the codec knows.              *)
pack_raises(t) ==
  /\ At(t, "call_op") /\ (stub = 0 \/ ~ call[t].plain)
  /\ FallBack(t) /\ UNCHANGED faults

ExecuteOp(t) ==
  /\ At(t, "packed") /\ stub # 0 /\ stub \notin closed
  /\ call' = [call EXCEPT ![t].at = "waiting", ![t].via = stub]
  /\ queue' = Append(queue, t)
  /\ UNCHANGED <<modeVars, linkVars, controlVars, working, strays, answer,
                 programVars, box, ops, faults>>

(* _stub is read again: another thread may have cleared or closed it.      *)
ExecuteOp_raises(t) ==
  /\ At(t, "packed") /\ (stub = 0 \/ stub \in closed)
  /\ FallBack(t) /\ UNCHANGED faults

(* The channel is closed under the call ...                                *)
call_cancelled(t) ==
  /\ At(t, "waiting") /\ call[t].via \in closed
  /\ FallBack(t) /\ UNCHANGED faults

(* ... or request, answer or server is lost, before or after the operation *)
(* was executed.                                                           *)
call_lost(t) ==
  /\ At(t, "waiting") /\ faults < MaxFaults
  /\ faults' = faults + 1
  /\ FallBack(t)

Answered(t) == At(t, "waiting") /\ answer[t].came

server_error(t) ==
  /\ Answered(t) /\ answer[t].error
  /\ FallBack(t) /\ UNCHANGED faults

(* The worker thread without a mode turns the answer into tensors.         *)
Bug_OneBox(t) ==
  /\ Answered(t) /\ ~ answer[t].error
  /\ box' = [u \in Threads |-> answer[t].value]
  /\ answer' = [answer EXCEPT ![t] = NoAnswer]
  /\ Goes(t, "unpacked")
  /\ UNCHANGED <<modeVars, linkVars, controlVars, queue, working, strays,
                 programVars, ops, faults>>
unpack_worker(t) ==
  /\ Answered(t) /\ ~ answer[t].error
  /\ box' = [box EXCEPT ![t] = answer[t].value]
  /\ answer' = [answer EXCEPT ![t] = NoAnswer]
  /\ Goes(t, "unpacked")
  /\ UNCHANGED <<modeVars, linkVars, controlVars, queue, working, strays,
                 programVars, ops, faults>>

------------------------------------------------------------------------------
(* What an operation does to the program's tensors.                        *)

Fresh == CHOOSE n \in Tensors : n \notin DOMAIN store

(* An operation executed by PyTorch itself.                                *)
Executed(world, kind, arg) ==
  LET s == world.store[arg]
  IN  CASE kind = "functional" -> [store |-> With(world.store, Fresh, Fresh),
                                   heap |-> With(world.heap, Fresh,
                                                 Result(kind, world.heap[s]))]
        [] kind = "view" -> [world EXCEPT !.store = With(@, Fresh, s)]
        [] kind = "in_place" -> [world EXCEPT !.heap[s] = Result(kind, @)]

(* An operation whose result is what the mode returns: a tensor of its     *)
(* own.  PyTorch drops what a mode returns for an operation in place.      *)
Returned(world, kind, v) ==
  IF kind = "in_place" THEN world
  ELSE [store |-> With(world.store, Fresh, Fresh), heap |-> With(world.heap, Fresh, v)]

Ends(t, world, isDiverted) ==
  /\ store' = world.store /\ heap' = world.heap
  /\ ideal' = Executed(ideal, call[t].kind, call[t].arg)
  /\ diverted' = (diverted \/ isDiverted)
  /\ call' = [call EXCEPT ![t] = NoCall(First)]
  /\ UNCHANGED <<modeVars, linkVars, controlVars, serverVars, box, ops, faults>>

Real == [store |-> store, heap |-> heap]

return_remote(t) ==
  /\ At(t, "unpacked")
  /\ Ends(t, Returned(Real, call[t].kind, box[t]), call[t].kind # "functional")

execute_locally(t) ==
  /\ At(t, "dispatch") /\ call[t].level = 0
  /\ Ends(t, Executed(Real, call[t].kind, call[t].arg), FALSE)

------------------------------------------------------------------------------
(* The server: a pool of threads that take jobs in the order they came.    *)

pool_begins ==
  /\ queue # <<>> /\ Cardinality(working) + strays < Workers
  /\ queue' = Tail(queue)
  /\ IF Head(queue) = Nobody THEN strays' = strays + 1 /\ UNCHANGED working
     ELSE working' = working \cup {Head(queue)} /\ UNCHANGED strays
  /\ UNCHANGED <<modeVars, linkVars, controlVars, answer, programVars, call, box,
                 ops, faults>>

(* Executed on copies; whatever is raised becomes the text of an error.    *)
server_answers(t) ==
  /\ t \in working
  /\ working' = working \ {t}
  /\ \E error \in BOOLEAN :
       answer' = [answer EXCEPT ![t] =
                    [came |-> TRUE, error |-> error,
                     value |-> Result(call[t].kind, call[t].sent)]]
  /\ UNCHANGED <<modeVars, linkVars, controlVars, queue, strays, programVars, call,
                 box, ops, faults>>

stray_ends ==
  /\ strays > 0
  /\ strays' = strays - 1
  /\ UNCHANGED <<modeVars, linkVars, controlVars, queue, working, answer,
                 programVars, call, box, ops, faults>>

------------------------------------------------------------------------------
ThreadStep(t) ==
  \/ not_connected(t) \/ is_connected(t) \/ pack_call(t) \/ pack_raises(t)
  \/ ExecuteOp(t) \/ ExecuteOp_raises(t) \/ call_cancelled(t) \/ server_error(t)
  \/ unpack_worker(t) \/ return_remote(t) \/ execute_locally(t)

ControlStep ==
  \/ disconnect_closes \/ disconnect_clears \/ connect_opens \/ connect_refused
  \/ enable_installs

Next ==
  \/ enable_locally \/ enable_remotely \/ disable \/ ControlStep
  \/ \E t \in Threads :
       \/ intercept(t)
       \/ \E k \in Kinds, a \in DOMAIN store, p \in BOOLEAN : Begin(t, k, a, p)
       \/ ThreadStep(t) \/ call_lost(t) \/ server_answers(t)
  \/ pool_begins \/ stray_ends

Spec == Init /\ [][Next]_vars

(* Threads of the program and of the pool run; the program need not begin  *)
(* anything, and nothing need be lost.                                     *)
FairSpec ==
  /\ Spec
  /\ WF_vars(pool_begins) /\ WF_vars(stray_ends)
  /\ \A t \in Threads : WF_vars(ThreadStep(t)) /\ WF_vars(server_answers(t))

------------------------------------------------------------------------------
Map(D, S) == UNION {[E -> S] : E \in SUBSET D}
World == [store : Map(Tensors, Tensors), heap : Map(Tensors, Values)]

(* The type invariant: the modes on a thread's stack are those of its open *)
(* contexts and, on the main thread, the one enable put there, whatever    *)
(* order they are entered and left in.                                     *)
TypeOK ==
  /\ withs \in [Threads -> {0, 1}] /\ active \in BOOLEAN
  /\ modes = [t \in Threads |-> withs[t] + IF t = Main /\ active THEN 1 ELSE 0]
  /\ control \in {"none", "disconnect", "clear", "connect", "install"}
  /\ enabling \in BOOLEAN
  /\ opened \in Nat /\ channel \in 0 .. opened /\ stub \in {0, channel}
  /\ closed \subseteq 1 .. opened
  /\ \A t \in Threads :
       /\ call[t].at \in {"idle", "dispatch", "call_op", "packed", "waiting", "unpacked"}
       /\ call[t].kind \in AllKinds /\ call[t].arg \in DOMAIN store
       /\ call[t].level \in 0 .. modes[t] /\ call[t].via \in 0 .. opened
       /\ call[t].at \in {"call_op", "packed", "waiting", "unpacked"} => call[t].level > 0
       /\ answer[t].came => call[t].at = "waiting" /\ answer[t].value \in Values
  /\ queue \in Seq(Threads \cup {Nobody}) /\ working \subseteq Threads
  /\ strays \in Nat /\ strays + Cardinality(working) <= Workers
  /\ [store |-> store, heap |-> heap] \in World /\ ideal \in World
  /\ diverted \in BOOLEAN /\ ops \in Nat /\ faults \in Nat

(* Every tensor has the contents it would have without a server.           *)
Identical ==
  /\ DOMAIN store = DOMAIN ideal.store
  /\ \A n \in DOMAIN store : heap[store[n]] = ideal.heap[ideal.store[n]]

(* As long as no view and no operation in place was answered by the        *)
(* server, the program computes what it computes alone: whatever is lost,  *)
(* refused, executed twice, closed by another thread or handed down a      *)
(* stack of modes.  In particular an operation in place that the server    *)
(* executed and the client repeats takes effect once.                      *)
OnlyEffectsDiffer == ~ diverted => Identical

(* Every operation returns: no order of closing, losing and queueing       *)
(* leaves a thread waiting, and no fallback goes round for ever.           *)
OpsReturn == \A t \in Threads : call[t].at # "idle" ~> call[t].at = "idle"
==============================================================================
