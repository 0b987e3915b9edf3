------------------------------- MODULE Migration -------------------------------
(***************************************************************************)
(* A checkpoint of server and client, and their restart elsewhere: what    *)
(* tests/cr/checkpoint.sh and restore.sh make of the server's signal       *)
(* handler (cpu-server.c), the recorder (api-recorder.h), the replay       *)
(* (cr.c), the client's repair of its connection (cpu-client.c) and CRIU,  *)
(* while clients go on calling.                                            *)
(*                                                                         *)
(* A handler of a call is cut where a signal may come in between.  Calls   *)
(* allocate a block, which is called by its caller and the number of the   *)
(* call, or store their number in one.  Reuse of addresses, frees, and     *)
(* where a restart puts a block are the matter of CheckpointRestart.       *)
(***************************************************************************)
EXTENDS Integers, Sequences

CONSTANTS
    Clients,
    App,            \* the client that is dumped and restored
    MaxCalls        \* bound: calls of a client

ASSUME AppAssumption == App \in Clients /\ MaxCalls \in Nat

Blocks == Clients \X (1 .. MaxCalls)
Nothing == -1       \* a block that is not there
Contents == {Nothing} \cup 0 .. MaxCalls
Wild == <<>>        \* an address that is no block's
Nowhere == [b \in Blocks |-> Nothing]

VARIABLES
    client,         \* "running", "waiting" for an answer, "repairing", "dumped" or "exited"
    calls,          \* calls a client has made
    held,           \* what a client has last stored in each block it holds
    call,           \* its last call: [op, block, value]
    way,            \* where that is: "request", "handler", "answer", "lost" or "none"
    connected,      \* its connection leads to the server there is
    pending,        \* SIGUSR1 is pending for the client App
    server,         \* "serving", "gone", "starting" or "replaying"
    handler,        \* what the server is in: [client, step]
    records,        \* api_records: [op, block, done]
    memory,         \* contents of the blocks
    usr1,           \* SIGUSR1 is pending for the server
    next,           \* the record the replay is at
    ckp,            \* the directory ckp, and what App was about when it was written
    image,          \* CRIU's image of App
    script          \* what the scripts have done

clientVars == <<client, calls, held, call, way, connected, pending>>
serverVars == <<server, handler, records, memory, usr1, next>>
vars == <<clientVars, serverVars, ckp, image, script>>

NoCall == [op |-> "none", block |-> Wild, value |-> 0]
Sync == [op |-> "sync", block |-> Wild, value |-> 0]
Idle == [client |-> App, step |-> "none"]
NoCheckpoint == [complete |-> FALSE, records |-> <<>>, files |-> Nowhere, quiet |-> FALSE, calls |-> 0]
NoImage == [client |-> "exited", calls |-> 0, held |-> Nowhere, call |-> NoCall, way |-> "none"]

Init ==
    /\ client = [c \in Clients |-> "running"] /\ calls = [c \in Clients |-> 0]
    /\ held = [c \in Clients |-> Nowhere]
    /\ call = [c \in Clients |-> NoCall] /\ way = [c \in Clients |-> "none"]
    /\ connected = [c \in Clients |-> TRUE] /\ pending = FALSE
    /\ server = "serving" /\ handler = Idle /\ records = <<>> /\ memory = Nowhere
    /\ usr1 = FALSE /\ next = 1
    /\ ckp = NoCheckpoint /\ image = NoImage /\ script = "started"

-------------------------------------------------------------------------------
(*  A client  *)

Request(c, what) ==
    /\ call' = [call EXCEPT ![c] = what]
    /\ way' = [way EXCEPT ![c] = IF connected[c] THEN "request" ELSE "lost"]

calling(c) ==
    /\ client[c] = "running" /\ ~(pending /\ c = App) /\ calls[c] < MaxCalls
    /\ client' = [client EXCEPT ![c] = "waiting"]
    /\ calls' = [calls EXCEPT ![c] = @ + 1]
    /\ \/ Request(c, [op |-> "malloc", block |-> <<c, calls[c] + 1>>, value |-> 0])
       \/ \E b \in Blocks :
            /\ held[c][b] # Nothing
            /\ Request(c, [op |-> "store", block |-> b, value |-> calls[c] + 1])
    /\ UNCHANGED <<held, connected, pending, serverVars, ckp, image, script>>

returns(c) ==
    /\ client[c] = "waiting" /\ way[c] = "answer"
    /\ client' = [client EXCEPT ![c] = "running"]
    /\ way' = [way EXCEPT ![c] = "none"]
    /\ held' = [held EXCEPT ![c][call[c].block] = call[c].value]
    /\ UNCHANGED <<calls, call, connected, pending, serverVars, ckp, image, script>>

(* The result is what the stack held; no other call depends on it.         *)
call_fails(c) ==
    /\ client[c] = "waiting" /\ way[c] = "lost"
    /\ client' = [client EXCEPT ![c] = "running"]
    /\ way' = [way EXCEPT ![c] = "none"]
    /\ UNCHANGED <<calls, held, call, connected, pending, serverVars, ckp, image, script>>

Listening == server \in {"replaying", "serving"}

(* Mutant: the server registers itself once it has restored everything.    *)
Bug_RegisteredLast ==
    /\ pending /\ client[App] = "running"
    /\ pending' = FALSE
    /\ IF server = "serving"
       THEN /\ connected' = [connected EXCEPT ![App] = TRUE]
            /\ client' = [client EXCEPT ![App] = "repairing"]
            /\ call' = [call EXCEPT ![App] = Sync] /\ way' = [way EXCEPT ![App] = "request"]
       ELSE client' = [client EXCEPT ![App] = "exited"] /\ UNCHANGED <<connected, call, way>>
    /\ UNCHANGED <<calls, held, serverVars, ckp, image, script>>

(* The signal waits until the client is out of its call.                   *)
repair_connection ==
    /\ pending /\ client[App] = "running"
    /\ pending' = FALSE
    /\ IF Listening
       THEN /\ connected' = [connected EXCEPT ![App] = TRUE]
            /\ client' = [client EXCEPT ![App] = "repairing"]
            /\ call' = [call EXCEPT ![App] = Sync] /\ way' = [way EXCEPT ![App] = "request"]
       ELSE client' = [client EXCEPT ![App] = "exited"] /\ UNCHANGED <<connected, call, way>>
    /\ UNCHANGED <<calls, held, serverVars, ckp, image, script>>

repaired ==
    /\ client[App] = "repairing" /\ way[App] \in {"answer", "lost"}
    /\ client' = [client EXCEPT ![App] = "running"]
    /\ way' = [way EXCEPT ![App] = "none"]
    /\ UNCHANGED <<calls, held, call, connected, pending, serverVars, ckp, image, script>>

-------------------------------------------------------------------------------
(*  The server's handlers, one at a time  *)

Way(c, place) == way' = [way EXCEPT ![c] = place]
HandlerStep == UNCHANGED <<client, calls, held, call, connected, pending, server, usr1, next,
                           ckp, image, script>>
At(step) == handler.step = step
LastRecord(r) == records' = [records EXCEPT ![Len(records)] = r]

cuda_device_synchronize(c) ==
    /\ server = "serving" /\ At("none") /\ way[c] = "request" /\ call[c].op = "sync"
    /\ Way(c, "answer")
    /\ HandlerStep /\ UNCHANGED <<handler, records, memory>>

(* RECORD_API: the new element has what the memory held before.            *)
list_append(c) ==
    /\ server = "serving" /\ At("none") /\ way[c] = "request" /\ call[c].op # "sync"
    /\ Way(c, "handler")
    /\ handler' = [client |-> c, step |-> "appended"]
    /\ \E stale \in {Wild} \cup {b \in Blocks : memory[b] # Nothing} :
         records' = Append(records, [op |-> "unset", block |-> stale, done |-> FALSE])
    /\ HandlerStep /\ UNCHANGED memory

record_api ==
    /\ At("appended")
    /\ handler' = [handler EXCEPT !.step = "filled"]
    /\ LastRecord([records[Len(records)] EXCEPT !.op = call[handler.client].op])
    /\ HandlerStep /\ UNCHANGED <<way, memory>>

execute ==
    /\ At("filled")
    /\ handler' = [handler EXCEPT !.step = "executed"]
    /\ memory' = [memory EXCEPT ![call[handler.client].block] = call[handler.client].value]
    /\ HandlerStep /\ UNCHANGED <<way, records>>

(* Mutant: a handler that forgets RECORD_RESULT.                           *)
Bug_NoResult ==
    /\ At("executed")
    /\ handler' = [handler EXCEPT !.step = "recorded"]
    /\ HandlerStep /\ UNCHANGED <<way, records, memory>>

record_result ==
    /\ At("executed")
    /\ handler' = [handler EXCEPT !.step = "recorded"]
    /\ LastRecord([op |-> call[handler.client].op, done |-> TRUE,
                   block |-> call[handler.client].block])
    /\ HandlerStep /\ UNCHANGED <<way, memory>>

answer ==
    /\ At("recorded")
    /\ handler' = Idle
    /\ Way(handler.client, "answer")
    /\ HandlerStep /\ UNCHANGED <<records, memory>>

-------------------------------------------------------------------------------
(*  The checkpoint, inside the signal handler  *)

Mallocs(recs) == {i \in DOMAIN recs : recs[i].op = "malloc"}
Stale(recs) ==
    {recs[i].block : i \in {i \in DOMAIN recs : ~recs[i].done /\ recs[i].op # "store"}} \ {Wild}
Quiet == way[App] \notin {"request", "handler"}

(* A result that is not set yet and happens to be the address of a block   *)
(* of another size spoils the file of that block.                          *)
Files(spoilt) ==
    [b \in Blocks |->
        IF b \notin spoilt /\ \E i \in Mallocs(records) : records[i].block = b
        THEN memory[b] ELSE Nothing]

(* Mutant: the memory is left out.                                         *)
Bug_RecordsOnly ==
    /\ usr1 /\ server = "serving"
    /\ usr1' = FALSE
    /\ ckp' = [complete |-> TRUE, records |-> records, files |-> Nowhere,
               quiet |-> Quiet, calls |-> calls[App]]
    /\ UNCHANGED <<clientVars, server, handler, records, memory, next, image, script>>

signal_checkpoint ==
    /\ usr1 /\ server = "serving"
    /\ usr1' = FALSE
    /\ \E spoilt \in SUBSET Stale(records) :
         ckp' = [complete |-> TRUE, records |-> records, files |-> Files(spoilt),
                 quiet |-> Quiet, calls |-> calls[App]]
    /\ UNCHANGED <<clientVars, server, handler, records, memory, next, image, script>>

Disconnected(c) == IF way[c] \in {"request", "handler"} THEN "lost" ELSE way[c]
Disconnect ==
    /\ connected' = [c \in Clients |-> FALSE]
    /\ way' = [c \in Clients |-> Disconnected(c)]

(* The arguments of a record that is not set are read from anywhere.  What *)
(* is on disk by then are some records and no memory.                      *)
checkpoint_crashes ==
    /\ usr1 /\ server = "serving" /\ At("appended")
    /\ usr1' = FALSE
    /\ server' = "gone" /\ handler' = Idle /\ records' = <<>> /\ memory' = Nowhere
    /\ Disconnect
    /\ \E n \in 0 .. Len(records) - 1 :
         ckp' = [NoCheckpoint EXCEPT !.records = SubSeq(records, 1, n)]
    /\ UNCHANGED <<client, calls, held, call, pending, next, image, script>>

-------------------------------------------------------------------------------
(*  The scripts and CRIU  *)

kill_usr1 ==
    /\ script = "started"
    /\ script' = "signalled"
    /\ usr1' = (server = "serving")
    /\ UNCHANGED <<clientVars, server, handler, records, memory, next, ckp, image>>

(* An answer that has come is in the image, a connection is not.           *)
criu_dump ==
    /\ script = "signalled"
    /\ script' = "dumped"
    /\ image' = [client |-> client[App], calls |-> calls[App], held |-> held[App],
                 call |-> call[App],
                 way |-> IF way[App] \in {"none", "answer"} THEN way[App] ELSE "lost"]
    /\ client' = [client EXCEPT ![App] = "dumped"]
    /\ UNCHANGED <<calls, held, call, way, connected, pending, serverVars, ckp>>

(* restore.sh kills the server and all clients, wherever they are.         *)
restart ==
    /\ script = "dumped"
    /\ script' = "restarted"
    /\ server' = "starting" /\ handler' = Idle /\ records' = <<>> /\ memory' = Nowhere
    /\ usr1' = FALSE /\ next' = 1
    /\ client' = [c \in Clients |-> IF c = App THEN "dumped" ELSE "exited"]
    /\ Disconnect
    /\ UNCHANGED <<calls, held, call, pending, ckp, image>>

criu_restore ==
    /\ script = "restarted"
    /\ script' = "restored"
    /\ client' = [client EXCEPT ![App] = image.client]
    /\ calls' = [calls EXCEPT ![App] = image.calls]
    /\ held' = [held EXCEPT ![App] = image.held]
    /\ call' = [call EXCEPT ![App] = image.call]
    /\ way' = [way EXCEPT ![App] = image.way]
    /\ pending' = TRUE
    /\ UNCHANGED <<connected, serverVars, ckp, image>>

-------------------------------------------------------------------------------
(*  The restarted server  *)

Restoring == UNCHANGED <<client, calls, held, call, pending, handler, usr1, ckp, image, script>>

svc_register ==
    /\ server = "starting"
    /\ server' = "replaying"
    /\ Restoring /\ UNCHANGED <<way, connected, records, memory, next>>

Replayed == ckp.records[next]
InReplay == server = "replaying" /\ next \in DOMAIN ckp.records

Replay(put) ==
    /\ next' = next + 1
    /\ records' = Append(records, Replayed)
    /\ memory' = put
    /\ Restoring /\ UNCHANGED <<way, connected, server>>

cr_restore_memory ==
    /\ InReplay /\ Replayed.op = "malloc"
    /\ \E contents \in IF Replayed.block = Wild \/ ckp.files[Replayed.block] # Nothing
                       THEN {0} ELSE {0, Nothing} :
         Replay([b \in Blocks |->
                    IF b # Replayed.block THEN memory[b]
                    ELSE IF ckp.files[b] # Nothing THEN ckp.files[b] ELSE contents])

cr_restore_passes ==
    /\ InReplay /\ Replayed.op # "malloc"
    /\ Replay(memory)

(* ret &= of server_runtime_init keeps 0: the server goes on and serves.   *)
cr_restore_gives_up ==
    /\ InReplay
    /\ \/ Replayed.op = "unset"
       \/ Replayed.op = "malloc" /\ Replayed.block # Wild /\ ckp.files[Replayed.block] = Nothing
    /\ server' = "serving"
    /\ records' = Append(records, Replayed)
    /\ Restoring /\ UNCHANGED <<way, connected, memory, next>>

(* A procedure of that number may not be there.                            *)
cr_restore_crashes ==
    /\ InReplay /\ Replayed.op = "unset"
    /\ server' = "gone" /\ records' = <<>> /\ memory' = Nowhere
    /\ Disconnect
    /\ Restoring /\ UNCHANGED next

cr_restore_complete ==
    /\ server = "replaying" /\ next \notin DOMAIN ckp.records
    /\ server' = "serving"
    /\ Restoring /\ UNCHANGED <<way, connected, records, memory, next>>

-------------------------------------------------------------------------------
ClientStep(c) == calling(c) \/ returns(c) \/ call_fails(c)
Handling ==
    \/ \E c \in Clients : cuda_device_synchronize(c) \/ list_append(c)
    \/ record_api \/ execute \/ record_result \/ answer
Checkpointing == signal_checkpoint \/ checkpoint_crashes
Replaying ==
    \/ svc_register \/ cr_restore_memory \/ cr_restore_passes \/ cr_restore_gives_up
    \/ cr_restore_crashes \/ cr_restore_complete

Next ==
    \/ \E c \in Clients : ClientStep(c)
    \/ repair_connection \/ repaired
    \/ Handling \/ Checkpointing \/ Replaying
    \/ kill_usr1 \/ criu_dump \/ restart \/ criu_restore

(* Processes that run keep running, svc_run comes to every request, and a  *)
(* call on a connection that is gone fails in the end.  Nobody has to make *)
(* a call or start a script.                                               *)
Spec ==
    /\ Init /\ [][Next]_vars
    /\ WF_vars(Handling) /\ WF_vars(Replaying)
    /\ WF_vars(returns(App)) /\ WF_vars(call_fails(App))
    /\ WF_vars(repair_connection) /\ WF_vars(repaired)

-------------------------------------------------------------------------------
(*  Properties  *)

RecordSet == [op : {"unset", "malloc", "store"}, block : Blocks \cup {Wild}, done : BOOLEAN]
ClientStates == {"running", "waiting", "repairing", "dumped", "exited"}

(* Every part of the state is of its kind, and of the records only the one *)
(* a handler is in is not finished, before a restart (RECORD_API and       *)
(* RECORD_RESULT; libtirpc's server runs one handler at a time).           *)
TypeOK ==
    /\ client \in [Clients -> ClientStates] /\ calls \in [Clients -> 0 .. MaxCalls]
    /\ held \in [Clients -> [Blocks -> Contents]] /\ memory \in [Blocks -> Contents]
    /\ way \in [Clients -> {"none", "request", "handler", "answer", "lost"}]
    /\ server \in {"serving", "gone", "starting", "replaying"}
    /\ records \in Seq(RecordSet) /\ ckp.records \in Seq(RecordSet)
    /\ ckp.files \in [Blocks -> Contents] /\ next \in 1 .. Len(ckp.records) + 1
    /\ \A i \in DOMAIN ckp.records : ~ckp.records[i].done => i = Len(ckp.records)
    /\ script \in {"started", "signalled", "dumped"} =>
         \A i \in DOMAIN records :
            ~records[i].done => i = Len(records) /\ handler.step \in {"appended", "filled", "executed"}

(* The images of server and client fit: App was in no call of its own when *)
(* the checkpoint was written, and made none from then until CRIU froze    *)
(* it, or the other way round; whatever other clients were about, unless   *)
(* what stands for a result that is not set is the address of a block.     *)
Fit ==
    /\ ckp.complete /\ ckp.quiet
    /\ image.calls = ckp.calls
    /\ image.client = "running" \/ image.way = "answer"
    /\ Stale(ckp.records) = {}

(* When its connection is repaired, App finds in the restarted server all  *)
(* that it has ever stored, even if the signal came upon a handler of      *)
(* another client and the replay gave up at the record of that one         *)
(* (signal_checkpoint, cr_restore, repair_connection).                     *)
ClientFindsItsMemory ==
    script = "restored" /\ client[App] = "running" /\ connected[App] /\ server = "serving" /\ Fit =>
        \A b \in Blocks : held[App][b] # Nothing => memory[b] = held[App][b]

(* What App has stored, and what it has stored in its image, with the call *)
(* that has been executed and whose answer is still on its way.            *)
Executed ==
    \/ way[App] = "answer"
    \/ way[App] = "handler" /\ handler.step \in {"executed", "recorded"}
Stored(b) == IF b = call[App].block /\ Executed THEN call[App].value ELSE held[App][b]
StoredInImage(b) == IF b = image.call.block /\ image.way = "answer" THEN image.call.value ELSE image.held[b]

Good == script \in {"dumped", "restarted", "restored"} /\ Fit
Answering == server = "serving" /\ script # "restarted"
State == IF ~Answering THEN "down"
         ELSE IF script = "restored" /\ ~Fit THEN "lost" ELSE "up"
AsBlock(contents) == [size |-> 1, data |-> contents]
Memory == [b \in {b \in Blocks : State = "up" /\ Stored(b) # Nothing} |-> AsBlock(memory[b])]
OnDisk == [b \in {b \in Blocks : Good /\ StoredInImage(b) # Nothing} |-> AsBlock(ckp.files[b])]
Promise == INSTANCE ClientMemory WITH
    Pointers <- Blocks, Sizes <- {1}, Values <- 1 .. MaxCalls, Undefined <- 0,
    state <- State, memory <- Memory, good <- Good, saved <- OnDisk

(* The server's memory, as far as App has stored in it, is the memory that *)
(* ClientMemory promises: a call of App takes effect in one step, calls of *)
(* other clients, the signal's two handlers and the steps of scripts and   *)
(* CRIU change nothing of it, and when the images of server and client fit *)
(* a restart gives back what was there (signal_checkpoint, cr_restore).    *)
ImplementsClientMemory == Promise!Spec

(* A client that is restored while the server still replays is not lost:   *)
(* its connection waits, and is served in the end, unless the server dies  *)
(* of an unset record (rpc_connect, cricket_main).                         *)
RestoredClientIsServed ==
    (script = "restored" /\ pending /\ Listening)
        ~> (server = "gone" \/ (connected[App] /\ client[App] = "running"))
===============================================================================
