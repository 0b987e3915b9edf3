---------------------------- MODULE MigrationProofs ----------------------------
(***************************************************************************)
(* Theorems about Migration for any number of clients and of calls.        *)
(*                                                                         *)
(* That the images of server and client go together is decided by what     *)
(* App has stored (Stored), counting a call that the server has executed   *)
(* and whose answer is on its way: it is in the memory (Kept), is in the   *)
(* files of a checkpoint that App was quiet at (Taken), is what CRIU's     *)
(* image says (Fits), comes back with the replay (PutBack), and is what    *)
(* App holds afterwards, whether the server is ready first (ServerFirst)   *)
(* or the client (ClientFirst).                                            *)
(***************************************************************************)
EXTENDS Migration, TLAPS

(* The first part of the invariant: who is where.                          *)

Before == script \in {"started", "signalled", "dumped"}
Mine(c) == {c} \X (1 .. MaxCalls)
Ops == {"malloc", "store"}
CallSet == [op : {"none", "malloc", "store", "sync"}, block : Blocks \cup {Wild}, value : 0 .. MaxCalls]
Steps == {"none", "appended", "filled", "executed", "recorded"}
Open == {"appended", "filled", "executed"}

ClientKinds ==
    /\ client \in [Clients -> ClientStates] /\ calls \in [Clients -> 0 .. MaxCalls]
    /\ held \in [Clients -> [Blocks -> Contents]] /\ call \in [Clients -> CallSet]
    /\ way \in [Clients -> {"none", "request", "handler", "answer", "lost"}]
    /\ image.client \in ClientStates /\ image.calls \in 0 .. MaxCalls
    /\ image.held \in [Blocks -> Contents] /\ image.call \in CallSet
    /\ image.way \in {"none", "answer", "lost"}
ServerKinds ==
    /\ server \in {"serving", "gone", "starting", "replaying"}
    /\ handler \in [client : Clients, step : Steps]
    /\ memory \in [Blocks -> Contents]
    /\ records \in Seq(RecordSet) /\ ckp.records \in Seq(RecordSet)
    /\ ckp.files \in [Blocks -> Contents] /\ ckp.calls \in 0 .. MaxCalls
    /\ next \in 1 .. Len(ckp.records) + 1
    /\ script \in {"started", "signalled", "dumped", "restarted", "restored"}

(* Of the records at most the last is open.                                *)
LastIsOpen(recs) ==
    \A i \in DOMAIN recs :
        /\ ~recs[i].done => i = Len(recs)
        /\ recs[i].op = "unset" => ~recs[i].done
OpenRecords ==
    /\ LastIsOpen(ckp.records)
    /\ Before => LastIsOpen(records)
    /\ Before /\ handler.step \notin Open => \A i \in DOMAIN records : records[i].done
    /\ handler.step \in Open => records # <<>> /\ (Before => ~records[Len(records)].done)

Own ==
    /\ \A c \in Clients :
         /\ call[c].op \in Ops => call[c].block \in Mine(c)
         /\ call[c].op \notin Ops => call[c].block = Wild
         /\ \A b \in Blocks : held[c][b] # Nothing => b \in Mine(c)
    /\ image.call.op \in Ops => image.call.block \in Mine(App)
    /\ image.call.op \notin Ops => image.call.block = Wild
    /\ \A b \in Blocks : image.held[b] # Nothing => b \in Mine(App)

(* The handler is in one call, and nobody else's call is in it.            *)
Working ==
    /\ handler.step # "none" =>
         /\ server = "serving" /\ way[handler.client] = "handler"
         /\ call[handler.client].op \in Ops
    /\ \A c \in Clients : way[c] = "handler" => handler.client = c /\ handler.step # "none"

Waits ==
    /\ \A c \in Clients :
         /\ way[c] # "none" => call[c].op # "none"
         /\ client[c] = "waiting" => call[c].op \in Ops
         /\ client[c] = "running" => way[c] = "none"
         /\ client[c] = "repairing" => call[c].op = "sync"
         /\ Before => call[c].op # "sync"
    /\ image.client = "running" => image.way = "none"
    /\ image.way # "none" => image.call.op # "none"
    /\ image.client = "waiting" => image.call.op \in Ops
    /\ image.call.op # "sync" /\ image.client # "repairing"

BeforeRestart ==
    /\ script = "started" => ~ckp.complete /\ ~usr1
    /\ Before =>
         /\ ckp.complete => ~usr1 /\ server = "serving"
         /\ ckp.calls <= calls[App] /\ next = 1
         /\ server = "serving" => connected[App] /\ way[App] # "lost"
         /\ server \in {"serving", "gone"} /\ ~pending
    /\ script \in {"started", "signalled"} => client[App] \in {"running", "waiting"}

AfterRestart ==
    /\ ~Before => ~usr1
    /\ server = "starting" => next = 1
    /\ script = "restarted" =>
         \A c \in Clients : client[c] \in {"dumped", "exited"} /\ way[c] \notin {"request", "handler"}
    /\ script = "restored" /\ server \in {"starting", "replaying"} =>
         /\ client[App] \in {"running", "waiting"} => pending
         /\ client[App] = "repairing" => way[App] = "request"

Frozen ==
    script = "dumped" =>
        /\ client[App] = "dumped" /\ held[App] = image.held /\ call[App] = image.call
        /\ calls[App] = image.calls
        /\ image.way # "lost" => way[App] = image.way

Control ==
    /\ ClientKinds /\ ServerKinds /\ OpenRecords /\ Own /\ Working /\ Waits
    /\ BeforeRestart /\ AfterRestart /\ Frozen

(* The second part: what is where.                                         *)

DoneMalloc(recs, b) == \E i \in DOMAIN recs : recs[i].op = "malloc" /\ recs[i].block = b /\ recs[i].done

(* A store goes to a block its caller holds.                               *)
StoreHeld ==
    Before /\ call[App].op = "store" /\ way[App] # "none" => held[App][call[App].block] # Nothing

(* What App holds, or is about to be told, has a record that is closed.    *)
Recorded ==
    Before /\ server = "serving" =>
        \A b \in Blocks :
            \/ held[App][b] # Nothing
            \/ b = call[App].block /\ (way[App] = "answer" \/ (way[App] = "handler" /\ handler.step = "recorded"))
            => DoneMalloc(records, b)

(* A closed record of an allocation is one of a block that is there, and   *)
(* its file is there in a checkpoint that no open record spoils.           *)
Finished ==
    Before /\ server = "serving" =>
        \A i \in DOMAIN records : records[i].op = "malloc" /\ records[i].done =>
            records[i].block \in Blocks /\ memory[records[i].block] # Nothing
Filed ==
    ckp.complete /\ Stale(ckp.records) = {} =>
        \A i \in DOMAIN ckp.records : ckp.records[i].op = "malloc" /\ ckp.records[i].done =>
            ckp.records[i].block \in Blocks /\ ckp.files[ckp.records[i].block] # Nothing

(* The files have all that App has stored.                                 *)
Carries == \A b \in Blocks : Stored(b) # Nothing => DoneMalloc(ckp.records, b) /\ ckp.files[b] = Stored(b)
CarriesImage ==
    \A b \in Blocks : StoredInImage(b) # Nothing => DoneMalloc(ckp.records, b) /\ ckp.files[b] = StoredInImage(b)

(* So they have, when App was in no call of its own, until its next call,  *)
(* and then for good when CRIU has frozen it before that.                  *)
Taken ==
    script = "signalled" /\ ckp.complete /\ ckp.quiet /\ calls[App] = ckp.calls /\ Stale(ckp.records) = {} =>
        way[App] \in {"none", "answer"} /\ Carries
Fits == script \notin {"started", "signalled"} /\ Fit => CarriesImage

(* The records before the one the replay is at have their contents back.   *)
PutBack ==
    server = "replaying" =>
        \A i \in DOMAIN ckp.records :
            i < next /\ ckp.records[i].op = "malloc" /\ ckp.records[i].block \in Blocks
                /\ ckp.files[ckp.records[i].block] # Nothing
            => memory[ckp.records[i].block] = ckp.files[ckp.records[i].block]
(* The server is ready before the client is restored, or after.            *)
ServerFirst ==
    script = "restarted" /\ server = "serving" /\ Fit =>
        \A b \in Blocks : StoredInImage(b) # Nothing => memory[b] = StoredInImage(b)
ClientFirst ==
    script = "restored" /\ server \in {"starting", "replaying"} /\ Fit =>
        /\ \A b \in Blocks : Stored(b) = StoredInImage(b)
        /\ client[App] = "waiting" => way[App] = "answer"
(* A block is there once the handler has executed its call.                *)
IsThere ==
    handler.step \in {"executed", "recorded"} => memory[call[handler.client].block] # Nothing
(* All that App has stored is in the server's memory.                      *)
Kept ==
    server = "serving" /\ (Before \/ (script = "restored" /\ Fit)) =>
        \A b \in Blocks : Stored(b) # Nothing => memory[b] = Stored(b)

Data ==
    /\ StoreHeld /\ Recorded /\ Finished /\ Filed /\ Taken /\ Fits
    /\ PutBack /\ ServerFirst /\ ClientFirst /\ IsThere /\ Kept

IInv == Control /\ Data

-------------------------------------------------------------------------------
(* What a change of the last element leaves as it is.                      *)
LEMMA LastChanges ==
  ASSUME NEW S, NEW R \in Seq(S), R # <<>>, NEW r \in S, NEW T, T = [R EXCEPT ![Len(R)] = r]
  PROVE  /\ T \in Seq(S) /\ Len(T) = Len(R) /\ DOMAIN T = DOMAIN R
         /\ Len(R) \in DOMAIN R /\ T[Len(R)] = r
         /\ \A i \in DOMAIN R : i # Len(R) => T[i] = R[i]
OBVIOUS

(* Blocks of two clients are not the same, and wild ones are nobody's.     *)
LEMMA Separate ==
  /\ App \in Clients /\ MaxCalls \in Nat
  /\ Wild \notin Blocks /\ Nothing \notin 0 .. MaxCalls
  /\ \A c \in Clients : \A b \in Mine(c) : b \in Blocks
  /\ \A c, d \in Clients : \A b \in Mine(c) : b \in Mine(d) => c = d
  /\ \A c \in Clients : \A n \in 0 .. MaxCalls - 1 : <<c, n + 1>> \in Mine(c)
BY AppAssumption DEF Wild, Blocks, Nothing, Mine

-------------------------------------------------------------------------------
(* Each step keeps the first part of the invariant.                        *)

LEMMA Control_calling ==
  ASSUME Control, NEW c \in Clients, calling(c)
  PROVE  Control'
<1> DEFINE malloc == [op |-> "malloc", block |-> <<c, calls[c] + 1>>, value |-> 0]
           store(b) == [op |-> "store", block |-> b, value |-> calls[c] + 1]
<1>a. /\ malloc \in CallSet /\ malloc.op = "malloc" /\ malloc.block \in Mine(c)
      /\ \A b \in Mine(c) : store(b) \in CallSet /\ store(b).op = "store" /\ store(b).block = b
  BY Separate DEF Control, ClientKinds, calling, CallSet
<1> HIDE DEF malloc, store
<1>b. PICK what \in CallSet : Request(c, what) /\ what.op \in Ops /\ what.block \in Mine(c)
  <2>1. CASE Request(c, malloc)
    BY <1>a, <2>1 DEF Ops
  <2>2. ASSUME NEW b \in Blocks, held[c][b] # Nothing, Request(c, store(b))
        PROVE  \E what \in CallSet : Request(c, what) /\ what.op \in Ops /\ what.block \in Mine(c)
    <3>1. b \in Mine(c)
      BY <2>2 DEF Control, Own
    <3> QED BY <1>a, <2>2, <3>1 DEF Ops
  <2> QED BY <2>1, <2>2 DEF calling, malloc, store
<1>1. ClientKinds'
  <2>1. call' \in [Clients -> CallSet]
    BY <1>b DEF Control, ClientKinds, Request
  <2>2. way' \in [Clients -> {"none", "request", "handler", "answer", "lost"}]
    BY <1>b DEF Control, ClientKinds, Request
  <2>3. calls' \in [Clients -> 0 .. MaxCalls]
    BY Separate DEF Control, ClientKinds, calling
  <2> QED BY <2>1, <2>2, <2>3 DEF Control, ClientKinds, ClientStates, calling
<1>2. ServerKinds' /\ OpenRecords'
  BY DEF Control, ServerKinds, calling, serverVars, OpenRecords, Before
<1>3. Own'
  BY <1>b, Separate DEF Control, ClientKinds, Own, calling, Request
<1>4. Working'
  BY DEF Control, ClientKinds, ServerKinds, Working, Waits, calling, Request, serverVars
<1>5. Waits'
  BY DEF Control, ClientKinds, Waits, Before, Ops, calling, Request
<1>6. BeforeRestart'
  BY Separate DEF Control, ClientKinds, ServerKinds, BeforeRestart, Before, calling, Request,
       serverVars
<1>7. AfterRestart'
  BY Separate DEF Control, ClientKinds, AfterRestart, Before, calling, Request, serverVars
<1>8. Frozen'
  BY Separate DEF Control, ClientKinds, Frozen, calling, Request
<1> QED BY <1>1, <1>2, <1>3, <1>4, <1>5, <1>6, <1>7, <1>8 DEF Control

LEMMA Control_returns ==
  ASSUME Control, NEW c \in Clients, returns(c)
  PROVE  Control'
<1>1. ClientKinds'
  BY DEF Control, ClientKinds, ClientStates, CallSet, Contents, returns
<1>2. ServerKinds' /\ OpenRecords' /\ Working' /\ BeforeRestart' /\ AfterRestart' /\ Frozen'
  BY DEF Control, ServerKinds, returns, serverVars, OpenRecords, Before, Working,
       BeforeRestart, AfterRestart, Frozen
<1>3. Own'
  BY DEF Control, Own, Waits, returns
<1>4. Waits'
  BY DEF Control, ClientKinds, Waits, Before, returns
<1> QED BY <1>1, <1>2, <1>3, <1>4 DEF Control

LEMMA Control_call_fails ==
  ASSUME Control, NEW c \in Clients, call_fails(c)
  PROVE  Control'
<1>1. ClientKinds'
  BY DEF Control, ClientKinds, ClientStates, call_fails
<1>2. ServerKinds' /\ OpenRecords' /\ Own' /\ Working' /\ BeforeRestart' /\ AfterRestart' /\ Frozen'
  BY DEF Control, ServerKinds, call_fails, serverVars, OpenRecords, Before, Own, Working,
       BeforeRestart, AfterRestart, Frozen
<1>3. Waits'
  BY DEF Control, ClientKinds, Waits, Before, call_fails
<1> QED BY <1>1, <1>2, <1>3 DEF Control

LEMMA Control_repair_connection ==
  ASSUME Control, repair_connection
  PROVE  Control'
<1>a. Sync \in CallSet /\ Sync.op = "sync" /\ Sync.block = Wild
  BY Separate DEF Sync, CallSet
<1>b. UNCHANGED <<calls, held, image>>
  BY DEF repair_connection
<1>c. ASSUME Listening PROVE ClientKinds' /\ Own'
  <2>1. /\ client' = [client EXCEPT ![App] = "repairing"]
        /\ call' = [call EXCEPT ![App] = Sync] /\ way' = [way EXCEPT ![App] = "request"]
    BY <1>c DEF repair_connection
  <2>2. ClientKinds'
    BY <1>a, <1>b, <2>1, Separate DEF Control, ClientKinds, ClientStates
  <2>3. Own'
    BY <1>a, <1>b, <2>1, Separate DEF Control, ClientKinds, Own, Ops
  <2> QED BY <2>2, <2>3
<1>d. ASSUME ~Listening PROVE ClientKinds' /\ Own'
  <2>1. client' = [client EXCEPT ![App] = "exited"] /\ UNCHANGED <<call, way>>
    BY <1>d DEF repair_connection
  <2>2. ClientKinds'
    BY <1>b, <2>1, Separate DEF Control, ClientKinds, ClientStates
  <2>3. Own'
    BY <1>b, <2>1, Separate DEF Control, ClientKinds, Own, Ops
  <2> QED BY <2>2, <2>3
<1>1. ClientKinds'
  BY <1>c, <1>d
<1>2. ServerKinds' /\ OpenRecords' /\ BeforeRestart' /\ Frozen'
  BY DEF Control, ServerKinds, repair_connection, serverVars, OpenRecords, Before,
       BeforeRestart, Frozen
<1>3. Own'
  BY <1>c, <1>d
<1>4. Working'
  BY DEF Control, ClientKinds, ServerKinds, Working, Waits, repair_connection, serverVars
<1>5. Waits'
  BY <1>a, Separate DEF Control, ClientKinds, Own, Waits, BeforeRestart, Before, Ops,
       repair_connection, serverVars
<1>6. AfterRestart'
  BY <1>a, Separate DEF Control, ClientKinds, Waits, BeforeRestart, AfterRestart, Before,
       repair_connection, Listening, serverVars
<1> QED BY <1>1, <1>2, <1>3, <1>4, <1>5, <1>6 DEF Control

LEMMA Control_repaired ==
  ASSUME Control, repaired
  PROVE  Control'
<1>1. ClientKinds'
  BY DEF Control, ClientKinds, ClientStates, repaired
<1>2. ServerKinds' /\ OpenRecords' /\ Own' /\ Working' /\ BeforeRestart' /\ AfterRestart' /\ Frozen'
  BY DEF Control, ServerKinds, repaired, serverVars, OpenRecords, Before, Own, Working,
       BeforeRestart, AfterRestart, Frozen
<1>3. Waits'
  BY DEF Control, ClientKinds, Waits, Before, repaired
<1> QED BY <1>1, <1>2, <1>3 DEF Control

LEMMA Control_cuda_device_synchronize ==
  ASSUME Control, NEW c \in Clients, cuda_device_synchronize(c)
  PROVE  Control'
<1>1. ClientKinds'
  BY DEF Control, ClientKinds, cuda_device_synchronize, Way, HandlerStep
<1>2. ServerKinds' /\ OpenRecords' /\ Own' /\ AfterRestart'
  BY DEF Control, ServerKinds, cuda_device_synchronize, HandlerStep, OpenRecords, Before, Own,
       AfterRestart
<1>3. Working'
  BY DEF Control, Working, cuda_device_synchronize, Way, HandlerStep
<1>4. Waits'
  BY DEF Control, Waits, Before, cuda_device_synchronize, Way, HandlerStep
<1>5. BeforeRestart'
  BY DEF Control, BeforeRestart, Before, cuda_device_synchronize, Way, HandlerStep
<1>6. Frozen'
  BY DEF Control, ClientKinds, Frozen, cuda_device_synchronize, Way, HandlerStep
<1> QED BY <1>1, <1>2, <1>3, <1>4, <1>5, <1>6 DEF Control

LEMMA Control_list_append ==
  ASSUME Control, NEW c \in Clients, list_append(c)
  PROVE  Control'
<1>1. ClientKinds'
  BY DEF Control, ClientKinds, list_append, Way, HandlerStep
<1>2. ServerKinds'
  BY DEF Control, ServerKinds, RecordSet, Steps, list_append, HandlerStep
<1>3. OpenRecords'
  BY DEF Control, OpenRecords, LastIsOpen, Before, Open, list_append, At, HandlerStep
<1>4. Own' /\ AfterRestart'
  BY DEF Control, Own, list_append, HandlerStep, AfterRestart, Before
<1>5. Working'
  BY DEF Control, ClientKinds, Working, Waits, CallSet, Ops, list_append, Way, At, HandlerStep
<1>6. Waits'
  BY DEF Control, Waits, Before, list_append, Way, HandlerStep
<1>7. BeforeRestart'
  BY DEF Control, BeforeRestart, Before, list_append, Way, HandlerStep
<1>8. Frozen'
  BY DEF Control, ClientKinds, Frozen, list_append, Way, HandlerStep
<1> QED BY <1>1, <1>2, <1>3, <1>4, <1>5, <1>6, <1>7, <1>8 DEF Control

LEMMA Control_record_api ==
  ASSUME Control, record_api
  PROVE  Control'
<1> DEFINE last == records[Len(records)]
           new == [last EXCEPT !.op = call[handler.client].op]
<1>a. records \in Seq(RecordSet) /\ records # <<>>
  BY DEF Control, ServerKinds, OpenRecords, Open, record_api, At
<1>b. last \in RecordSet
  BY <1>a
<1>c. new \in RecordSet /\ new.op # "unset" /\ new.done = last.done
  BY <1>b DEF Control, ServerKinds, Working, Ops, RecordSet, record_api, At
<1>d. records' = [records EXCEPT ![Len(records)] = new]
  BY DEF record_api, LastRecord
<1> HIDE DEF new
<1>e. records' \in Seq(RecordSet)
  BY <1>a, <1>c, <1>d, LastChanges
<1>1. ClientKinds' /\ Own' /\ Waits' /\ BeforeRestart' /\ AfterRestart' /\ Frozen'
  BY DEF Control, ClientKinds, record_api, HandlerStep, Own, Waits, Before, BeforeRestart,
       AfterRestart, Frozen
<1>2. ServerKinds'
  BY <1>e, Separate DEF Control, ServerKinds, record_api, HandlerStep, Steps
<1>3. OpenRecords'
  BY DEF Control, OpenRecords, LastIsOpen, Before, Open, record_api, At, LastRecord, HandlerStep
<1>4. Working'
  BY DEF Control, Working, record_api, At, HandlerStep
<1> QED BY <1>1, <1>2, <1>3, <1>4 DEF Control

LEMMA Control_execute ==
  ASSUME Control, execute
  PROVE  Control'
<1>1. ClientKinds' /\ Own' /\ Waits' /\ BeforeRestart' /\ AfterRestart' /\ Frozen'
  BY DEF Control, ClientKinds, execute, HandlerStep, Own, Waits, Before, BeforeRestart,
       AfterRestart, Frozen
<1>2. ServerKinds'
  BY DEF Control, ClientKinds, ServerKinds, CallSet, Contents, Steps, execute, HandlerStep
<1>3. OpenRecords'
  BY DEF Control, OpenRecords, Before, Open, execute, At, HandlerStep
<1>4. Working'
  BY DEF Control, Working, execute, At, HandlerStep
<1> QED BY <1>1, <1>2, <1>3, <1>4 DEF Control

LEMMA Control_record_result ==
  ASSUME Control, record_result
  PROVE  Control'
<1> DEFINE new == [op |-> call[handler.client].op, done |-> TRUE, block |-> call[handler.client].block]
<1>a. records \in Seq(RecordSet) /\ records # <<>>
  BY DEF Control, ServerKinds, OpenRecords, Open, record_result, At
<1>b. new \in RecordSet /\ new.op # "unset" /\ new.done
  BY DEF Control, ClientKinds, ServerKinds, Working, CallSet, Ops, RecordSet, record_result, At
<1>c. records' = [records EXCEPT ![Len(records)] = new]
  BY DEF record_result, LastRecord
<1> HIDE DEF new
<1>d. /\ records' \in Seq(RecordSet) /\ Len(records') = Len(records) /\ records'[Len(records)] = new
      /\ DOMAIN records' = DOMAIN records
      /\ \A i \in DOMAIN records : i # Len(records) => records'[i] = records[i]
  BY <1>a, <1>b, <1>c, LastChanges
<1>1. ClientKinds' /\ Own' /\ Waits' /\ BeforeRestart' /\ AfterRestart' /\ Frozen'
  BY DEF Control, ClientKinds, record_result, HandlerStep, Own, Waits, Before, BeforeRestart,
       AfterRestart, Frozen
<1>2. ServerKinds'
  BY <1>d, Separate DEF Control, ServerKinds, record_result, HandlerStep, Steps
<1>3. OpenRecords'
  BY <1>b, <1>d, Separate DEF Control, ServerKinds, OpenRecords, record_result, HandlerStep,
       LastIsOpen, Before, Open, At, Steps
<1>4. Working'
  BY DEF Control, Working, record_result, At, HandlerStep
<1> QED BY <1>1, <1>2, <1>3, <1>4 DEF Control

LEMMA Control_answer ==
  ASSUME Control, answer
  PROVE  Control'
<1>1. ClientKinds'
  BY DEF Control, ClientKinds, answer, Way, HandlerStep
<1>2. ServerKinds'
  BY Separate DEF Control, ServerKinds, Steps, answer, HandlerStep, Idle
<1>3. OpenRecords'
  BY DEF Control, OpenRecords, Before, Open, answer, At, HandlerStep, Idle
<1>4. Own'
  BY DEF Control, Own, answer, HandlerStep
<1>5. Working'
  BY DEF Control, ClientKinds, Working, answer, Way, Idle
<1>6. Waits'
  BY DEF Control, Working, Waits, Before, answer, At, Way, HandlerStep
<1>7. BeforeRestart'
  BY DEF Control, BeforeRestart, Before, answer, Way, HandlerStep
<1>8. AfterRestart'
  BY DEF Control, Working, AfterRestart, Before, answer, At, Way, HandlerStep
<1>9. Frozen'
  BY DEF Control, ClientKinds, Working, Frozen, answer, At, Way, HandlerStep
<1> QED BY <1>1, <1>2, <1>3, <1>4, <1>5, <1>6, <1>7, <1>8, <1>9 DEF Control

LEMMA Control_signal_checkpoint ==
  ASSUME Control, signal_checkpoint
  PROVE  Control'
<1>1. ClientKinds' /\ Own' /\ Working' /\ Waits' /\ AfterRestart' /\ Frozen'
  BY DEF Control, ClientKinds, signal_checkpoint, clientVars, Own, Working, Waits, Before,
       AfterRestart, Frozen
<1>2. ServerKinds'
  <2>1. PICK spoilt \in SUBSET Stale(records) :
           ckp' = [complete |-> TRUE, records |-> records, files |-> Files(spoilt),
                   quiet |-> Quiet, calls |-> calls[App]]
    BY DEF signal_checkpoint
  <2>2. Files(spoilt) \in [Blocks -> Contents]
    BY DEF Control, ServerKinds, Files, Contents
  <2>3. next \in 1 .. Len(records) + 1
    BY DEF Control, ServerKinds, BeforeRestart, AfterRestart, signal_checkpoint
  <2> QED BY <2>1, <2>2, <2>3, Separate DEF Control, ClientKinds, ServerKinds, signal_checkpoint
<1>3. OpenRecords'
  BY DEF Control, OpenRecords, AfterRestart, signal_checkpoint
<1>4. BeforeRestart'
  BY Separate DEF Control, ClientKinds, BeforeRestart, Before, signal_checkpoint, clientVars
<1> QED BY <1>1, <1>2, <1>3, <1>4 DEF Control

LEMMA Control_checkpoint_crashes ==
  ASSUME Control, checkpoint_crashes
  PROVE  Control'
<1>1. ClientKinds'
  BY DEF Control, ClientKinds, checkpoint_crashes, Disconnect, Disconnected
<1>2. ServerKinds'
  <2>1. PICK n \in 0 .. Len(records) - 1 :
           ckp' = [NoCheckpoint EXCEPT !.records = SubSeq(records, 1, n)]
    BY DEF checkpoint_crashes
  <2>2. SubSeq(records, 1, n) \in Seq(RecordSet) /\ Len(SubSeq(records, 1, n)) = n
    BY DEF Control, ServerKinds
  <2>3. next = 1
    BY DEF Control, BeforeRestart, AfterRestart, checkpoint_crashes
  <2>4. ckp'.records \in Seq(RecordSet) /\ ckp'.files \in [Blocks -> Contents] /\ ckp'.calls \in 0 .. MaxCalls
    BY <2>1, <2>2, Separate DEF NoCheckpoint, Nowhere, Contents
  <2>5. handler' \in [client : Clients, step : Steps] /\ memory' \in [Blocks -> Contents]
        /\ records' \in Seq(RecordSet) /\ server' = "gone"
    BY Separate DEF checkpoint_crashes, Idle, Steps, Nowhere, Contents
  <2> QED BY <2>1, <2>2, <2>3, <2>4, <2>5 DEF Control, ServerKinds, checkpoint_crashes, NoCheckpoint
<1>3. OpenRecords'
  BY DEF Control, OpenRecords, AfterRestart, LastIsOpen, Open, checkpoint_crashes, Disconnect,
       Disconnected, Idle
<1>4. Own'
  BY DEF Control, Own, checkpoint_crashes
<1>5. Working'
  BY DEF Working, checkpoint_crashes, Disconnect, Disconnected, Idle
<1>6. Waits'
  BY DEF Control, Waits, Before, checkpoint_crashes, Disconnect, Disconnected
<1>7. BeforeRestart'
  BY Separate DEF Control, ClientKinds, BeforeRestart, Before, checkpoint_crashes, NoCheckpoint
<1>8. AfterRestart'
  BY DEF Control, AfterRestart, checkpoint_crashes, Disconnect, Disconnected
<1>9. Frozen'
  BY Separate DEF Control, ClientKinds, Frozen, checkpoint_crashes, Disconnect, Disconnected
<1> QED BY <1>1, <1>2, <1>3, <1>4, <1>5, <1>6, <1>7, <1>8, <1>9 DEF Control

LEMMA Control_kill_usr1 ==
  ASSUME Control, kill_usr1
  PROVE  Control'
<1>1. ClientKinds' /\ ServerKinds' /\ OpenRecords' /\ Own' /\ Working' /\ Waits' /\ BeforeRestart' /\ AfterRestart' /\ Frozen'
  BY DEF Control, ClientKinds, kill_usr1, clientVars, ServerKinds, OpenRecords, Before, Own,
       Working, Waits, BeforeRestart, AfterRestart, Frozen
<1> QED BY <1>1 DEF Control

LEMMA Control_criu_dump ==
  ASSUME Control, criu_dump
  PROVE  Control'
<1>1. ClientKinds'
  BY Separate DEF Control, ClientKinds, ClientStates, criu_dump
<1>2. ServerKinds' /\ OpenRecords' /\ Working' /\ BeforeRestart' /\ AfterRestart'
  BY DEF Control, ServerKinds, criu_dump, serverVars, OpenRecords, Before, Working,
       BeforeRestart, AfterRestart
<1>3. Own'
  BY Separate DEF Control, Own, criu_dump
<1>4. Waits'
  BY Separate DEF Control, Waits, Before, criu_dump
<1>5. Frozen'
  BY Separate DEF Control, ClientKinds, Frozen, criu_dump
<1> QED BY <1>1, <1>2, <1>3, <1>4, <1>5 DEF Control

LEMMA Control_restart ==
  ASSUME Control, restart
  PROVE  Control'
<1>1. ClientKinds'
  BY DEF Control, ClientKinds, ClientStates, restart, Disconnect, Disconnected
<1>2. ServerKinds'
  BY Separate DEF Control, ServerKinds, Contents, Steps, restart, Idle, Nowhere
<1>3. OpenRecords'
  BY DEF Control, OpenRecords, Before, Open, restart, Idle
<1>4. Own' /\ BeforeRestart' /\ Frozen'
  BY DEF Control, Own, restart, BeforeRestart, Before, Frozen
<1>5. Working'
  BY DEF Working, restart, Disconnect, Disconnected, Idle
<1>6. Waits'
  BY DEF Control, Waits, Before, restart, Disconnect, Disconnected
<1>7. AfterRestart'
  BY DEF AfterRestart, restart, Disconnect, Disconnected
<1> QED BY <1>1, <1>2, <1>3, <1>4, <1>5, <1>6, <1>7 DEF Control

LEMMA Control_criu_restore ==
  ASSUME Control, criu_restore
  PROVE  Control'
<1>1. ClientKinds' /\ ServerKinds' /\ OpenRecords' /\ Own' /\ BeforeRestart' /\ Frozen'
  BY DEF Control, ClientKinds, criu_restore, ServerKinds, serverVars, OpenRecords, Before, Own,
       BeforeRestart, Frozen
<1>2. Working'
  BY DEF Control, ClientKinds, Working, AfterRestart, criu_restore, serverVars
<1>3. Waits'
  BY DEF Control, ClientKinds, Waits, Before, criu_restore
<1>4. AfterRestart'
  BY Separate DEF Control, ClientKinds, Waits, AfterRestart, Before, criu_restore, serverVars
<1> QED BY <1>1, <1>2, <1>3, <1>4 DEF Control

LEMMA Control_svc_register ==
  ASSUME Control, svc_register
  PROVE  Control'
<1>1. ClientKinds' /\ ServerKinds' /\ OpenRecords' /\ Own' /\ Working' /\ Waits' /\ BeforeRestart' /\ AfterRestart' /\ Frozen'
  BY DEF Control, ClientKinds, svc_register, Restoring, ServerKinds, OpenRecords, Before, Own,
       Working, Waits, BeforeRestart, AfterRestart, Frozen
<1> QED BY <1>1 DEF Control

LEMMA Control_cr_restore_memory ==
  ASSUME Control, cr_restore_memory
  PROVE  Control'
<1>1. ClientKinds' /\ Own' /\ Working' /\ Waits' /\ Frozen'
  BY DEF Control, ClientKinds, cr_restore_memory, Replay, Restoring, Own, Working, Waits,
       Before, Frozen
<1>2. ServerKinds'
  <2>1. records' \in Seq(RecordSet)
    BY DEF Control, ServerKinds, cr_restore_memory, InReplay, Replayed, Replay
  <2>2. memory' \in [Blocks -> Contents]
    BY Separate DEF Control, ServerKinds, cr_restore_memory, Replay, Contents
  <2>3. next' \in 1 .. Len(ckp.records) + 1
    BY DEF Control, ServerKinds, cr_restore_memory, InReplay, Replay
  <2> QED BY <2>1, <2>2, <2>3 DEF Control, ServerKinds, cr_restore_memory, Replay, Restoring
<1>3. OpenRecords'
  BY DEF Control, ClientKinds, OpenRecords, BeforeRestart, Before, cr_restore_memory, InReplay,
       Replayed, Replay, Restoring
<1>4. BeforeRestart'
  BY DEF Control, BeforeRestart, Before, cr_restore_memory, InReplay, Replay, Restoring
<1>5. AfterRestart'
  BY DEF Control, AfterRestart, Before, cr_restore_memory, InReplay, Replay, Restoring
<1> QED BY <1>1, <1>2, <1>3, <1>4, <1>5 DEF Control

LEMMA Control_cr_restore_passes ==
  ASSUME Control, cr_restore_passes
  PROVE  Control'
<1>1. ClientKinds' /\ Own' /\ Working' /\ Waits' /\ Frozen'
  BY DEF Control, ClientKinds, cr_restore_passes, Replay, Restoring, Own, Working, Waits,
       Before, Frozen
<1>2. ServerKinds'
  <2>1. records' \in Seq(RecordSet)
    BY DEF Control, ServerKinds, cr_restore_passes, InReplay, Replayed, Replay
  <2>2. next' \in 1 .. Len(ckp.records) + 1
    BY DEF Control, ServerKinds, cr_restore_passes, InReplay, Replay
  <2> QED BY <2>1, <2>2 DEF Control, ServerKinds, cr_restore_passes, Replay, Restoring
<1>3. OpenRecords'
  BY Separate DEF Control, ClientKinds, OpenRecords, Working, BeforeRestart, Before,
       cr_restore_passes, InReplay, Replayed, Replay, Restoring
<1>4. BeforeRestart'
  BY DEF Control, BeforeRestart, Before, cr_restore_passes, InReplay, Replay, Restoring
<1>5. AfterRestart'
  BY DEF Control, AfterRestart, Before, cr_restore_passes, InReplay, Replay, Restoring
<1> QED BY <1>1, <1>2, <1>3, <1>4, <1>5 DEF Control

LEMMA Control_cr_restore_gives_up ==
  ASSUME Control, cr_restore_gives_up
  PROVE  Control'
<1>1. ClientKinds' /\ Own' /\ Working' /\ Waits' /\ AfterRestart' /\ Frozen'
  BY DEF Control, ClientKinds, cr_restore_gives_up, Restoring, Own, Working, Waits, Before,
       AfterRestart, Frozen
<1>2. ServerKinds'
  <2>1. records' \in Seq(RecordSet)
    BY DEF Control, ServerKinds, cr_restore_gives_up, InReplay, Replayed
  <2> QED BY <2>1 DEF Control, ServerKinds, cr_restore_gives_up, Restoring
<1>3. OpenRecords'
  BY DEF Control, OpenRecords, BeforeRestart, Before, cr_restore_gives_up, InReplay, Restoring
<1>4. BeforeRestart'
  BY DEF Control, BeforeRestart, Before, cr_restore_gives_up, InReplay, Restoring
<1> QED BY <1>1, <1>2, <1>3, <1>4 DEF Control

LEMMA Control_cr_restore_crashes ==
  ASSUME Control, cr_restore_crashes
  PROVE  Control'
<1>1. ClientKinds'
  BY DEF Control, ClientKinds, cr_restore_crashes, Disconnect, Disconnected, Restoring
<1>2. ServerKinds'
  BY DEF Control, ServerKinds, Contents, cr_restore_crashes, Restoring, Nowhere
<1>3. OpenRecords'
  BY DEF Control, OpenRecords, Working, LastIsOpen, Open, cr_restore_crashes, InReplay,
       Restoring
<1>4. Own'
  BY DEF Control, Own, cr_restore_crashes, Restoring
<1>5. Working'
  BY DEF Control, Working, cr_restore_crashes, InReplay, Disconnect, Disconnected, Restoring
<1>6. Waits'
  BY DEF Control, Waits, Before, cr_restore_crashes, Disconnect, Disconnected, Restoring
<1>7. BeforeRestart'
  BY DEF Control, BeforeRestart, Before, cr_restore_crashes, InReplay, Restoring
<1>8. AfterRestart'
  BY DEF Control, AfterRestart, Before, cr_restore_crashes, Disconnect, Disconnected, Restoring
<1>9. Frozen'
  BY DEF Control, BeforeRestart, Frozen, Before, cr_restore_crashes, InReplay, Restoring
<1> QED BY <1>1, <1>2, <1>3, <1>4, <1>5, <1>6, <1>7, <1>8, <1>9 DEF Control

LEMMA Control_cr_restore_complete ==
  ASSUME Control, cr_restore_complete
  PROVE  Control'
<1>1. ClientKinds' /\ ServerKinds' /\ OpenRecords' /\ Own' /\ Working' /\ Waits' /\ BeforeRestart' /\ AfterRestart' /\ Frozen'
  BY DEF Control, ClientKinds, cr_restore_complete, Restoring, ServerKinds, OpenRecords,
       Before, Own, Working, Waits, BeforeRestart, AfterRestart, Frozen
<1> QED BY <1>1 DEF Control

(* What a step that leaves its variables alone preserves.                   *)
LEMMA FilesStay ==
  ASSUME Data, UNCHANGED ckp
  PROVE  Filed'
BY DEF Data, Filed, Stale

LEMMA FitsStays ==
  ASSUME Data, UNCHANGED <<script, ckp, image>>
  PROVE  Fits'
BY DEF Data, Fits, Fit, CarriesImage, DoneMalloc, StoredInImage, Stale

LEMMA ReplayStays ==
  ASSUME Data, UNCHANGED <<server, next, memory, ckp>>
  PROVE  PutBack'
BY DEF Data, PutBack

LEMMA TakenStays ==
  ASSUME Data, UNCHANGED <<script, calls, ckp>>,
         \A b \in Blocks : Stored(b)' = Stored(b),
         way[App] \in {"none", "answer"} => way'[App] \in {"none", "answer"}
  PROVE  Taken'
BY DEF Data, Taken, Carries, DoneMalloc, Stale

LEMMA KeptStays ==
  ASSUME Data, UNCHANGED <<script, server, memory, ckp, image>>,
         \A b \in Blocks : Stored(b)' = Stored(b)
  PROVE  Kept'
BY DEF Data, Kept, Fit, Stale, Before

LEMMA RecordedStays ==
  ASSUME Data, UNCHANGED <<script, server, held>>, UNCHANGED call[App], UNCHANGED way[App],
         way[App] = "handler" => handler'.step # "recorded",
         \A b \in Blocks : DoneMalloc(records, b) => DoneMalloc(records', b)
  PROVE  Recorded'
BY DEF Data, Recorded, Before

(* When all records of results that are set have been replayed, the blocks  *)
(* have what was in them when the checkpoint was written.                   *)
LEMMA AllReplayed ==
  ASSUME Control, Data, server = "replaying", ~Before, Fit,
         \A i \in DOMAIN ckp.records : ckp.records[i].op = "malloc" /\ ckp.records[i].done => i < next
  PROVE  \A b \in Blocks : StoredInImage(b) # Nothing => memory[b] = StoredInImage(b)
<1> SUFFICES ASSUME NEW b \in Blocks, StoredInImage(b) # Nothing PROVE memory[b] = StoredInImage(b)
  OBVIOUS
<1>1. DoneMalloc(ckp.records, b) /\ ckp.files[b] = StoredInImage(b)
  BY DEF Data, Fits, CarriesImage, Before
<1>2. PICK i \in DOMAIN ckp.records :
        ckp.records[i].op = "malloc" /\ ckp.records[i].block = b /\ ckp.records[i].done
  BY <1>1 DEF DoneMalloc
<1> QED BY <1>1, <1>2 DEF Data, PutBack

-------------------------------------------------------------------------------
(* Each step keeps the second part.                                        *)

LEMMA Data_calling ==
  ASSUME Control, Data, NEW c \in Clients, calling(c)
  PROVE  Data'
<1>a. PICK what \in CallSet, place \in {"request", "lost"} :
        /\ call' = [call EXCEPT ![c] = what] /\ way' = [way EXCEPT ![c] = place]
        /\ what.op = "store" => held[c][what.block] # Nothing
        /\ what.op \in Ops
  <2> DEFINE malloc == [op |-> "malloc", block |-> <<c, calls[c] + 1>>, value |-> 0]
             store(b) == [op |-> "store", block |-> b, value |-> calls[c] + 1]
             place == IF connected[c] THEN "request" ELSE "lost"
  <2>1. malloc \in CallSet /\ malloc.op = "malloc"
    BY Separate DEF Control, ClientKinds, calling, CallSet
  <2>2. \A b \in Blocks : store(b) \in CallSet /\ store(b).op = "store" /\ store(b).block = b
    BY Separate DEF Control, ClientKinds, calling, CallSet
  <2>3. place \in {"request", "lost"}
    OBVIOUS
  <2>4. \/ call' = [call EXCEPT ![c] = malloc] /\ way' = [way EXCEPT ![c] = place]
        \/ \E b \in Blocks :
             /\ held[c][b] # Nothing
             /\ call' = [call EXCEPT ![c] = store(b)] /\ way' = [way EXCEPT ![c] = place]
    BY DEF calling, Request
  <2> HIDE DEF malloc, store, place
  <2> QED BY <2>1, <2>2, <2>3, <2>4 DEF Ops
<1>b. /\ UNCHANGED <<held, handler, server, records, memory, next, ckp, image, script>>
      /\ client[c] = "running" /\ way[c] = "none" /\ calls' = [calls EXCEPT ![c] = @ + 1]
  BY DEF Control, Waits, calling, serverVars
<1>c. /\ call' \in [Clients -> CallSet]
      /\ c # App => call'[App] = call[App] /\ way'[App] = way[App] /\ calls'[App] = calls[App]
      /\ c = App => way'[App] \in {"request", "lost"} /\ calls'[App] = calls[App] + 1
  BY <1>a, <1>b, Separate DEF Control, ClientKinds
<1>d. \A b \in Blocks : Stored(b)' = Stored(b)
  BY <1>b, <1>c, Separate DEF Control, ClientKinds, Stored, Executed
<1>1. StoreHeld'
  BY <1>a, <1>b, Separate DEF Control, ClientKinds, Data, StoreHeld, Before
<1>2. Recorded'
  BY <1>b, <1>c DEF Control, Waits, Data, Recorded, DoneMalloc, Before
<1>3. Finished'
  BY <1>b DEF Data, Finished, Before
<1>4. Filed'
  BY <1>b, FilesStay
<1>5. Taken'
  <2>1. CASE c = App
    BY <1>b, <1>c, <2>1, Separate DEF Control, ClientKinds, ServerKinds, BeforeRestart, Before,
         Taken
  <2>2. CASE c # App
    <3>1. calls'[App] = calls[App] /\ way'[App] = way[App] /\ UNCHANGED <<script, ckp>>
      BY <1>b, <1>c, <2>2
    <3> QED BY <3>1, <1>d DEF Data, Taken, Carries, DoneMalloc, Stale
  <2> QED BY <2>1, <2>2
<1>6. Fits'
  BY <1>b, FitsStays
<1>7. PutBack'
  BY <1>b, ReplayStays
<1>8. ServerFirst'
  BY DEF Data, ServerFirst, Fit, StoredInImage, calling, serverVars
<1>9. ClientFirst'
  BY Separate DEF Control, Data, ClientKinds, AfterRestart, ClientFirst, Fit, StoredInImage, Stored, Executed,
       calling, Request, serverVars
<1>10. IsThere'
  BY <1>a, <1>b DEF Control, ClientKinds, ServerKinds, Working, Steps, Data, IsThere
<1>11. Kept'
  BY <1>b, <1>d, KeptStays
<1> QED BY <1>1, <1>2, <1>3, <1>4, <1>5, <1>6, <1>7, <1>8, <1>9, <1>10, <1>11 DEF Data

LEMMA Data_returns ==
  ASSUME Control, Data, NEW c \in Clients, returns(c)
  PROVE  Data'
<1>a. \A b \in Blocks : Stored(b)' = Stored(b)
  BY Separate DEF Control, ClientKinds, ServerKinds, Own, Working, Waits, CallSet, Ops,
       returns, Stored, Executed, serverVars
<1>b. UNCHANGED <<script, calls, server, next, memory, ckp, image>>
  BY DEF returns, serverVars
<1>c. way[App] \in {"none", "answer"} => way'[App] \in {"none", "answer"}
  BY Separate DEF Control, ClientKinds, returns
<1>1. StoreHeld'
  BY DEF Control, Data, ClientKinds, Before, StoreHeld, returns
<1>2. Recorded' /\ Finished' /\ Filed' /\ Fits' /\ ServerFirst' /\ IsThere'
  BY DEF Data, Before, Recorded, returns, serverVars, Finished, Filed, Fits, Fit, CarriesImage,
       StoredInImage, ServerFirst, IsThere
<1>3. Taken'
  BY <1>a, <1>b, <1>c, TakenStays
<1>4. PutBack'
  BY <1>b, ReplayStays
<1>5. ClientFirst'
  BY DEF Control, Data, ClientKinds, ClientFirst, Fit, StoredInImage, Stored, Executed, returns, serverVars
<1>6. Kept'
  BY <1>a, <1>b, KeptStays
<1> QED BY <1>1, <1>2, <1>3, <1>4, <1>5, <1>6 DEF Data

LEMMA Data_call_fails ==
  ASSUME Control, Data, NEW c \in Clients, call_fails(c)
  PROVE  Data'
<1>a. \A b \in Blocks : Stored(b)' = Stored(b)
  BY Separate DEF Control, ClientKinds, call_fails, Stored, Executed, serverVars
<1>b. UNCHANGED <<script, calls, server, next, memory, ckp, image>>
  BY DEF call_fails, serverVars
<1>c. way[App] \in {"none", "answer"} => way'[App] \in {"none", "answer"}
  BY Separate DEF Control, ClientKinds, call_fails
<1>1. StoreHeld' /\ Recorded' /\ Finished' /\ Filed' /\ Fits' /\ ServerFirst' /\ ClientFirst' /\ IsThere'
  BY DEF Data, Before, StoreHeld, call_fails, Recorded, serverVars, Finished, Filed, Fits, Fit,
       CarriesImage, StoredInImage, ServerFirst, ClientFirst, Stored, Executed, IsThere
<1>2. Taken'
  BY <1>a, <1>b, <1>c, TakenStays
<1>3. PutBack'
  BY <1>b, ReplayStays
<1>4. Kept'
  BY <1>a, <1>b, KeptStays
<1> QED BY <1>1, <1>2, <1>3, <1>4 DEF Data

LEMMA Data_repair_connection ==
  ASSUME Control, Data, repair_connection
  PROVE  Data'
<1>1. StoreHeld'
  BY DEF Control, BeforeRestart, Before, StoreHeld, repair_connection
<1>2. Recorded'
  BY DEF Control, BeforeRestart, Before, Recorded, repair_connection
<1>3. Finished' /\ Filed' /\ Fits' /\ PutBack' /\ ServerFirst'
  BY DEF Data, Before, Finished, repair_connection, serverVars, Filed, Fits, Fit, CarriesImage,
       StoredInImage, PutBack, ServerFirst
<1>4. Taken'
  BY DEF Control, BeforeRestart, Before, Taken, repair_connection
<1>5. ClientFirst'
  BY DEF Control, Data, ClientKinds, Waits, ClientFirst, Fit, StoredInImage, Stored, Executed,
       repair_connection, serverVars
<1>6. IsThere'
  <2>1. UNCHANGED <<handler, memory>> /\ \A c \in Clients : c # App => call'[c] = call[c]
    BY Separate DEF Control, ClientKinds, repair_connection, serverVars
  <2>2. handler.step # "none" => handler.client \in Clients /\ handler.client # App
    BY Separate DEF Control, ServerKinds, Working, Waits, repair_connection
  <2> QED BY <2>1, <2>2 DEF Data, IsThere
<1>7. Kept'
  BY DEF Control, Data, ClientKinds, Waits, Before, Kept, Fit, Stored, Executed,
       repair_connection, serverVars
<1> QED BY <1>1, <1>2, <1>3, <1>4, <1>5, <1>6, <1>7 DEF Data

LEMMA Data_repaired ==
  ASSUME Control, Data, repaired
  PROVE  Data'
<1>a. \A b \in Blocks : Stored(b)' = Stored(b)
  <2>1. call[App].block = Wild
    BY Separate DEF Control, Own, Waits, Ops, repaired
  <2>2. way'[App] = "none" /\ UNCHANGED <<held, call>>
    BY Separate DEF Control, ClientKinds, repaired
  <2> QED BY <2>1, <2>2, Separate DEF Stored, Executed
<1>1. StoreHeld' /\ Recorded' /\ Finished' /\ Filed' /\ Fits' /\ PutBack' /\ ServerFirst' /\ IsThere'
  BY DEF Data, Before, StoreHeld, repaired, Recorded, serverVars, Finished, Filed, Fits, Fit,
       CarriesImage, StoredInImage, PutBack, ServerFirst, IsThere
<1>2. Taken'
  BY DEF Control, BeforeRestart, Taken, repaired
<1>3. ClientFirst'
  BY DEF Control, AfterRestart, ClientFirst, repaired, serverVars
<1>4. Kept'
  <2>1. UNCHANGED <<script, server, memory, ckp, image>>
    BY DEF repaired, serverVars
  <2> QED BY <1>a, <2>1, KeptStays
<1> QED BY <1>1, <1>2, <1>3, <1>4 DEF Data

LEMMA Data_cuda_device_synchronize ==
  ASSUME Control, Data, NEW c \in Clients, cuda_device_synchronize(c)
  PROVE  Data'
<1>a. \A b \in Blocks : Stored(b)' = Stored(b)
  BY Separate DEF Control, ClientKinds, Own, Working, Ops, cuda_device_synchronize, Way, At,
       HandlerStep, Stored, Executed
<1>1. StoreHeld'
  BY DEF Data, Before, StoreHeld, cuda_device_synchronize, Way, HandlerStep
<1>2. Recorded'
  BY DEF Control, Waits, Before, Recorded, cuda_device_synchronize, HandlerStep
<1>3. Finished' /\ Filed' /\ Fits' /\ PutBack' /\ ServerFirst' /\ ClientFirst' /\ IsThere'
  BY DEF Data, Before, Finished, cuda_device_synchronize, HandlerStep, Filed, Fits, Fit,
       CarriesImage, StoredInImage, PutBack, ServerFirst, ClientFirst, IsThere
<1>4. Taken'
  BY DEF Data, Taken, Carries, Stored, Executed, cuda_device_synchronize, Way, HandlerStep
<1>5. Kept'
  BY <1>a, KeptStays DEF cuda_device_synchronize, HandlerStep
<1> QED BY <1>1, <1>2, <1>3, <1>4, <1>5 DEF Data

LEMMA Data_list_append ==
  ASSUME Control, Data, NEW c \in Clients, list_append(c)
  PROVE  Data'
<1>a. PICK r : records' = Append(records, r) /\ r.done = FALSE
  BY DEF list_append
<1>b. \A b : DoneMalloc(records, b) => DoneMalloc(records', b)
  <2>1. \A i \in DOMAIN records : i \in DOMAIN records' /\ records'[i] = records[i]
    BY <1>a DEF Control, ServerKinds
  <2> QED BY <2>1 DEF DoneMalloc
<1>c. \A b \in Blocks : Stored(b)' = Stored(b)
  BY Separate DEF Control, ClientKinds, Working, list_append, Way, At, HandlerStep, Stored,
       Executed
<1>1. StoreHeld'
  BY DEF Data, Before, StoreHeld, list_append, Way, HandlerStep
<1>2. Recorded'
  <2>1. /\ UNCHANGED <<held, call, script, server>> /\ handler'.step = "appended"
        /\ way'[App] \in {way[App], "handler"}
    BY Separate DEF Control, ClientKinds, list_append, Way, HandlerStep
  <2> QED BY <1>b, <2>1 DEF Data, Recorded, Before
<1>3. Finished' /\ Filed' /\ Fits' /\ PutBack' /\ ServerFirst' /\ ClientFirst' /\ IsThere'
  BY DEF Data, Before, Finished, list_append, HandlerStep, Filed, Fits, Fit, CarriesImage,
       StoredInImage, PutBack, ServerFirst, ClientFirst, IsThere
<1>4. Taken'
  BY <1>c, TakenStays, Separate DEF Control, ClientKinds, list_append, Way, HandlerStep
<1>5. Kept'
  BY <1>c, KeptStays DEF list_append, HandlerStep
<1> QED BY <1>1, <1>2, <1>3, <1>4, <1>5 DEF Data

LEMMA Data_record_api ==
  ASSUME Control, Data, record_api
  PROVE  Data'
<1>1. StoreHeld' /\ Filed' /\ Taken' /\ Fits' /\ PutBack' /\ ServerFirst' /\ IsThere'
  BY DEF Data, Before, StoreHeld, record_api, HandlerStep, Filed, Taken, Carries, Stored,
       Executed, Fits, Fit, CarriesImage, StoredInImage, PutBack, ServerFirst, IsThere
<1>2. Recorded'
  BY DEF Control, Data, Before, OpenRecords, Open, Recorded, DoneMalloc, record_api, At,
       LastRecord, HandlerStep
<1>3. Finished'
  BY DEF Control, Data, Before, OpenRecords, Open, Finished, record_api, At, LastRecord,
       HandlerStep
<1>4. ClientFirst'
  BY DEF Data, ClientFirst, Fit, StoredInImage, Stored, Executed, record_api, At, HandlerStep
<1>5. Kept'
  BY DEF Data, Before, Kept, Fit, Stored, Executed, record_api, At, HandlerStep
<1> QED BY <1>1, <1>2, <1>3, <1>4, <1>5 DEF Data

LEMMA Data_execute ==
  ASSUME Control, Data, execute
  PROVE  Data'
<1>1. StoreHeld' /\ Recorded' /\ Filed' /\ Taken' /\ Fits'
  BY DEF Data, Before, StoreHeld, execute, HandlerStep, Recorded, Filed, Taken, Carries, Stored,
       Executed, Fits, Fit, CarriesImage, StoredInImage
<1>2. Finished'
  BY Separate DEF Control, Data, ClientKinds, ServerKinds, Before, CallSet, Finished, execute,
       HandlerStep
<1>3. PutBack'
  BY DEF Control, Working, PutBack, execute, At, HandlerStep
<1>4. ServerFirst'
  BY DEF Control, ServerKinds, Working, AfterRestart, ServerFirst, execute, At, HandlerStep
<1>5. ClientFirst'
  BY DEF Control, Working, ClientFirst, execute, At, HandlerStep
<1>6. IsThere'
  BY Separate DEF Control, ClientKinds, ServerKinds, Own, Working, CallSet, IsThere, execute, At,
       HandlerStep
<1>7. Kept'
  BY Separate DEF Control, Data, ClientKinds, ServerKinds, Own, Working, Before, Kept, Fit,
       Stored, Executed, execute, At, HandlerStep
<1> QED BY <1>1, <1>2, <1>3, <1>4, <1>5, <1>6, <1>7 DEF Data

LEMMA Data_record_result ==
  ASSUME Control, Data, record_result
  PROVE  Data'
<1>1. StoreHeld' /\ Filed' /\ Taken' /\ Fits' /\ PutBack' /\ ServerFirst'
  BY DEF Data, Before, StoreHeld, record_result, HandlerStep, Filed, Taken, Carries, Stored,
       Executed, Fits, Fit, CarriesImage, StoredInImage, PutBack, ServerFirst
<1>2. Recorded'
  BY Separate DEF Control, Data, Working, Before, Ops, OpenRecords, Open, Recorded, StoreHeld,
       DoneMalloc, record_result, At, LastRecord, HandlerStep
<1>3. Finished'
  BY Separate DEF Control, Data, ServerKinds, Own, Working, Before, IsThere, Finished,
       record_result, At, LastRecord, HandlerStep
<1>4. ClientFirst'
  BY DEF Data, ClientFirst, Fit, StoredInImage, Stored, Executed, record_result, At, HandlerStep
<1>5. IsThere'
  BY DEF Data, IsThere, record_result, At, HandlerStep
<1>6. Kept'
  BY DEF Data, Before, Kept, Fit, Stored, Executed, record_result, At, HandlerStep
<1> QED BY <1>1, <1>2, <1>3, <1>4, <1>5, <1>6 DEF Data

LEMMA Data_answer ==
  ASSUME Control, Data, answer
  PROVE  Data'
<1>a. \A b \in Blocks : Stored(b)' = Stored(b)
  BY Separate DEF Control, ClientKinds, ServerKinds, Working, answer, Way, At, HandlerStep,
       Idle, Stored, Executed
<1>1. StoreHeld'
  BY DEF Control, Data, Working, Before, StoreHeld, answer, At, Way, HandlerStep
<1>2. Recorded'
  BY DEF Control, Data, Working, Before, Recorded, answer, At, Way, HandlerStep
<1>3. Finished' /\ Filed' /\ Fits' /\ PutBack' /\ ServerFirst'
  BY DEF Data, Before, Finished, answer, HandlerStep, Filed, Fits, Fit, CarriesImage, StoredInImage,
       PutBack, ServerFirst
<1>4. Taken'
  BY <1>a, TakenStays, Separate DEF Control, ClientKinds, answer, Way, HandlerStep
<1>5. ClientFirst'
  BY DEF Control, Working, ClientFirst, answer, At, HandlerStep
<1>6. IsThere'
  BY DEF IsThere, answer, Idle
<1>7. Kept'
  BY <1>a, KeptStays DEF answer, HandlerStep
<1> QED BY <1>1, <1>2, <1>3, <1>4, <1>5, <1>6, <1>7 DEF Data

LEMMA Data_signal_checkpoint ==
  ASSUME Control, Data, signal_checkpoint
  PROVE  Data'
<1>a. PICK spoilt \in SUBSET Stale(records) :
        ckp' = [complete |-> TRUE, records |-> records, files |-> Files(spoilt),
                quiet |-> Quiet, calls |-> calls[App]]
  BY DEF signal_checkpoint
<1>b. /\ ckp'.records = records /\ ckp'.files = Files(spoilt) /\ ckp'.complete
      /\ ckp'.quiet = Quiet /\ ckp'.calls = calls[App]
  BY <1>a
<1>c. /\ UNCHANGED <<client, calls, held, call, way, handler, records, memory, script, image>>
      /\ Before /\ server = "serving" /\ script # "started"
  BY DEF Control, BeforeRestart, AfterRestart, signal_checkpoint, clientVars
<1>d. ASSUME Stale(records) = {}
      PROVE  \A i \in DOMAIN records : records[i].op = "malloc" /\ records[i].block \in Blocks =>
               Files(spoilt)[records[i].block] = memory[records[i].block]
  BY <1>d DEF Files, Mallocs
<1>e. ASSUME Stale(records) = {}, Quiet
      PROVE  way[App] \in {"none", "answer"} /\ Carries'
  <2>1. way[App] \in {"none", "answer"}
    BY <1>c, <1>e, Separate DEF Control, ClientKinds, BeforeRestart, Quiet
  <2>2. ASSUME NEW b \in Blocks, Stored(b) # Nothing
        PROVE  DoneMalloc(records, b) /\ Files(spoilt)[b] = Stored(b)
    <3>1. DoneMalloc(records, b)
      BY <1>c, <2>1, <2>2 DEF Data, Recorded, Stored, Executed
    <3>2. PICK i \in DOMAIN records : records[i].op = "malloc" /\ records[i].block = b
      BY <3>1 DEF DoneMalloc
    <3>3. Files(spoilt)[b] = memory[b]
      BY <1>d, <1>e, <3>2
    <3>4. memory[b] = Stored(b)
      BY <1>c, <2>2 DEF Data, Kept
    <3> QED BY <3>1, <3>3, <3>4
  <2>3. \A b \in Blocks : Stored(b)' = Stored(b)
    BY <1>c DEF Stored, Executed
  <2> QED BY <1>b, <2>1, <2>2, <2>3 DEF Carries, DoneMalloc
<1>1. StoreHeld' /\ Recorded' /\ Finished' /\ PutBack' /\ ClientFirst' /\ IsThere'
  BY DEF Data, Before, StoreHeld, signal_checkpoint, clientVars, Recorded, Finished, PutBack,
       ClientFirst, IsThere
<1>2. Filed'
  <2> SUFFICES ASSUME Stale(records) = {}, NEW i \in DOMAIN records,
                      records[i].op = "malloc", records[i].done
               PROVE  records[i].block \in Blocks /\ Files(spoilt)[records[i].block] # Nothing
    BY <1>b DEF Filed, Stale
  <2>1. records[i].block \in Blocks /\ memory[records[i].block] # Nothing
    BY <1>c DEF Data, Finished
  <2> QED BY <1>d, <2>1
<1>3. Taken'
  BY <1>b, <1>c, <1>e DEF Taken, Stale
<1>4. Fits'
  <2> SUFFICES ASSUME script = "dumped", Fit'
               PROVE  CarriesImage'
    BY <1>c DEF Fits, Before
  <2>1. /\ Stale(records) = {} /\ Quiet
        /\ image.client = "running" \/ image.way = "answer"
    BY <1>b, <1>c DEF Fit, Stale
  <2>2. way[App] = image.way /\ held[App] = image.held /\ call[App] = image.call
    BY <2>1 DEF Control, Waits, Frozen
  <2>3. \A b \in Blocks : StoredInImage(b)' = Stored(b)'
    BY <1>c, <1>e, <2>1, <2>2 DEF StoredInImage, Stored, Executed
  <2> QED BY <1>e, <2>1, <2>3 DEF Carries, CarriesImage
<1>5. ServerFirst'
  BY DEF Control, AfterRestart, Before, ServerFirst, signal_checkpoint
<1>6. Kept'
  BY DEF Control, Data, AfterRestart, Kept, Stored, Executed, signal_checkpoint, clientVars
<1> QED BY <1>1, <1>2, <1>3, <1>4, <1>5, <1>6 DEF Data

LEMMA Data_checkpoint_crashes ==
  ASSUME Control, Data, checkpoint_crashes
  PROVE  Data'
<1>1. StoreHeld'
  BY Separate DEF Data, Before, StoreHeld, checkpoint_crashes, Disconnect, Disconnected
<1>2. Recorded' /\ Finished' /\ PutBack' /\ ServerFirst' /\ ClientFirst' /\ Kept'
  BY DEF Recorded, checkpoint_crashes, Finished, PutBack, ServerFirst, ClientFirst, Kept
<1>3. Filed'
  BY DEF Filed, checkpoint_crashes, NoCheckpoint
<1>4. Taken'
  BY DEF Taken, checkpoint_crashes, NoCheckpoint
<1>5. Fits'
  BY DEF Fits, Fit, checkpoint_crashes, NoCheckpoint
<1>6. IsThere'
  BY DEF IsThere, checkpoint_crashes, Idle
<1> QED BY <1>1, <1>2, <1>3, <1>4, <1>5, <1>6 DEF Data

LEMMA Data_kill_usr1 ==
  ASSUME Control, Data, kill_usr1
  PROVE  Data'
<1>1. StoreHeld' /\ Recorded' /\ Finished' /\ Filed' /\ Fits' /\ PutBack' /\ ServerFirst' /\ ClientFirst' /\ IsThere' /\ Kept'
  BY DEF Data, Before, StoreHeld, kill_usr1, clientVars, Recorded, Finished, Filed, Fits,
       PutBack, ServerFirst, ClientFirst, IsThere, Kept, Stored, Executed
<1>2. Taken'
  BY DEF Control, BeforeRestart, Taken, kill_usr1
<1> QED BY <1>1, <1>2 DEF Data

LEMMA Data_criu_dump ==
  ASSUME Control, Data, criu_dump
  PROVE  Data'
<1>1. StoreHeld' /\ Recorded' /\ Finished' /\ Filed' /\ Taken' /\ PutBack' /\ ServerFirst' /\ ClientFirst' /\ IsThere' /\ Kept'
  BY DEF Data, Before, StoreHeld, criu_dump, Recorded, serverVars, Finished, Filed, Taken,
       PutBack, ServerFirst, ClientFirst, IsThere, Kept, Stored, Executed
<1>2. Fits'
  BY DEF Data, Fits, Fit, Carries, CarriesImage, StoredInImage, Stored, Executed, Taken, criu_dump
<1> QED BY <1>1, <1>2 DEF Data

LEMMA Data_restart ==
  ASSUME Control, Data, restart
  PROVE  Data'
<1>1. StoreHeld' /\ Recorded' /\ Finished' /\ Filed' /\ Taken' /\ Fits' /\ PutBack' /\ ServerFirst' /\ ClientFirst' /\ Kept'
  BY DEF Before, StoreHeld, restart, Recorded, Finished, Data, Filed, Taken, Fits, Fit,
       CarriesImage, StoredInImage, PutBack, ServerFirst, ClientFirst, Kept
<1>2. IsThere'
  BY DEF IsThere, restart, Idle
<1> QED BY <1>1, <1>2 DEF Data

LEMMA Data_criu_restore ==
  ASSUME Control, Data, criu_restore
  PROVE  Data'
<1>1. StoreHeld' /\ Recorded' /\ Finished' /\ Filed' /\ Taken' /\ Fits' /\ ServerFirst'
  BY DEF Before, StoreHeld, criu_restore, Recorded, Finished, Data, Filed, Taken, Fits, Fit,
       CarriesImage, StoredInImage, ServerFirst
<1>2. PutBack'
  BY ReplayStays DEF criu_restore, serverVars
<1>3. ClientFirst'
  BY Separate DEF Control, ClientKinds, ClientFirst, Fit, StoredInImage, Stored, Executed, criu_restore
<1>4. IsThere'
  BY DEF Control, ServerKinds, Working, AfterRestart, IsThere, criu_restore, serverVars
<1>5. Kept'
  BY Separate DEF Control, Data, ClientKinds, Before, Kept, ServerFirst, Fit, StoredInImage, Stored,
       Executed, criu_restore, serverVars
<1> QED BY <1>1, <1>2, <1>3, <1>4, <1>5 DEF Data

LEMMA Data_svc_register ==
  ASSUME Control, Data, svc_register
  PROVE  Data'
<1>1. StoreHeld' /\ Recorded' /\ Finished' /\ Filed' /\ Taken' /\ Fits' /\ ServerFirst' /\ ClientFirst' /\ IsThere' /\ Kept'
  BY DEF Data, Before, StoreHeld, svc_register, Restoring, Recorded, Finished, Filed, Taken,
       Carries, Stored, Executed, Fits, Fit, CarriesImage, StoredInImage, ServerFirst, ClientFirst, IsThere, Kept
<1>2. PutBack'
  BY DEF Control, ServerKinds, AfterRestart, PutBack, svc_register, Restoring
<1> QED BY <1>1, <1>2 DEF Data

LEMMA Data_cr_restore_memory ==
  ASSUME Control, Data, cr_restore_memory
  PROVE  Data'
<1>1. StoreHeld'
  BY DEF Data, Before, StoreHeld, cr_restore_memory, Replay, Restoring
<1>2. Recorded'
  BY DEF Recorded, cr_restore_memory, InReplay, Replay
<1>3. Finished'
  BY DEF Finished, cr_restore_memory, InReplay, Replay
<1>4. Filed'
  BY FilesStay DEF cr_restore_memory, Replay, Restoring
<1>5. Taken'
  BY DEF Data, Taken, Carries, Stored, Executed, cr_restore_memory, Replay, Restoring
<1>6. Fits'
  BY DEF Data, Fits, Fit, CarriesImage, StoredInImage, cr_restore_memory, Replay, Restoring
<1>7. PutBack'
  <2>1. /\ next' = next + 1 /\ ckp' = ckp /\ next \in DOMAIN ckp.records /\ next \in Nat
        /\ server = "replaying"
        /\ \A b \in Blocks : IF b # Replayed.block THEN memory'[b] = memory[b]
                             ELSE ckp.files[b] # Nothing => memory'[b] = ckp.files[b]
    BY DEF Control, ServerKinds, cr_restore_memory, InReplay, Replay, Restoring
  <2> SUFFICES ASSUME NEW i \in DOMAIN ckp.records, i < next + 1, ckp.records[i].op = "malloc",
                      ckp.records[i].block \in Blocks, ckp.files[ckp.records[i].block] # Nothing
               PROVE  memory'[ckp.records[i].block] = ckp.files[ckp.records[i].block]
    BY <2>1 DEF PutBack
  <2>2. CASE i = next
    BY <2>1, <2>2 DEF Replayed
  <2>3. CASE i # next
    <3>1. i < next
      BY <2>1, <2>3 DEF Control, ServerKinds
    <3> QED BY <2>1, <3>1 DEF Data, PutBack
  <2> QED BY <2>2, <2>3
<1>8. ServerFirst'
  BY DEF ServerFirst, cr_restore_memory, InReplay, Replay
<1>9. ClientFirst'
  BY DEF Data, ClientFirst, Fit, StoredInImage, Stored, Executed, cr_restore_memory, Replay, Restoring
<1>10. IsThere'
  BY DEF Control, Working, IsThere, cr_restore_memory, InReplay, Replay, Restoring
<1>11. Kept'
  BY DEF Kept, cr_restore_memory, InReplay, Replay
<1> QED BY <1>1, <1>2, <1>3, <1>4, <1>5, <1>6, <1>7, <1>8, <1>9, <1>10, <1>11 DEF Data

LEMMA Data_cr_restore_passes ==
  ASSUME Control, Data, cr_restore_passes
  PROVE  Data'
<1>1. StoreHeld'
  BY DEF Data, Before, StoreHeld, cr_restore_passes, Replay, Restoring
<1>2. Recorded'
  BY DEF Recorded, cr_restore_passes, InReplay, Replay
<1>3. Finished'
  BY DEF Finished, cr_restore_passes, InReplay, Replay
<1>4. Filed'
  BY DEF Data, Filed, cr_restore_passes, Replay, Restoring
<1>5. Taken'
  BY DEF Data, Taken, Carries, Stored, Executed, cr_restore_passes, Replay, Restoring
<1>6. Fits'
  BY DEF Data, Fits, Fit, CarriesImage, StoredInImage, cr_restore_passes, Replay, Restoring
<1>7. PutBack'
  <2>1. /\ next' = next + 1 /\ ckp' = ckp /\ memory' = memory /\ next \in DOMAIN ckp.records
        /\ next \in Nat /\ server = "replaying" /\ Replayed.op # "malloc"
    BY DEF Control, ServerKinds, cr_restore_passes, InReplay, Replay, Restoring
  <2> SUFFICES ASSUME NEW i \in DOMAIN ckp.records, i < next + 1, ckp.records[i].op = "malloc",
                      ckp.records[i].block \in Blocks, ckp.files[ckp.records[i].block] # Nothing
               PROVE  memory[ckp.records[i].block] = ckp.files[ckp.records[i].block]
    BY <2>1 DEF PutBack
  <2>2. i < next
    BY <2>1 DEF Control, ServerKinds, Replayed
  <2> QED BY <2>1, <2>2 DEF Data, PutBack
<1>8. ServerFirst'
  BY DEF ServerFirst, cr_restore_passes, InReplay, Replay
<1>9. ClientFirst'
  BY DEF Data, ClientFirst, Fit, StoredInImage, Stored, Executed, cr_restore_passes, Replay, Restoring
<1>10. IsThere'
  BY DEF Data, IsThere, cr_restore_passes, Replay, Restoring
<1>11. Kept'
  BY DEF Kept, cr_restore_passes, InReplay, Replay
<1> QED BY <1>1, <1>2, <1>3, <1>4, <1>5, <1>6, <1>7, <1>8, <1>9, <1>10, <1>11 DEF Data

LEMMA Data_cr_restore_gives_up ==
  ASSUME Control, Data, cr_restore_gives_up
  PROVE  Data'
<1>a. UNCHANGED <<memory, ckp, image, script, client, held, call, way, handler>> /\ server = "replaying"
      /\ ~Before
  BY DEF Control, BeforeRestart, cr_restore_gives_up, InReplay, Restoring
<1>b. ASSUME Fit, NEW i \in DOMAIN ckp.records, ckp.records[i].op = "malloc", ckp.records[i].done
      PROVE  i < next
  <2>1. ckp.records[i].block \in Blocks /\ ckp.files[ckp.records[i].block] # Nothing
    BY <1>b DEF Data, Filed, Fit
  <2>2. next \in DOMAIN ckp.records /\ ckp.records \in Seq(RecordSet) /\ i \in Nat /\ next \in Nat
    BY DEF Control, ServerKinds, cr_restore_gives_up, InReplay
  <2>3. ASSUME Replayed.done PROVE FALSE
    <3>1. Replayed.op # "unset"
      BY <2>2, <2>3 DEF Control, OpenRecords, LastIsOpen, Replayed
    <3>2. Replayed.op = "malloc" /\ ckp.files[Replayed.block] = Nothing
      BY <3>1 DEF cr_restore_gives_up
    <3> QED BY <1>b, <2>2, <2>3, <3>2 DEF Data, Filed, Fit, Replayed
  <2>4. next = Len(ckp.records) /\ i # next
    BY <1>b, <2>2, <2>3 DEF Control, OpenRecords, LastIsOpen, Replayed
  <2> QED BY <2>2, <2>4
<1>c. Fit => \A b \in Blocks : StoredInImage(b) # Nothing => memory[b] = StoredInImage(b)
  BY <1>a, <1>b, AllReplayed
<1>1. StoreHeld' /\ Filed' /\ Taken' /\ Fits' /\ PutBack' /\ ClientFirst' /\ IsThere'
  BY DEF Data, Before, StoreHeld, cr_restore_gives_up, Restoring, Filed, Taken, Carries, Stored,
       Executed, Fits, Fit, CarriesImage, StoredInImage, PutBack, ClientFirst, IsThere
<1>2. Recorded'
  BY DEF Control, BeforeRestart, Before, Recorded, cr_restore_gives_up, InReplay, Restoring
<1>3. Finished'
  BY DEF Control, BeforeRestart, Before, Finished, cr_restore_gives_up, InReplay, Restoring
<1>4. ServerFirst'
  BY <1>a, <1>c DEF ServerFirst, Fit, Stale, StoredInImage
<1>5. Kept'
  <2>1. \A b \in Blocks : Stored(b)' = Stored(b)
    BY <1>a DEF Stored, Executed
  <2>2. script = "restored" /\ Fit => \A b \in Blocks : Stored(b) = StoredInImage(b)
    BY <1>a DEF Data, ClientFirst
  <2> QED BY <1>a, <1>c, <2>1, <2>2 DEF Kept, Fit, Stale, Before
<1> QED BY <1>1, <1>2, <1>3, <1>4, <1>5 DEF Data

LEMMA Data_cr_restore_crashes ==
  ASSUME Control, Data, cr_restore_crashes
  PROVE  Data'
<1>1. StoreHeld'
  BY DEF Control, BeforeRestart, Before, StoreHeld, cr_restore_crashes, InReplay, Restoring
<1>2. Recorded' /\ Finished' /\ Filed' /\ Fits' /\ PutBack' /\ ServerFirst' /\ ClientFirst' /\ Kept'
  BY DEF Recorded, cr_restore_crashes, Finished, Data, Filed, Restoring, Fits, Fit,
       CarriesImage, StoredInImage, PutBack, ServerFirst, ClientFirst, Kept
<1>3. Taken'
  BY DEF Control, BeforeRestart, Before, Taken, cr_restore_crashes, InReplay, Restoring
<1>4. IsThere'
  BY DEF Control, Working, IsThere, cr_restore_crashes, InReplay, Restoring
<1> QED BY <1>1, <1>2, <1>3, <1>4 DEF Data

LEMMA Data_cr_restore_complete ==
  ASSUME Control, Data, cr_restore_complete
  PROVE  Data'
<1>a. UNCHANGED <<memory, ckp, image, script, client, held, call, way, handler>> /\ server = "replaying"
      /\ ~Before
  BY DEF Control, BeforeRestart, cr_restore_complete, Restoring
<1>b. ASSUME Fit, NEW i \in DOMAIN ckp.records, ckp.records[i].op = "malloc", ckp.records[i].done
      PROVE  i < next
  BY DEF Control, ServerKinds, cr_restore_complete
<1>c. Fit => \A b \in Blocks : StoredInImage(b) # Nothing => memory[b] = StoredInImage(b)
  BY <1>a, <1>b, AllReplayed
<1>1. StoreHeld' /\ Filed' /\ Taken' /\ Fits' /\ PutBack' /\ ClientFirst' /\ IsThere'
  BY DEF Data, Before, StoreHeld, cr_restore_complete, Restoring, Filed, Taken, Carries, Stored,
       Executed, Fits, Fit, CarriesImage, StoredInImage, PutBack, ClientFirst, IsThere
<1>2. Recorded'
  BY DEF Control, BeforeRestart, Before, Recorded, cr_restore_complete, Restoring
<1>3. Finished'
  BY DEF Control, BeforeRestart, Before, Finished, cr_restore_complete, Restoring
<1>4. ServerFirst'
  BY <1>a, <1>c DEF ServerFirst, Fit, Stale, StoredInImage
<1>5. Kept'
  <2>1. \A b \in Blocks : Stored(b)' = Stored(b)
    BY <1>a DEF Stored, Executed
  <2>2. script = "restored" /\ Fit => \A b \in Blocks : Stored(b) = StoredInImage(b)
    BY <1>a DEF Data, ClientFirst
  <2> QED BY <1>a, <1>c, <2>1, <2>2 DEF Kept, Fit, Stale, Before
<1> QED BY <1>1, <1>2, <1>3, <1>4, <1>5 DEF Data

-------------------------------------------------------------------------------
(* Initially, and in every step.                                           *)

LEMMA InitIInv == Init => IInv
<1> SUFFICES ASSUME Init PROVE IInv
  OBVIOUS
<1>1. ClientKinds /\ ServerKinds
  <2>1. NoCall \in CallSet /\ Nothing \in Contents /\ Nowhere \in [Blocks -> Contents]
    BY Separate DEF NoCall, CallSet, Contents, Nowhere
  <2>2. image.client = "exited" /\ image.calls = 0 /\ image.held = Nowhere /\ image.call = NoCall
        /\ image.way = "none"
    BY DEF Init, NoImage
  <2>3. ClientKinds
    BY <2>1, <2>2, Separate DEF Init, ClientKinds, ClientStates
  <2>4. ckp.records = <<>> /\ ckp.files = Nowhere /\ ckp.calls = 0
    BY DEF Init, NoCheckpoint
  <2>5. ServerKinds
    BY <2>1, <2>4, Separate DEF Init, ServerKinds, Idle, Steps
  <2> QED BY <2>3, <2>5
<1>2. OpenRecords /\ Working
  BY Separate DEF Init, OpenRecords, LastIsOpen, Working, Idle, NoCheckpoint, Open
<1>3. Own
  BY Separate DEF Init, Own, Ops, NoCall, NoImage, Nowhere
<1>4. Waits /\ Frozen
  BY Separate DEF Init, Waits, Frozen, Ops, NoCall, NoImage, Before
<1>5. BeforeRestart /\ AfterRestart
  BY Separate DEF Init, BeforeRestart, AfterRestart, Before, NoCheckpoint
<1>6. Control
  BY <1>1, <1>2, <1>3, <1>4, <1>5 DEF Control
<1>7. \A b \in Blocks : Stored(b) = Nothing
  BY Separate DEF Init, Stored, Executed, Nowhere
<1>8. StoreHeld /\ Recorded /\ Finished /\ Filed
  BY Separate DEF Init, StoreHeld, Recorded, Finished, Filed, Nowhere, NoCheckpoint, NoCall
<1>9. Taken /\ Fits /\ PutBack
  BY DEF Init, Taken, Fits, PutBack
<1>10. ServerFirst /\ ClientFirst /\ IsThere
  BY DEF Init, ServerFirst, ClientFirst, IsThere, Idle
<1>11. Kept
  BY <1>7 DEF Kept
<1> QED BY <1>6, <1>8, <1>9, <1>10, <1>11 DEF IInv, Data

LEMMA StutterIInv == IInv /\ UNCHANGED vars => IInv'
<1> SUFFICES ASSUME IInv, UNCHANGED vars PROVE IInv'
  OBVIOUS
<1>1. /\ UNCHANGED <<client, calls, held, call, way, connected, pending>>
      /\ UNCHANGED <<server, handler, records, memory, usr1, next, ckp, image, script>>
  BY DEF vars, clientVars, serverVars
<1>2. Control'
  BY <1>1 DEF IInv, Control, ClientKinds, ServerKinds, OpenRecords, LastIsOpen, Own, Working,
              Waits, BeforeRestart, AfterRestart, Frozen, Before
<1>3. \A b \in Blocks : Stored(b)' = Stored(b) /\ StoredInImage(b)' = StoredInImage(b)
  BY <1>1 DEF Stored, StoredInImage, Executed
<1>4. StoreHeld' /\ Recorded' /\ Finished' /\ IsThere'
  BY <1>1 DEF IInv, Data, StoreHeld, Recorded, Finished, IsThere, Before, DoneMalloc
<1>5. Filed' /\ PutBack' /\ Fits' /\ Taken' /\ Kept'
  BY <1>1, <1>3, FilesStay, ReplayStays, FitsStays, TakenStays, KeptStays DEF IInv
<1>6. ServerFirst' /\ ClientFirst'
  BY <1>1, <1>3 DEF IInv, Data, ServerFirst, ClientFirst, Fit, Stale
<1> QED BY <1>2, <1>4, <1>5, <1>6 DEF IInv, Data

LEMMA NextIInv == IInv /\ [Next]_vars => IInv'
<1> SUFFICES ASSUME IInv, [Next]_vars PROVE IInv'
  OBVIOUS
<1> USE DEF IInv
<1>1. ASSUME NEW c \in Clients, ClientStep(c) PROVE IInv'
  <2>1. CASE calling(c)
    BY <2>1, Control_calling, Data_calling
  <2>2. CASE returns(c)
    BY <2>2, Control_returns, Data_returns
  <2>3. CASE call_fails(c)
    BY <2>3, Control_call_fails, Data_call_fails
  <2> QED BY <1>1, <2>1, <2>2, <2>3 DEF ClientStep
<1>2. CASE repair_connection
  BY <1>2, Control_repair_connection, Data_repair_connection
<1>3. CASE repaired
  BY <1>3, Control_repaired, Data_repaired
<1>4. CASE Handling
  <2>1. ASSUME NEW c \in Clients, cuda_device_synchronize(c) PROVE IInv'
    BY <2>1, Control_cuda_device_synchronize, Data_cuda_device_synchronize
  <2>2. ASSUME NEW c \in Clients, list_append(c) PROVE IInv'
    BY <2>2, Control_list_append, Data_list_append
  <2>3. CASE record_api
    BY <2>3, Control_record_api, Data_record_api
  <2>4. CASE execute
    BY <2>4, Control_execute, Data_execute
  <2>5. CASE record_result
    BY <2>5, Control_record_result, Data_record_result
  <2>6. CASE answer
    BY <2>6, Control_answer, Data_answer
  <2> QED BY <1>4, <2>1, <2>2, <2>3, <2>4, <2>5, <2>6 DEF Handling
<1>5. CASE Checkpointing
  <2>1. CASE signal_checkpoint
    BY <2>1, Control_signal_checkpoint, Data_signal_checkpoint
  <2>2. CASE checkpoint_crashes
    BY <2>2, Control_checkpoint_crashes, Data_checkpoint_crashes
  <2> QED BY <1>5, <2>1, <2>2 DEF Checkpointing
<1>6. CASE Replaying
  <2>1. CASE svc_register
    BY <2>1, Control_svc_register, Data_svc_register
  <2>2. CASE cr_restore_memory
    BY <2>2, Control_cr_restore_memory, Data_cr_restore_memory
  <2>3. CASE cr_restore_passes
    BY <2>3, Control_cr_restore_passes, Data_cr_restore_passes
  <2>4. CASE cr_restore_gives_up
    BY <2>4, Control_cr_restore_gives_up, Data_cr_restore_gives_up
  <2>5. CASE cr_restore_crashes
    BY <2>5, Control_cr_restore_crashes, Data_cr_restore_crashes
  <2>6. CASE cr_restore_complete
    BY <2>6, Control_cr_restore_complete, Data_cr_restore_complete
  <2> QED BY <1>6, <2>1, <2>2, <2>3, <2>4, <2>5, <2>6 DEF Replaying
<1>7. CASE kill_usr1
  BY <1>7, Control_kill_usr1, Data_kill_usr1
<1>8. CASE criu_dump
  BY <1>8, Control_criu_dump, Data_criu_dump
<1>9. CASE restart
  BY <1>9, Control_restart, Data_restart
<1>10. CASE criu_restore
  BY <1>10, Control_criu_restore, Data_criu_restore
<1>11. CASE UNCHANGED vars
  BY <1>11, StutterIInv
<1> QED BY <1>1, <1>2, <1>3, <1>4, <1>5, <1>6, <1>7, <1>8, <1>9, <1>10, <1>11 DEF Next

(* The invariant holds in every state of every run.                        *)
THEOREM SpecIInv == Spec => []IInv
<1>1. Init => IInv
  BY InitIInv
<1>2. IInv /\ [Next]_vars => IInv'
  BY NextIInv
<1> QED BY <1>1, <1>2, PTL DEF Spec

(* Every part of the state is of its kind, and before a restart only the   *)
(* record a handler is in is open (RECORD_API, RECORD_RESULT).             *)
THEOREM TypeCorrect == Spec => []TypeOK
<1>1. IInv => TypeOK
  BY DEF IInv, Control, ClientKinds, ServerKinds, OpenRecords, LastIsOpen, Open, Before, TypeOK
<1> QED BY <1>1, SpecIInv, PTL

(* A restored client whose image fits the checkpoint finds all it stored   *)
(* in the restarted server, for any number of clients and calls and        *)
(* wherever the signal met the server (signal_checkpoint, cr_restore).     *)
THEOREM MemoryIsFound == Spec => []ClientFindsItsMemory
<1>1. IInv => ClientFindsItsMemory
  <2> SUFFICES ASSUME IInv, script = "restored", client[App] = "running", server = "serving", Fit,
                      NEW b \in Blocks, held[App][b] # Nothing
               PROVE  memory[b] = held[App][b]
    BY DEF ClientFindsItsMemory
  <2>1. way[App] = "none"
    BY Separate DEF IInv, Control, Waits
  <2>2. Stored(b) = held[App][b]
    BY <2>1 DEF Stored, Executed
  <2> QED BY <2>2 DEF IInv, Data, Kept
<1> QED BY <1>1, SpecIInv, PTL

-------------------------------------------------------------------------------
(* Server, client and scripts implement ClientMemory.                      *)

(* A client allocates what it does not hold, and stores in what it does    *)
(* what tells it from a block that is new: the blocks it holds have the    *)
(* numbers of its calls.                                                   *)
UsedBy(n, h, what, w) ==
    /\ \A b \in Blocks : h[b] # Nothing => b[2] <= n
    /\ what.op = "malloc" => what.block[2] <= n /\ what.value = 0
    /\ what.op = "store" => what.value # 0
    /\ w # "none" => /\ what.op = "malloc" => h[what.block] = Nothing
                     /\ what.op = "store" => h[what.block] # Nothing
Used ==
    /\ UsedBy(calls[App], held[App], call[App], way[App])
    /\ UsedBy(image.calls, image.held, image.call, image.way)

LEMMA InitUsed == Init => Used
BY AppAssumption DEF Init, Used, UsedBy, Nowhere, NoCall, NoImage

LEMMA UsedStays ==
  ASSUME Used, UNCHANGED <<calls, held, call, image>>, way'[App] # "none" => way[App] # "none"
  PROVE  Used'
BY DEF Used, UsedBy

LEMMA Used_calling ==
  ASSUME Control, Used, NEW c \in Clients, calling(c)
  PROVE  Used'
<1>1. CASE c # App
  <2>1. /\ UNCHANGED <<held, image>> /\ calls'[App] = calls[App]
        /\ call'[App] = call[App] /\ way'[App] = way[App]
    BY <1>1, Separate DEF Control, ClientKinds, calling, Request
  <2> QED BY <2>1 DEF Used, UsedBy
<1>2. CASE c = App
  <2> DEFINE n == calls[App]
             fresh == <<App, n + 1>>
  <2>1. n \in 0 .. MaxCalls - 1 /\ calls'[App] = n + 1 /\ UNCHANGED <<held, image>>
    BY <1>2, Separate DEF Control, ClientKinds, calling
  <2>2. fresh \in Blocks /\ fresh[2] = n + 1
    BY <2>1, Separate
  <2>3. held[App][fresh] = Nothing
    <3>1. ASSUME held[App][fresh] # Nothing PROVE fresh[2] <= n
      BY <2>2, <3>1 DEF Used, UsedBy
    <3> QED BY <2>1, <2>2, <3>1
  <2>4. \A b \in Blocks : held[App][b] # Nothing => b[2] <= n + 1
    <3>1. \A b \in Blocks : b[2] \in Nat
      BY DEF Blocks
    <3> QED BY <2>1, <3>1 DEF Used, UsedBy
  <2>5. \/ call'[App].op = "malloc" /\ call'[App].block = fresh /\ call'[App].value = 0
        \/ /\ call'[App].op = "store" /\ held[App][call'[App].block] # Nothing
           /\ call'[App].value = n + 1
    BY <1>2, Separate DEF Control, ClientKinds, calling, Request
  <2> HIDE DEF fresh, n
  <2>6. n + 1 <= n + 1 /\ n + 1 # 0
    BY <2>1
  <2> QED BY <2>1, <2>2, <2>3, <2>4, <2>5, <2>6 DEF Used, UsedBy
<1> QED BY <1>1, <1>2

LEMMA Used_returns ==
  ASSUME Control, Used, NEW c \in Clients, returns(c)
  PROVE  Used'
<1>1. CASE c # App
  <2>1. UNCHANGED <<calls, call, image>> /\ held'[App] = held[App] /\ way'[App] = way[App]
    BY <1>1, Separate DEF Control, ClientKinds, returns
  <2> QED BY <2>1 DEF Used, UsedBy
<1>2. CASE c = App
  <2>1. /\ UNCHANGED <<calls, call, image>> /\ way'[App] = "none"
        /\ held'[App] = [held[App] EXCEPT ![call[App].block] = call[App].value]
    BY <1>2, Separate DEF Control, ClientKinds, returns
  <2>2. call[App].op \in Ops /\ way[App] # "none" /\ call[App].block \in Blocks
    BY <1>2, Separate DEF Control, Waits, Own, returns
  <2>3. held[App] \in [Blocks -> Contents]
    BY Separate DEF Control, ClientKinds
  <2>4. call[App].block[2] <= calls[App]
    BY <2>2 DEF Used, UsedBy, Ops
  <2>5. \A b \in Blocks : held'[App][b] # Nothing => b[2] <= calls[App]
    BY <2>1, <2>3, <2>4 DEF Used, UsedBy
  <2> QED BY <2>1, <2>5 DEF Used, UsedBy
<1> QED BY <1>1, <1>2

LEMMA Used_repair_connection ==
  ASSUME Control, Used, repair_connection
  PROVE  Used'
<1>1. UNCHANGED <<calls, held, image>>
  BY DEF repair_connection
<1>2. CASE Listening
  <2>1. call'[App].op = "sync"
    BY <1>2, Separate DEF Control, ClientKinds, repair_connection, Sync
  <2> QED BY <1>1, <2>1 DEF Used, UsedBy
<1>3. CASE ~Listening
  BY <1>1, <1>3, UsedStays DEF repair_connection
<1> QED BY <1>2, <1>3

LEMMA Used_criu ==
  ASSUME Control, Used, criu_dump \/ criu_restore
  PROVE  Used'
<1>1. CASE criu_dump
  <2>1. /\ UNCHANGED <<calls, held, call, way>>
        /\ image'.calls = calls[App] /\ image'.held = held[App] /\ image'.call = call[App]
        /\ image'.way # "none" => way[App] # "none"
    BY <1>1 DEF criu_dump
  <2> QED BY <2>1 DEF Used, UsedBy
<1>2. CASE criu_restore
  <2>1. /\ image' = image /\ calls'[App] = image.calls /\ held'[App] = image.held
        /\ call'[App] = image.call /\ way'[App] = image.way
    BY <1>2, Separate DEF Control, ClientKinds, criu_restore
  <2> QED BY <2>1 DEF Used, UsedBy
<1> QED BY <1>1, <1>2

(* The other steps call nothing, and no call begins to be on its way.      *)
LEMMA Used_handling ==
  ASSUME Control, Used, Handling \/ repaired \/ \E c \in Clients : call_fails(c)
  PROVE  Used'
<1>1. UNCHANGED <<calls, held, call, image>>
  BY DEF Handling, HandlerStep, cuda_device_synchronize, list_append, record_api, execute,
         record_result, answer, repaired, call_fails
<1>2. way \in [Clients -> {"none", "request", "handler", "answer", "lost"}]
  BY DEF Control, ClientKinds
<1>3. way'[App] # "none" => way[App] # "none"
  <2>1. ASSUME NEW c \in Clients, cuda_device_synchronize(c) \/ list_append(c), way'[App] # "none"
        PROVE  way[App] # "none"
    BY <1>2, <2>1, Separate DEF cuda_device_synchronize, list_append, Way
  <2>2. ASSUME record_api \/ execute \/ record_result PROVE way' = way
    BY <2>2 DEF record_api, execute, record_result
  <2>3. ASSUME answer, way'[App] # "none" PROVE way[App] # "none"
    <3>1. handler.client \in Clients /\ way[handler.client] = "handler"
      BY <2>3 DEF Control, ServerKinds, Working, answer, At
    <3> QED BY <1>2, <2>3, <3>1, Separate DEF answer, Way
  <2>4. ASSUME NEW c \in Clients, call_fails(c), way'[App] # "none" PROVE way[App] # "none"
    BY <1>2, <2>4, Separate DEF call_fails
  <2>5. ASSUME repaired PROVE way'[App] = "none"
    BY <1>2, <2>5, Separate DEF repaired
  <2> QED BY <2>1, <2>2, <2>3, <2>4, <2>5 DEF Handling
<1> QED BY <1>1, <1>3, UsedStays

LEMMA Used_disconnect ==
  ASSUME Control, Used, UNCHANGED <<calls, held, call, image>>, Disconnect
  PROVE  Used'
<1>1. way'[App] # "none" => way[App] # "none"
  BY Separate DEF Disconnect, Disconnected
<1> QED BY <1>1, UsedStays

LEMMA Used_next ==
  ASSUME Control, Used, [Next]_vars
  PROVE  Used'
<1>1. ASSUME NEW c \in Clients, ClientStep(c) PROVE Used'
  BY <1>1, Used_calling, Used_returns, Used_handling DEF ClientStep
<1>2. CASE repair_connection
  BY <1>2, Used_repair_connection
<1>3. CASE repaired \/ Handling
  BY <1>3, Used_handling
<1>4. CASE criu_dump \/ criu_restore
  BY <1>4, Used_criu
<1>5. CASE checkpoint_crashes \/ restart \/ cr_restore_crashes
  BY <1>5, Used_disconnect DEF checkpoint_crashes, restart, cr_restore_crashes, Restoring
<1>6. CASE \/ signal_checkpoint \/ kill_usr1 \/ svc_register \/ cr_restore_memory
           \/ cr_restore_passes \/ cr_restore_gives_up \/ cr_restore_complete \/ UNCHANGED vars
  <2>1. UNCHANGED <<calls, held, call, image, way>>
    BY <1>6 DEF signal_checkpoint, kill_usr1, svc_register, cr_restore_memory, cr_restore_passes,
                Replay, cr_restore_gives_up, cr_restore_complete, Restoring, clientVars, vars
  <2> QED BY <2>1, UsedStays
<1> QED BY <1>1, <1>2, <1>3, <1>4, <1>5, <1>6 DEF Next, Checkpointing, Replaying

LEMMA SpecUsed == Spec => []Used
<1>1. IInv => Control
  BY DEF IInv
<1> QED BY <1>1, InitUsed, Used_next, SpecIInv, PTL DEF Spec

(* App's blocks with what it has stored in them, and so in its image.      *)
StoredMap == [b \in {b \in Blocks : Stored(b) # Nothing} |-> AsBlock(Stored(b))]
ImageMap == [b \in {b \in Blocks : StoredInImage(b) # Nothing} |-> AsBlock(StoredInImage(b))]
Mapped ==
    /\ Memory = IF State = "up" THEN StoredMap ELSE Promise!NoMemory
    /\ OnDisk = IF Good THEN ImageMap ELSE Promise!NoMemory

LEMMA MappedAlways == ASSUME IInv PROVE Mapped
<1>1. Memory = IF State = "up" THEN StoredMap ELSE Promise!NoMemory
  <2>1. ASSUME State = "up", NEW b \in Blocks, Stored(b) # Nothing PROVE memory[b] = Stored(b)
    <3>1. server = "serving" /\ script # "restarted" /\ (script = "restored" => Fit)
      BY <2>1 DEF State, Answering
    <3>2. script \in {"started", "signalled", "dumped", "restarted", "restored"}
      BY DEF IInv, Control, ServerKinds
    <3> QED BY <2>1, <3>1, <3>2 DEF IInv, Data, Kept, Before
  <2>2. CASE State = "up"
    BY <2>1, <2>2 DEF Memory, StoredMap
  <2>3. CASE State # "up"
    <3>1. {b \in Blocks : State = "up" /\ Stored(b) # Nothing} = {}
      BY <2>3
    <3> QED BY <2>3, <3>1 DEF Memory, Promise!NoMemory
  <2> QED BY <2>2, <2>3
<1>2. OnDisk = IF Good THEN ImageMap ELSE Promise!NoMemory
  <2>1. ASSUME Good, NEW b \in Blocks, StoredInImage(b) # Nothing PROVE ckp.files[b] = StoredInImage(b)
    BY <2>1 DEF IInv, Data, Fits, CarriesImage, Good
  <2>2. CASE Good
    BY <2>1, <2>2 DEF OnDisk, ImageMap
  <2>3. CASE ~Good
    <3>1. {b \in Blocks : Good /\ StoredInImage(b) # Nothing} = {}
      BY <2>3
    <3> QED BY <2>3, <3>1 DEF OnDisk, Promise!NoMemory
  <2> QED BY <2>2, <2>3
<1> QED BY <1>1, <1>2 DEF Mapped

PromisedStep == [Promise!Next]_(Promise!memoryVars)
StoredStays == \A b \in Blocks : Stored(b)' = Stored(b)
ImageStays == Good' = Good /\ OnDisk' = OnDisk

LEMMA ImageUnchanged == ASSUME UNCHANGED <<script, ckp, image>> PROVE ImageStays
BY DEF ImageStays, Good, Fit, Stale, OnDisk, StoredInImage

LEMMA NoImageYet == ASSUME Mapped, Mapped', ~Good, ~Good' PROVE ImageStays
BY DEF ImageStays, Mapped, Good

LEMMA StateUnchanged == ASSUME UNCHANGED <<script, ckp, image, server>> PROVE State' = State
BY DEF State, Answering, Fit, Stale

(* A step that leaves App's blocks alone is a stutter.                     *)
LEMMA Quietly ==
  ASSUME Mapped, Mapped', State' = State, State = "up" => StoredStays, ImageStays
  PROVE  PromisedStep
<1>1. Memory' = Memory
  BY DEF Mapped, StoredMap, StoredStays
<1> QED BY <1>1 DEF PromisedStep, Promise!memoryVars, ImageStays

(* The server is gone, or has not begun to answer.                         *)
LEMMA StaysDown ==
  ASSUME Mapped, Mapped', ~Answering, ~Answering', ImageStays
  PROVE  PromisedStep
BY Quietly DEF State

LEMMA Stops ==
  ASSUME Mapped, Mapped', ~Answering', ImageStays
  PROVE  PromisedStep
<1>1. CASE ~Answering
  BY <1>1, StaysDown
<1>2. CASE Answering
  <2>1. State # "down" /\ State' = "down" /\ Memory' = Promise!NoMemory
    BY <1>2 DEF State, Mapped
  <2>2. Promise!Stop
    BY <2>1 DEF Promise!Stop, ImageStays
  <2> QED BY <2>2 DEF PromisedStep, Promise!Next
<1> QED BY <1>1, <1>2

(* The server and the restored App come together.                          *)
LEMMA Meets ==
  ASSUME Mapped, Mapped', ~Answering, Answering', script' = "restored", ImageStays,
         Fit' => Fit, Fit => Good, Fit => \A b \in Blocks : Stored(b)' = StoredInImage(b)
  PROVE  PromisedStep
<1>1. State = "down" /\ Memory = Promise!NoMemory
  BY DEF State, Mapped
<1>2. CASE Fit'
  <2>1. State' = "up" /\ Memory' = StoredMap'
    BY <1>2 DEF State, Mapped
  <2>2. OnDisk = ImageMap /\ StoredMap' = ImageMap
    BY <1>2 DEF Mapped, StoredMap, ImageMap
  <2>3. Promise!Restart
    BY <1>1, <1>2, <2>1, <2>2 DEF Promise!Restart, ImageStays
  <2> QED BY <2>3 DEF PromisedStep, Promise!Next
<1>3. CASE ~Fit'
  <2>1. State' = "lost" /\ Memory' = Promise!NoMemory
    BY <1>3 DEF State, Mapped
  <2>2. Promise!Lose
    BY <1>1, <2>1 DEF Promise!Lose, ImageStays
  <2> QED BY <2>2 DEF PromisedStep, Promise!Next
<1> QED BY <1>2, <1>3

(* The images of server and client come to fit.                            *)
LEMMA Freezes ==
  ASSUME Mapped, Mapped', ~Good, State = "up", State' = "up", StoredStays,
         Good' => \A b \in Blocks : StoredInImage(b)' = Stored(b)
  PROVE  PromisedStep
<1>1. Memory' = Memory /\ Memory = StoredMap
  BY DEF Mapped, StoredMap, StoredStays
<1>2. CASE Good'
  <2>1. OnDisk' = ImageMap' /\ ImageMap' = StoredMap
    BY <1>2 DEF Mapped, StoredMap, ImageMap
  <2>2. Promise!Checkpoint
    BY <1>1, <1>2, <2>1 DEF Promise!Checkpoint
  <2> QED BY <2>2 DEF PromisedStep, Promise!Next
<1>3. CASE ~Good'
  BY <1>3, NoImageYet, Quietly
<1> QED BY <1>2, <1>3

LEMMA ClientImplements ==
  ASSUME IInv, Mapped, Mapped',
         repair_connection \/ repaired \/ \E c \in Clients : ClientStep(c)
  PROVE  PromisedStep
<1>1. UNCHANGED <<script, ckp, image, server, handler>>
  BY DEF ClientStep, calling, returns, call_fails, repair_connection, repaired, serverVars
<1>2. /\ held \in [Clients -> [Blocks -> Contents]]
      /\ call \in [Clients -> CallSet] /\ call' \in [Clients -> CallSet]
      /\ way \in [Clients -> {"none", "request", "handler", "answer", "lost"}]
  <2>1. Control
    BY DEF IInv
  <2>2. Control'
    BY <2>1, Control_calling, Control_returns, Control_call_fails, Control_repair_connection,
       Control_repaired DEF ClientStep
  <2> QED BY <2>1, <2>2 DEF Control, ClientKinds
<1>3. ASSUME way[App] \notin {"handler", "answer"}, way'[App] \notin {"handler", "answer"},
             held'[App] = held[App]
      PROVE  StoredStays
  BY <1>3 DEF StoredStays, Stored, Executed
<1>4. ASSUME way'[App] = way[App], call'[App] = call[App], held'[App] = held[App]
      PROVE  StoredStays
  BY <1>1, <1>4 DEF StoredStays, Stored, Executed
<1>5. ASSUME NEW c \in Clients, ClientStep(c), c # App PROVE StoredStays
  <2>1. way'[App] = way[App] /\ call'[App] = call[App] /\ held'[App] = held[App]
    BY <1>2, <1>5, Separate DEF ClientStep, calling, returns, call_fails, Request
  <2> QED BY <1>4, <2>1
<1>6. CASE calling(App) \/ repair_connection
  <2>1. way[App] = "none" /\ held' = held
    BY <1>6, Separate DEF IInv, Control, Waits, calling, repair_connection
  <2>2. way'[App] \in {"none", "request", "lost"}
    BY <1>2, <1>6, <2>1, Separate DEF calling, repair_connection, Request
  <2> QED BY <1>1, <1>3, <2>1, <2>2, Quietly, ImageUnchanged, StateUnchanged
<1>7. CASE returns(App)
  <2>1. way[App] = "answer" /\ way'[App] = "none" /\ call' = call
    BY <1>2, <1>7, Separate DEF returns
  <2>2. held'[App] = [held[App] EXCEPT ![call[App].block] = call[App].value]
    BY <1>2, <1>7, Separate DEF returns
  <2>3. held[App] \in [Blocks -> Contents]
    BY <1>2, Separate
  <2>4. StoredStays
    BY <2>1, <2>2, <2>3 DEF StoredStays, Stored, Executed
  <2> QED BY <1>1, <2>4, Quietly, ImageUnchanged, StateUnchanged
<1>8. CASE call_fails(App)
  <2>1. way[App] = "lost" /\ way'[App] = "none" /\ held' = held
    BY <1>2, <1>8, Separate DEF call_fails
  <2> QED BY <1>1, <1>3, <2>1, Quietly, ImageUnchanged, StateUnchanged
<1>9. CASE repaired
  <2>1. call[App].op = "sync" /\ call[App].block = Wild
    BY <1>9, Separate DEF IInv, Control, Waits, Own, Ops, repaired
  <2>2. way'[App] = "none" /\ way[App] # "handler" /\ held' = held
    BY <1>2, <1>9, Separate DEF repaired
  <2>3. StoredStays
    BY <2>1, <2>2, Separate DEF StoredStays, Stored, Executed
  <2> QED BY <1>1, <2>3, Quietly, ImageUnchanged, StateUnchanged
<1>10. ASSUME NEW c \in Clients, ClientStep(c), c # App PROVE PromisedStep
  BY <1>1, <1>5, <1>10, Quietly, ImageUnchanged, StateUnchanged
<1> QED BY <1>6, <1>7, <1>8, <1>9, <1>10 DEF ClientStep

(* A call of App is executed: what it has stored changes in one place.     *)
LEMMA ExecuteImplements ==
  ASSUME IInv, Used, Mapped, Mapped', execute
  PROVE  PromisedStep
<1> DEFINE d == handler.client
           p == call[App].block
           v == call[App].value
<1>1. /\ UNCHANGED <<script, ckp, image, server, call, way, held>>
      /\ handler.step = "filled" /\ handler'.step = "executed" /\ handler'.client = d
      /\ d \in Clients /\ way[d] = "handler" /\ call[d].op \in Ops
  BY DEF IInv, Control, ServerKinds, Working, execute, HandlerStep, At
<1>2. State' = State /\ ImageStays
  BY <1>1, ImageUnchanged, StateUnchanged
<1>3. CASE d # App
  <2>1. way[App] # "handler"
    BY <1>3, Separate DEF IInv, Control, Working
  <2>2. StoredStays
    BY <1>1, <2>1 DEF StoredStays, Stored, Executed
  <2> QED BY <1>2, <2>2, Quietly
<1>4. CASE d = App
  <2>1. p \in Blocks /\ call[App] \in CallSet /\ v \in 0 .. MaxCalls
    BY <1>1, <1>4, Separate DEF IInv, Control, ClientKinds, Own, CallSet
  <2>2. ~Executed /\ Executed'
    BY <1>1, <1>4 DEF Executed
  <2>3. \A b \in Blocks : Stored(b)' = IF b = p THEN v ELSE Stored(b)
    BY <1>1, <2>2 DEF Stored
  <2>4. Stored(p) = held[App][p] /\ v # Nothing
    BY <2>1, <2>2, Separate DEF Stored
  <2> HIDE DEF p, v
  <2>5. CASE State = "up"
    <3>1. Memory = StoredMap /\ Memory' = StoredMap' /\ State' = "up"
      BY <1>2, <2>5 DEF Mapped
    <3>2. StoredMap' = [q \in DOMAIN StoredMap \cup {p} |-> IF q = p THEN AsBlock(v) ELSE StoredMap[q]]
      BY <2>1, <2>3, <2>4 DEF StoredMap
    <3>3. CASE call[App].op = "malloc"
      <4>1. held[App][p] = Nothing /\ v = 0
        BY <1>1, <1>4, <3>3 DEF Used, UsedBy, p, v
      <4>2. p \notin DOMAIN StoredMap /\ AsBlock(v) = [size |-> 1, data |-> 0]
        BY <2>4, <4>1 DEF StoredMap, AsBlock
      <4>3. Promise!Malloc(p, 1)
        BY <1>2, <2>5, <3>1, <3>2, <4>2 DEF Promise!Malloc, Promise!With, ImageStays
      <4> QED BY <2>1, <4>3 DEF PromisedStep, Promise!Next
    <3>4. CASE call[App].op = "store"
      <4>1. held[App][p] # Nothing /\ v # 0
        BY <1>1, <1>4, <3>4 DEF Used, UsedBy, p, v
      <4>2. p \in DOMAIN StoredMap /\ StoredMap[p].size = 1 /\ v \in 1 .. MaxCalls
        BY <2>1, <2>4, <4>1, Separate DEF StoredMap, AsBlock
      <4>3. AsBlock(v) = [size |-> StoredMap[p].size, data |-> v]
        BY <4>2 DEF AsBlock
      <4>4. Promise!Store(p, v)
        BY <1>2, <2>5, <3>1, <3>2, <4>2, <4>3 DEF Promise!Store, Promise!With, ImageStays
      <4> QED BY <2>1, <4>2, <4>4 DEF PromisedStep, Promise!Next
    <3> QED BY <1>1, <1>4, <3>3, <3>4 DEF Ops
  <2>6. CASE State # "up"
    BY <1>2, <2>6, Quietly
  <2> QED BY <2>5, <2>6
<1> QED BY <1>3, <1>4

LEMMA HandlingImplements ==
  ASSUME IInv, Used, Mapped, Mapped', Handling
  PROVE  PromisedStep
<1>1. CASE execute
  BY <1>1, ExecuteImplements
<1>2. CASE ~execute
  <2>1. UNCHANGED <<script, ckp, image, server, call, held>>
    BY <1>2 DEF Handling, cuda_device_synchronize, list_append, record_api, record_result, answer,
                HandlerStep
  <2>2. way \in [Clients -> {"none", "request", "handler", "answer", "lost"}]
    BY DEF IInv, Control, ClientKinds
  <2>3. ASSUME NEW c \in Clients, cuda_device_synchronize(c) PROVE StoredStays
    <3>1. call[App].op # "sync" => c # App
      BY <2>3 DEF cuda_device_synchronize
    <3>2. c # App => way'[App] = way[App] /\ handler' = handler
      BY <2>2, <2>3, Separate DEF cuda_device_synchronize, Way
    <3>3. call[App].op = "sync" => call[App].block \notin Blocks
      BY Separate DEF IInv, Control, Own, Ops
    <3> QED BY <2>1, <3>1, <3>2, <3>3 DEF StoredStays, Stored, Executed
  <2>4. ASSUME NEW c \in Clients, list_append(c) PROVE StoredStays
    <3>1. way[App] # "handler"
      BY <2>4, Separate DEF IInv, Control, Working, list_append, At
    <3>2. way'[App] = "answer" <=> way[App] = "answer"
      BY <2>2, <2>4, Separate DEF list_append, Way
    <3>3. handler'.step = "appended"
      BY <2>4 DEF list_append
    <3> QED BY <2>1, <3>1, <3>2, <3>3 DEF StoredStays, Stored, Executed
  <2>5. ASSUME record_api \/ record_result PROVE StoredStays
    <3>1. way' = way
      BY <2>5 DEF record_api, record_result
    <3>2. handler.step \in {"executed", "recorded"} <=> handler'.step \in {"executed", "recorded"}
      BY <2>5 DEF record_api, record_result, At, IInv, Control, ServerKinds
    <3> QED BY <2>1, <3>1, <3>2 DEF StoredStays, Stored, Executed
  <2>6. ASSUME answer PROVE StoredStays
    <3>1. /\ handler.step = "recorded" /\ handler.client \in Clients
          /\ way[handler.client] = "handler"
          /\ way[App] = "handler" => handler.client = App
      BY <2>6, Separate DEF IInv, Control, ServerKinds, Working, answer, At
    <3>2. way'[App] = IF App = handler.client THEN "answer" ELSE way[App]
      BY <2>2, <2>6, Separate DEF answer, Way
    <3> QED BY <2>1, <3>1, <3>2 DEF StoredStays, Stored, Executed
  <2> QED BY <1>2, <2>1, <2>3, <2>4, <2>5, <2>6, Quietly, ImageUnchanged, StateUnchanged DEF Handling
<1> QED BY <1>1, <1>2

(* The signal's handler in the server, and its end there.                  *)
LEMMA CheckpointingImplements ==
  ASSUME IInv, Mapped, Mapped', Checkpointing
  PROVE  PromisedStep
<1>1. Before /\ ~Good /\ State = "up"
  <2>1. usr1 /\ server = "serving"
    BY DEF Checkpointing, signal_checkpoint, checkpoint_crashes
  <2>2. Before
    BY <2>1 DEF IInv, Control, AfterRestart
  <2>3. ~ckp.complete
    BY <2>1, <2>2 DEF IInv, Control, BeforeRestart
  <2> QED BY <2>1, <2>2, <2>3 DEF Before, Good, Fit, State, Answering
<1>2. CASE signal_checkpoint
  <2>1. /\ UNCHANGED <<script, image, server, client, held, call, way, handler>>
        /\ ckp'.quiet = Quiet
    BY <1>2 DEF signal_checkpoint, clientVars
  <2>2. State' = "up" /\ StoredStays
    BY <1>1, <2>1 DEF State, Answering, Before, StoredStays, Stored, Executed
  <2>3. ASSUME Good', NEW b \in Blocks PROVE StoredInImage(b)' = Stored(b)
    <3>1. script = "dumped" /\ Quiet
      BY <1>1, <2>1, <2>3 DEF Before, Good, Fit
    <3>2. image.client = "running" \/ image.way = "answer"
      BY <2>1, <2>3 DEF Good, Fit
    <3>3. image.way \in {"none", "answer"}
      BY <3>2 DEF IInv, Control, Waits
    <3>4. held[App] = image.held /\ call[App] = image.call /\ way[App] = image.way
      BY <3>1, <3>3 DEF IInv, Control, Frozen
    <3> QED BY <2>1, <3>3, <3>4 DEF Stored, StoredInImage, Executed
  <2> QED BY <1>1, <2>2, <2>3, Freezes
<1>3. CASE checkpoint_crashes
  <2>1. server' = "gone" /\ ~ckp'.complete
    BY <1>3 DEF checkpoint_crashes, NoCheckpoint
  <2>2. ~Answering' /\ ~Good'
    BY <2>1 DEF Answering, Good, Fit
  <2> QED BY <1>1, <2>2, NoImageYet, Stops
<1> QED BY <1>2, <1>3 DEF Checkpointing

(* What the scripts do, with CRIU.                                         *)
LEMMA ScriptsImplement ==
  ASSUME IInv, Mapped, Mapped', kill_usr1 \/ criu_dump \/ restart \/ criu_restore
  PROVE  PromisedStep
<1>1. CASE kill_usr1
  <2>1. /\ script = "started" /\ script' = "signalled"
        /\ UNCHANGED <<server, handler, client, held, call, way>>
    BY <1>1 DEF kill_usr1, clientVars
  <2>2. State' = State /\ ~Good /\ ~Good'
    BY <2>1 DEF State, Answering, Good
  <2>3. StoredStays
    BY <2>1 DEF StoredStays, Stored, Executed
  <2> QED BY <2>2, <2>3, NoImageYet, Quietly
<1>2. CASE criu_dump
  <2>1. /\ script = "signalled" /\ script' = "dumped"
        /\ UNCHANGED <<server, handler, ckp, calls, held, call, way>>
        /\ image'.client = client[App] /\ image'.held = held[App] /\ image'.call = call[App]
        /\ image'.way = IF way[App] \in {"none", "answer"} THEN way[App] ELSE "lost"
    BY <1>2 DEF criu_dump, serverVars
  <2>2. State' = State /\ ~Good /\ StoredStays
    BY <2>1 DEF State, Answering, Good, StoredStays, Stored, Executed
  <2>3. CASE State = "up"
    <3>1. ASSUME Good', NEW b \in Blocks PROVE StoredInImage(b)' = Stored(b)
      <4>1. client[App] = "running" \/ way[App] = "answer"
        BY <2>1, <3>1 DEF Good, Fit
      <4>2. way[App] \in {"none", "answer"}
        BY <4>1, Separate DEF IInv, Control, Waits
      <4> QED BY <2>1, <4>2 DEF Stored, StoredInImage, Executed
    <3> QED BY <2>2, <2>3, <3>1, Freezes
  <2>4. CASE State # "up"
    <3>1. server # "serving" /\ ~ckp.complete
      BY <2>1, <2>4 DEF State, Answering, IInv, Control, BeforeRestart, Before
    <3>2. ~Good'
      BY <2>1, <3>1 DEF Good, Fit
    <3> QED BY <2>2, <2>4, <3>2, NoImageYet, Quietly
  <2> QED BY <2>3, <2>4
<1>3. CASE restart
  <2>1. script = "dumped" /\ script' = "restarted" /\ UNCHANGED <<ckp, image>>
    BY <1>3 DEF restart
  <2>2. ~Answering' /\ ImageStays
    BY <2>1 DEF Answering, ImageStays, Good, Fit, Stale, OnDisk, StoredInImage
  <2> QED BY <2>2, Stops
<1>4. CASE criu_restore
  <2>1. /\ script = "restarted" /\ script' = "restored" /\ UNCHANGED <<ckp, image, server, handler>>
        /\ held'[App] = image.held /\ call'[App] = image.call /\ way'[App] = image.way
    BY <1>4, Separate DEF criu_restore, serverVars, IInv, Control, ClientKinds
  <2>2. ~Answering /\ ImageStays /\ (Fit' <=> Fit) /\ (Fit => Good)
    BY <2>1 DEF Answering, ImageStays, Good, Fit, Stale, OnDisk, StoredInImage
  <2>3. CASE server = "serving"
    <3>1. Answering'
      BY <2>1, <2>3 DEF Answering
    <3>2. \A b \in Blocks : Stored(b)' = StoredInImage(b)
      BY <2>1 DEF Stored, StoredInImage, Executed, IInv, Control, ClientKinds
    <3> QED BY <2>1, <2>2, <3>1, <3>2, Meets
  <2>4. CASE server # "serving"
    <3>1. ~Answering'
      BY <2>1, <2>4 DEF Answering
    <3> QED BY <2>2, <3>1, StaysDown
  <2> QED BY <2>3, <2>4
<1> QED BY <1>1, <1>2, <1>3, <1>4

(* The restarted server, until it answers.                                 *)
LEMMA ReplayingImplements ==
  ASSUME IInv, Mapped, Mapped', Replaying
  PROVE  PromisedStep
<1>1. UNCHANGED <<script, ckp, image, client, held, call, handler>> /\ server \in {"starting", "replaying"}
  BY DEF Replaying, svc_register, cr_restore_memory, cr_restore_passes, cr_restore_gives_up,
         cr_restore_crashes, cr_restore_complete, Replay, Restoring, InReplay
<1>2. ~Answering /\ ImageStays
  BY <1>1, ImageUnchanged DEF Answering
<1>3. CASE ~Answering'
  BY <1>2, <1>3, StaysDown
<1>4. CASE Answering'
  <2>1. server' = "serving" /\ script # "restarted"
    BY <1>1, <1>4 DEF Answering
  <2>2. way' = way
    BY <1>1, <2>1 DEF Replaying, svc_register, cr_restore_memory, cr_restore_passes,
       cr_restore_gives_up, cr_restore_crashes, cr_restore_complete, Replay, InReplay
  <2>3. script = "restored"
    BY <1>1, <2>1 DEF IInv, Control, BeforeRestart, Before, ServerKinds
  <2>4. (Fit' <=> Fit) /\ (Fit => Good)
    BY <1>1, <2>3 DEF Fit, Stale, Good
  <2>5. Fit => \A b \in Blocks : Stored(b) = StoredInImage(b)
    BY <1>1, <2>3 DEF IInv, Data, ClientFirst
  <2>6. \A b \in Blocks : Stored(b)' = Stored(b)
    BY <1>1, <2>2 DEF Stored, Executed
  <2> QED BY <1>1, <1>2, <1>4, <2>3, <2>4, <2>5, <2>6, Meets
<1> QED BY <1>3, <1>4

(* Server, client, scripts and CRIU together are the memory of             *)
(* ClientMemory: a call of App takes effect in one step, calls of other    *)
(* clients and the signal change nothing of it, and when the images of     *)
(* server and client fit a restart gives back what was there, for any      *)
(* number of clients and of calls (signal_checkpoint, cr_restore).         *)
THEOREM ImplementsTheMemory == Spec => ImplementsClientMemory
<1>1. Init => Promise!Init
  <2> SUFFICES ASSUME Init PROVE Promise!Init
    OBVIOUS
  <2>1. Mapped /\ ~Good /\ State = "up"
    BY InitIInv, MappedAlways DEF Init, Good, State, Answering
  <2>2. \A b \in Blocks : Stored(b) = Nothing
    BY AppAssumption DEF Init, Stored, Executed, Nowhere
  <2>3. {b \in Blocks : Stored(b) # Nothing} = {}
    BY <2>2
  <2>4. StoredMap = Promise!NoMemory
    BY <2>3 DEF StoredMap, Promise!NoMemory
  <2> QED BY <2>1, <2>4 DEF Promise!Init, Mapped, Good
<1>2. IInv /\ Used /\ Mapped /\ Mapped' /\ [Next]_vars => [Promise!Next]_(Promise!memoryVars)
  <2> SUFFICES ASSUME IInv, Used, Mapped, Mapped', [Next]_vars PROVE PromisedStep
    BY DEF PromisedStep
  <2>1. CASE UNCHANGED vars
    <3>1. UNCHANGED <<script, ckp, image, server, held, call, way, handler>>
      BY <2>1 DEF vars, clientVars, serverVars
    <3>2. StoredStays
      BY <3>1 DEF StoredStays, Stored, Executed
    <3> QED BY <3>1, <3>2, ImageUnchanged, StateUnchanged, Quietly
  <2>2. CASE Next
    BY <2>2, ClientImplements, HandlingImplements, CheckpointingImplements, ScriptsImplement,
       ReplayingImplements DEF Next
  <2> QED BY <2>1, <2>2
<1>3. IInv => Mapped
  BY MappedAlways
<1> QED BY <1>1, <1>2, <1>3, SpecIInv, SpecUsed, PTL DEF Spec, ImplementsClientMemory, Promise!Spec

=============================================================================
