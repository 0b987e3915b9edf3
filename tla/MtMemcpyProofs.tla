---------------------------- MODULE MtMemcpyProofs -----------------------------
(***************************************************************************)
(* Theorems about MtMemcpy for any number of clients and threads, any      *)
(* sizes of blocks and with faults.                                        *)
(*                                                                         *)
(* A copy is right because each connection brings the part of one thread   *)
(* of the client, whatever the order they were accepted in (Peers), what   *)
(* a thread has done is in the memory it wrote (Moves), and once as many   *)
(* connections have ended as there are parts, each part was somebody's     *)
(* (AllConnected) and the parts are the whole block (PartsCover).          *)
(***************************************************************************)
EXTENDS MtMemcpy, FiniteSetTheorems, SequenceTheorems, TLAPS

Callers == {"idle", "init", "connect", "transfer", "joining", "done"}
Listeners == {"none", "start", "barrier", "failed", "accept", "join", "ended"}
Copiers == {"waiting", "staged", "ended", "failed"}
Senders == {"none", "start", "connected", "ended"}

(* What kind of value each variable has.                                   *)
StateKinds ==
  /\ caller \in [Clients -> Callers] /\ rpc \in Clients \cup {"nobody"}
  /\ id \in [Clients -> Nat] /\ listener \in [Clients -> Listeners]
  /\ DOMAIN staged = Clients /\ DOMAIN arrived = Clients
  /\ copies \in Nat /\ faults \subseteq Faults
Flags ==
  /\ moved \in [Clients -> BOOLEAN] /\ crashed \in BOOLEAN /\ late \in BOOLEAN
ListKinds == list \in Seq(Nat) /\ room \in Nat \ {0} /\ Len(list) <= room
ThreadKinds ==
  /\ transfer \in [Clients -> Transfer]
  /\ peer \in [Clients -> Seq(Thread)] /\ copier \in [Clients -> Seq(Copiers)]
  /\ sender \in [Clients -> [Thread -> Senders]]
  /\ \A c \in Clients : Len(peer[c]) = Len(copier[c]) /\ Len(peer[c]) <= Threads
MemoryOf(c) ==
  /\ staged[c] \in [Cells(c) -> Cells(c) \cup {Nothing}]
  /\ arrived[c] \in [Cells(c) -> Cells(c) \cup {Nothing}]
MemoryKinds == \A c \in Clients : MemoryOf(c)

(* Where the three threads of a client's transfer are.                     *)
Phases ==
  \A c \in Clients :
    /\ caller[c] \in Asks => listener[c] = "none"
    /\ caller[c] = "init" =>
         /\ listener[c] \in {"none", "start", "barrier", "failed"}
         /\ rpc = c <=> listener[c] # "none"
    /\ caller[c] = "connect" => listener[c] = "accept"
    /\ caller[c] \in {"transfer", "joining"} => listener[c] \in {"accept", "join", "ended"}
    /\ rpc = c => caller[c] \in {"init", "joining"}
    /\ caller[c] = "joining" => rpc = c
    /\ listener[c] \in {"barrier", "accept", "join"} => transfer[c].port
    /\ listener[c] \in {"accept", "join"} => transfer[c].mem = "held"

(* Each accepted connection is one of another thread of the client, and    *)
(* the listener has ended only when all connections have.                  *)
PeersOf(c) ==
  /\ listener[c] \in {"none", "start", "barrier", "failed"} => peer[c] = <<>>
  /\ listener[c] = "accept" => Len(peer[c]) < Threads
  /\ listener[c] \in {"join", "ended"} => Len(peer[c]) = Threads
  /\ listener[c] = "ended" => Finished(c)
  /\ \A k, l \in 1 .. Len(peer[c]) : peer[c][k] = peer[c][l] => k = l
  /\ \A k \in 1 .. Len(peer[c]) : sender[c][peer[c][k]] \in {"connected", "ended"}
  /\ caller[c] \notin {"transfer", "joining"} => \A i \in Thread : sender[c][i] = "none"
  /\ caller[c] = "joining" => \A i \in Thread : sender[c][i] = "ended"
Peers == \A c \in Clients : PeersOf(c)

(* Part i is in the memory.                                                *)
Has(memory, i, size) == \A x \in 0 .. size - 1 : x \in Part(i, size) => memory[x] = x

(* Memory `new` is memory `to` with part i taken out of `from`.            *)
Fills(new, to, from, i, size) ==
  \A x \in 0 .. size - 1 : new[x] = IF x \in Part(i, size) THEN from[x] ELSE to[x]

(* What each thread has done is in the memory.                             *)
ToDevice(c) ==
  \A k \in 1 .. Len(peer[c]) :
    /\ copier[c][k] = "staged" => Has(staged[c], peer[c][k], transfer[c].size)
    /\ copier[c][k] = "ended" => Has(arrived[c], peer[c][k], transfer[c].size)
FromDevice(c) ==
  \A k \in 1 .. Len(peer[c]) :
    /\ copier[c][k] \in {"staged", "ended"} => Has(staged[c], k - 1, transfer[c].size)
    /\ sender[c][peer[c][k]] = "ended" => Has(arrived[c], k - 1, transfer[c].size)
MovesOf(c) ==
  /\ \A k \in 1 .. Len(peer[c]) : copier[c][k] # "failed"
  /\ transfer[c].dir = HtoD => ToDevice(c)
  /\ transfer[c].dir = DtoH => FromDevice(c)
  /\ caller[c] = "done" => arrived[c] = Source(c)
Moves == "cuda" \notin faults => \A c \in Clients : MovesOf(c)

(* A step that is not about d leaves all this of d as it was.              *)
Same(d) ==
  /\ caller'[d] = caller[d] /\ listener'[d] = listener[d] /\ transfer'[d] = transfer[d]
  /\ peer'[d] = peer[d] /\ copier'[d] = copier[d] /\ sender'[d] = sender[d]
  /\ staged'[d] = staged[d] /\ arrived'[d] = arrived[d]

(* Every transfer that its client knows has an element of its own, and one *)
(* that is being made has the last.                                        *)
Told(c) == caller[c] \in {"connect", "transfer", "joining"}
Listed ==
  \A c \in Clients :
    /\ Told(c) => id[c] < Len(list) /\ list[id[c] + 1] = transfer[c].nr
    /\ \A d \in Clients : Told(c) /\ Told(d) /\ id[c] = id[d] => c = d
    /\ rpc = c /\ caller[c] = "init" =>
         /\ list # <<>> /\ list[Len(list)] = transfer[c].nr
         /\ \A d \in Clients : Told(d) => id[d] # Len(list) - 1

(* The transfers that wait for their sync are counted by the list.         *)
Active == {c \in Clients : listener[c] # "none"}
Counted == IsFiniteSet(Active) /\ (~late => Len(list) = Cardinality(Active))

IInv ==
  /\ StateKinds /\ Flags /\ ListKinds /\ ThreadKinds /\ MemoryKinds
  /\ Phases /\ Peers /\ Moves /\ Listed /\ Counted

-------------------------------------------------------------------------------
LEMMA Constants ==
  /\ Threads \in Nat \ {0} /\ Sizes \subseteq Nat \ {0} /\ "nobody" \notin Clients
  /\ Thread = 0 .. Threads - 1 /\ HtoD # DtoH /\ Nothing \in Int /\ MaxEvents \in Nat
BY ThreadsArePositive, SizesAreNumbers, NobodyIsNoClient, BoundIsANumber DEF Thread, HtoD,
     DtoH, Nothing

-------------------------------------------------------------------------------
(* The parts of a block.                                                   *)

LEMMA Division ==
  ASSUME NEW x \in Nat, NEW q \in Nat \ {0}
  PROVE  x \div q \in Nat /\ q * (x \div q) <= x /\ x < q * ((x \div q) + 1)
OBVIOUS

LEMMA FirstIsANumber ==
  ASSUME NEW i \in Thread, NEW size \in Nat
  PROVE  First(i, size) \in Nat
<1>1. size \div Threads \in Nat
  BY Constants, Division
<1> QED BY <1>1, Constants DEF First

(* Every cell of a block is in some part.                                  *)
LEMMA PartsCover ==
  ASSUME NEW size \in Nat, NEW x \in 0 .. size - 1
  PROVE  \E i \in Thread : x \in Part(i, size)
<1> DEFINE q == size \div Threads
           last == Threads - 1
<1>1. q \in Nat /\ last \in Nat /\ last \in Thread
  BY Constants, Division
<1>2. CASE last * q <= x
  <2>1. Part(last, size) = last * q .. size - 1
    BY <1>1, Constants DEF Part, First
  <2> QED BY <1>1, <1>2, <2>1
<1>3. CASE x < last * q
  <2> DEFINE i == x \div q
  <2>1. q # 0
    BY <1>1, <1>3
  <2>2. i \in Nat /\ q * i <= x /\ x < q * (i + 1)
    BY <1>1, <2>1, Division
  <2>a. i * q = q * i /\ (i + 1) * q = q * (i + 1) /\ last * q = q * last
    BY <1>1, <2>2
  <2> HIDE DEF i
  <2>3. i < last
    <3> HIDE DEF q, last
    <3>1. SUFFICES ASSUME i >= last PROVE FALSE
      BY <1>1, <2>2
    <3>2. q * last <= q * i
      BY <1>1, <2>2, <3>1
    <3> QED BY <1>1, <1>3, <2>2, <2>a, <3>2
  <2>4. Part(i, size) = i * q .. (i + 1) * q - 1
    BY <1>1, <2>2, <2>3, Constants DEF Part, First
  <2>5. x \in Part(i, size)
    <3> HIDE DEF q
    <3> QED BY <1>1, <2>2, <2>a, <2>4
  <2> QED BY <1>1, <2>2, <2>3, <2>5, Constants
<1> HIDE DEF q, last
<1>4. last * q \in Int
  BY <1>1
<1> QED BY <1>2, <1>3, <1>4

-------------------------------------------------------------------------------
(* What a step that moves a part does to the memory it writes.             *)

LEMMA BroughtFills ==
  ASSUME NEW c \in Clients, NEW k, NEW to, NEW from, DOMAIN to = Cells(c),
         transfer \in [Clients -> Transfer], SentNumber(c, k) \in Thread
  PROVE  /\ DOMAIN Brought(c, k, to, from) = Cells(c)
         /\ Fills(Brought(c, k, to, from), to, from, SentNumber(c, k), transfer[c].size)
<1> DEFINE i == SentNumber(c, k)
           size == transfer[c].size
<1>1. size \in Nat
  <2>1. transfer[c] \in Transfer /\ Sizes \cup {0} \subseteq Nat
    BY Constants
  <2> QED BY <2>1 DEF Transfer
<1>2. First(i, size) - First(i, size) = 0
  BY <1>1, FirstIsANumber
<1>3. Brought(c, k, to, from) = [x \in DOMAIN to |-> IF x \in Part(i, size) THEN from[x + 0] ELSE to[x]]
  BY <1>2 DEF Brought, PlacedNumber
<1>4. \A x \in Cells(c) : x + 0 = x
  BY <1>1 DEF Cells
<1> QED BY <1>3, <1>4 DEF Fills, Cells

LEMMA CopiedFills ==
  ASSUME NEW c \in Clients, NEW k, NEW to, NEW from, DOMAIN to = Cells(c)
  PROVE  /\ DOMAIN Copied(c, k, to, from) = Cells(c)
         /\ Fills(Copied(c, k, to, from), to, from, SentNumber(c, k), transfer[c].size)
BY DEF Copied, Fills, Cells, PlacedNumber

(* A cell stays one of the source, or nothing.                             *)
LEMMA FilledIsMemory ==
  ASSUME NEW c \in Clients, NEW new, NEW i, NEW to, NEW from,
         new = [x \in DOMAIN new |-> new[x]],
         DOMAIN new = Cells(c), Fills(new, to, from, i, transfer[c].size),
         to \in [Cells(c) -> Cells(c) \cup {Nothing}], from \in [Cells(c) -> Cells(c) \cup {Nothing}]
  PROVE  new \in [Cells(c) -> Cells(c) \cup {Nothing}]
BY DEF Fills, Cells

(* What is right stays so, and what comes from memory that has the part is right. *)
LEMMA FilledHas ==
  ASSUME NEW new, NEW to, NEW from, NEW i, NEW size, Fills(new, to, from, i, size), Has(from, i, size)
  PROVE  Has(new, i, size) /\ \A j : Has(to, j, size) => Has(new, j, size)
BY DEF Fills, Has

LEMMA SourceIsMemory ==
  ASSUME NEW c \in Clients
  PROVE  /\ Source(c) \in [Cells(c) -> Cells(c) \cup {Nothing}]
         /\ \A i : Has(Source(c), i, transfer[c].size)
BY DEF Source, Has, Cells

-------------------------------------------------------------------------------
(* A client's threads are all at some connection once there are as many.   *)
LEMMA AllConnected ==
  ASSUME NEW p \in Seq(Thread), Len(p) = Threads, \A k, l \in 1 .. Len(p) : p[k] = p[l] => k = l
  PROVE  \A i \in Thread : \E k \in 1 .. Len(p) : p[k] = i
<1> DEFINE f == [k \in 1 .. Threads |-> p[k]]
<1>1. f \in Injection(1 .. Threads, Thread)
  BY DEF Injection, IsInjective
<1>2. /\ IsFiniteSet(Thread) /\ Cardinality(1 .. Threads) = Threads /\ Cardinality(Thread) = Threads
  BY Constants, FS_Interval
<1>3. f \in Surjection(1 .. Threads, Thread)
  BY <1>1, <1>2, FS_Injection
<1> QED BY <1>3 DEF Surjection

(* A sequence without its last element.                                    *)
LEMMA ButLast ==
  ASSUME NEW S, NEW s \in Seq(S), s # <<>>, NEW t, t = SubSeq(s, 1, Len(s) - 1)
  PROVE  t \in Seq(S) /\ Len(t) = Len(s) - 1 /\ \A n \in 1 .. Len(s) - 1 : t[n] = s[n]
<1>1. Len(s) \in Nat /\ Len(s) # 0
  OBVIOUS
<1>2. Len(t) = IF 1 <= Len(s) - 1 THEN Len(s) - 1 - 1 + 1 ELSE 0
  BY <1>1, SubSeqProperties
<1>3. Len(t) = Len(s) - 1
  <2> DEFINE old == Len(s)
             new == Len(t)
  <2>1. old \in Nat /\ old # 0 /\ new = IF 1 <= old - 1 THEN old - 1 - 1 + 1 ELSE 0
    BY <1>1, <1>2
  <2> HIDE DEF old, new
  <2>2. new = old - 1
    BY <2>1
  <2> QED BY <2>2 DEF old, new
<1>4. t \in Seq(S) /\ \A n \in 1 .. Len(s) - 1 : t[n] = s[n]
  OBVIOUS
<1> QED BY <1>3, <1>4

(* The same transfer in the same memory is as right as it was.             *)
LEMMA SameStays ==
  ASSUME NEW d \in Clients, Same(d)
  PROVE  /\ MemoryOf(d) => MemoryOf(d)'
         /\ PeersOf(d) => PeersOf(d)'
         /\ MovesOf(d) => MovesOf(d)'
<1>1. MemoryOf(d) => MemoryOf(d)'
  BY DEF Same, MemoryOf, Cells
<1>2. PeersOf(d) => PeersOf(d)'
  BY DEF Same, PeersOf, Finished
<1>3. MovesOf(d) => MovesOf(d)'
  BY DEF Same, MovesOf, ToDevice, FromDevice, Source, Cells
<1> QED BY <1>1, <1>2, <1>3

(* A step of a copy thread is one of a connection of a client that waits.  *)
LEMMA CopierMoves ==
  ASSUME IInv, NEW c \in Clients, NEW k \in DOMAIN copier[c], NEW from \in {"waiting", "staged"},
         NEW to \in Copiers, CopierStep(c, k, from, to)
  PROVE  /\ k \in 1 .. Len(peer[c]) /\ k - 1 \in Thread /\ peer[c][k] \in Thread
         /\ SentNumber(c, k) \in Thread
         /\ caller[c] \notin Asks /\ listener[c] # "ended" /\ copier[c][k] = from
         /\ copier' \in [Clients -> Seq(Copiers)] /\ Len(copier'[c]) = Len(copier[c])
         /\ \A l \in 1 .. Len(peer[c]) : copier'[c][l] = IF l = k THEN to ELSE copier[c][l]
<1> DEFINE new == [copier[c] EXCEPT ![k] = to]
<1>1. /\ copier[c] \in Seq(Copiers) /\ peer[c] \in Seq(Thread) /\ Len(peer[c]) = Len(copier[c])
      /\ Len(peer[c]) <= Threads
  BY DEF IInv, ThreadKinds
<1>2. k \in 1 .. Len(peer[c]) /\ k - 1 \in Thread /\ peer[c][k] \in Thread
  BY <1>1, Constants, SMTT(30)
<1>3. new \in Seq(Copiers) /\ Len(new) = Len(copier[c])
      /\ \A l \in 1 .. Len(peer[c]) : new[l] = IF l = k THEN to ELSE copier[c][l]
  BY <1>1
<1>4. copier' = [copier EXCEPT ![c] = new] /\ copier[c][k] = from
  BY DEF CopierStep, PutAt
<1>5. listener[c] # "ended"
  BY <1>4 DEF IInv, Peers, PeersOf, Finished
<1>6. caller[c] \notin Asks
  BY <1>1, <1>2 DEF IInv, Peers, PeersOf, Phases
<1> HIDE DEF new
<1>7. copier' \in [Clients -> Seq(Copiers)] /\ copier'[c] = new
  BY <1>3, <1>4 DEF IInv, ThreadKinds
<1> QED BY <1>2, <1>3, <1>4, <1>5, <1>6, <1>7 DEF SentNumber

-------------------------------------------------------------------------------
(* Each step keeps the invariant.  What Peers, Moves and MemoryKinds say   *)
(* of the other clients stays as it is (Same).                             *)

LEMMA Keep_cudaMemcpy ==
  ASSUME IInv, NEW c \in Clients, NEW dir \in {HtoD, DtoH}, NEW size \in Sizes, cudaMemcpy(c, dir, size)
  PROVE  IInv'
<1>s. \A d \in Clients : d # c => Same(d)
  BY DEF IInv, StateKinds, ThreadKinds, Same, Put, cudaMemcpy, Asks, WithinBound,
       NewTransfer, Empty, serverVars
<1>f. "cuda" \in faults => "cuda" \in faults'
  BY DEF cudaMemcpy, Asks, WithinBound, NewTransfer, Empty, serverVars
<1>e. listener[c] = "none" /\ peer[c] = <<>> /\ caller'[c] = "init"
  BY DEF IInv, StateKinds, Phases, Peers, PeersOf, cudaMemcpy, Put
<1>u. UNCHANGED <<listener, peer, copier, sender, faults>> /\ caller[c] \in Asks
  BY DEF cudaMemcpy
<1>1. StateKinds'
  BY DEF IInv, StateKinds, Callers, Put, cudaMemcpy, serverVars
<1>2. Flags' /\ ListKinds' /\ Phases' /\ Counted'
  BY DEF IInv, Flags, cudaMemcpy, serverVars, ListKinds, Phases, Put, Counted, Active
<1>3. ThreadKinds'
  BY DEF IInv, StateKinds, ThreadKinds, Transfer, Put, cudaMemcpy, NewTransfer
<1>4. MemoryKinds'
  <2>1. MemoryOf(c)'
    BY DEF IInv, StateKinds, ThreadKinds, MemoryKinds, MemoryOf, Cells, Put, cudaMemcpy,
         NewTransfer, Empty
  <2> QED BY <1>s, <2>1, SameStays DEF IInv, MemoryKinds
<1>5. Peers'
  <2>1. PeersOf(c)'
    BY <1>e, <1>u DEF IInv, Peers, PeersOf, Asks
  <2> QED BY <1>s, <2>1, SameStays DEF IInv, Peers
<1>6. Moves'
  <2>1. "cuda" \notin faults' => MovesOf(c)'
    <3>1. copier[c] = <<>>
      BY <1>e DEF IInv, ThreadKinds
    <3> QED BY <1>e, <1>u, <3>1 DEF MovesOf, ToDevice, FromDevice
  <2> QED BY <1>s, <1>f, <2>1, SameStays DEF IInv, Moves
<1>7. Listed'
  BY DEF IInv, Phases, Listed, Told, Put, cudaMemcpy, serverVars
<1> QED BY <1>1, <1>2, <1>3, <1>4, <1>5, <1>6, <1>7 DEF IInv

LEMMA Keep_mt_memcpy_client ==
  ASSUME IInv, NEW c \in Clients, mt_memcpy_client(c)
  PROVE  IInv'
<1>s. \A d \in Clients : d # c => Same(d)
  BY DEF IInv, StateKinds, ThreadKinds, Same, Put, mt_memcpy_client, serverVars
<1>f. "cuda" \in faults => "cuda" \in faults'
  BY DEF mt_memcpy_client, serverVars
<1>1. StateKinds'
  BY DEF IInv, StateKinds, Callers, Put, mt_memcpy_client, serverVars
<1>2. Flags' /\ ListKinds' /\ MemoryKinds' /\ Listed' /\ Counted'
  BY DEF IInv, Flags, mt_memcpy_client, serverVars, ListKinds, MemoryKinds, MemoryOf, Cells,
       Listed, Told, Put, Counted, Active
<1>3. ThreadKinds'
  BY DEF IInv, ThreadKinds, Senders, Put, mt_memcpy_client
<1>4. Phases'
  BY DEF IInv, Phases, Asks, Put, mt_memcpy_client, serverVars
<1>5. Peers'
  <2>1. PeersOf(c)'
    <3>1. listener[c] = "accept" /\ peer[c] \in Seq(Thread) /\ \A i \in Thread : sender[c][i] = "none"
      BY DEF IInv, ThreadKinds, Phases, Peers, PeersOf, mt_memcpy_client
    <3>2. peer[c] = <<>>
      BY <3>1 DEF IInv, Peers, PeersOf
    <3>3. caller'[c] = "transfer" /\ UNCHANGED <<listener, peer, copier>>
      BY DEF IInv, StateKinds, mt_memcpy_client, Put
    <3> QED BY <3>1, <3>2, <3>3, Constants DEF PeersOf
  <2> QED BY <1>s, <2>1, SameStays DEF IInv, Peers
<1>6. Moves'
  <2>1. "cuda" \notin faults' => MovesOf(c)'
    BY DEF IInv, ThreadKinds, Moves, MovesOf, ToDevice, FromDevice, Cells, Put,
         mt_memcpy_client
  <2> QED BY <1>s, <1>f, <2>1, SameStays DEF IInv, Moves
<1> QED BY <1>1, <1>2, <1>3, <1>4, <1>5, <1>6 DEF IInv

LEMMA Keep_connect_fails ==
  ASSUME IInv, NEW c \in Clients, NEW i \in Thread, connect_fails(c, i)
  PROVE  IInv'
<1>s. \A d \in Clients : d # c => Same(d)
  BY DEF IInv, StateKinds, ThreadKinds, Same, Put, connect_fails, Fault, FaultKinds, PutAt,
       serverVars
<1>f. "cuda" \in faults => "cuda" \in faults'
  BY DEF connect_fails, Fault, FaultKinds, PutAt, serverVars
<1>1. StateKinds' /\ Flags' /\ ListKinds' /\ MemoryKinds' /\ Phases' /\ Listed' /\ Counted'
  BY DEF IInv, StateKinds, connect_fails, Fault, serverVars, Flags, ListKinds, MemoryKinds,
       MemoryOf, Cells, Phases, Listed, Told, Counted, Active
<1>2. ThreadKinds'
  BY DEF IInv, ThreadKinds, Senders, connect_fails, PutAt
<1>3. Peers'
  <2>1. PeersOf(c)'
    BY DEF IInv, Peers, PeersOf, Finished, connect_fails, PutAt
  <2> QED BY <1>s, <2>1, SameStays DEF IInv, Peers
<1>4. Moves'
  <2>1. "cuda" \notin faults' => MovesOf(c)'
    BY DEF IInv, Peers, PeersOf, Moves, MovesOf, ToDevice, FromDevice, Cells, connect_fails,
         Fault, PutAt
  <2> QED BY <1>s, <1>f, <2>1, SameStays DEF IInv, Moves
<1> QED BY <1>1, <1>2, <1>3, <1>4 DEF IInv

LEMMA Keep_thread_sends ==
  ASSUME IInv, NEW c \in Clients, NEW i \in Thread, thread_sends(c, i)
  PROVE  IInv'
<1>s. \A d \in Clients : d # c => Same(d)
  BY DEF IInv, StateKinds, ThreadKinds, Same, Put, thread_sends, PutAt, serverVars
<1>f. "cuda" \in faults => "cuda" \in faults'
  BY DEF thread_sends, PutAt, serverVars
<1>1. StateKinds' /\ Flags' /\ ListKinds' /\ MemoryKinds' /\ Phases' /\ Listed' /\ Counted'
  BY DEF IInv, StateKinds, thread_sends, serverVars, Flags, ListKinds, MemoryKinds, MemoryOf,
       Cells, Phases, Listed, Told, Counted, Active
<1>2. ThreadKinds'
  BY DEF IInv, ThreadKinds, Senders, thread_sends, PutAt
<1>3. Peers'
  <2>1. PeersOf(c)'
    BY DEF IInv, Peers, PeersOf, Finished, thread_sends, PutAt
  <2> QED BY <1>s, <2>1, SameStays DEF IInv, Peers
<1>4. Moves'
  <2>1. "cuda" \notin faults' => MovesOf(c)'
    BY Constants DEF IInv, Moves, MovesOf, ToDevice, Source, Cells, thread_sends
  <2> QED BY <1>s, <1>f, <2>1, SameStays DEF IInv, Moves
<1> QED BY <1>1, <1>2, <1>3, <1>4 DEF IInv

LEMMA Keep_thread_receives ==
  ASSUME IInv, NEW c \in Clients, NEW k \in DOMAIN copier[c], thread_receives(c, k)
  PROVE  IInv'
<1>s. \A d \in Clients : d # c => Same(d)
  BY DEF IInv, StateKinds, ThreadKinds, Same, Put, thread_receives, PutAt, serverVars
<1>f. "cuda" \in faults => "cuda" \in faults'
  BY DEF thread_receives, PutAt, serverVars
<1>a. /\ peer[c] \in Seq(Thread) /\ Len(peer[c]) = Len(copier[c]) /\ Len(peer[c]) <= Threads
      /\ copier[c] \in Seq(Copiers)
  BY DEF IInv, ThreadKinds
<1>k. /\ k \in 1 .. Len(peer[c]) /\ k - 1 \in Thread /\ peer[c][k] \in Thread
      /\ transfer[c].dir = DtoH /\ copier[c][k] = "ended" /\ SentNumber(c, k) = k - 1
  BY <1>a, Constants, SMTT(30) DEF thread_receives, SentNumber
<1>u. UNCHANGED <<caller, id, serverVars, transfer, listener, peer, copier, staged, crashed, copies, faults>>
  BY DEF thread_receives
<1>p. /\ sender[c][peer[c][k]] = "connected" /\ sender' \in [Clients -> [Thread -> Senders]]
      /\ \A i \in Thread : sender'[c][i] = IF i = peer[c][k] THEN "ended" ELSE sender[c][i]
  BY <1>k DEF IInv, ThreadKinds, Senders, thread_receives, PutAt
<1>c. caller[c] # "done"
  BY <1>k, <1>p DEF IInv, Peers, PeersOf
<1>b. /\ arrived'[c] \in [Cells(c) -> Cells(c) \cup {Nothing}]
      /\ Fills(arrived'[c], arrived[c], staged[c], k - 1, transfer[c].size)
  <2>1. arrived'[c] = Brought(c, k, arrived[c], staged[c])
    BY DEF IInv, StateKinds, thread_receives, Put
  <2>2. arrived[c] \in [Cells(c) -> Cells(c) \cup {Nothing}] /\ staged[c] \in [Cells(c) -> Cells(c) \cup {Nothing}]
    BY SourceIsMemory DEF IInv, MemoryKinds, MemoryOf
  <2>3. /\ DOMAIN arrived'[c] = Cells(c)
        /\ Fills(arrived'[c], arrived[c], staged[c], k - 1, transfer[c].size)
    BY <1>k, <2>1, <2>2, BroughtFills DEF IInv, ThreadKinds
  <2>4. arrived'[c] = [x \in DOMAIN arrived'[c] |-> arrived'[c][x]]
    BY <2>1 DEF Brought
  <2> QED BY <2>2, <2>3, <2>4, FilledIsMemory
<1>1. StateKinds' /\ Flags' /\ ListKinds' /\ Phases' /\ Listed' /\ Counted'
  BY DEF IInv, StateKinds, Put, thread_receives, serverVars, Flags, ListKinds, Phases,
       Listed, Told, Counted, Active
<1>2. ThreadKinds'
  BY DEF IInv, ThreadKinds, Senders, thread_receives, PutAt
<1>3. MemoryKinds'
  <2>1. MemoryOf(c)'
    BY <1>b, <1>u DEF IInv, MemoryKinds, MemoryOf, Cells
  <2> QED BY <1>s, <2>1, SameStays DEF IInv, MemoryKinds
<1>4. Peers'
  <2>1. PeersOf(c)'
    BY DEF IInv, Peers, PeersOf, Finished, thread_receives, PutAt
  <2> QED BY <1>s, <2>1, SameStays DEF IInv, Peers
<1>5. Moves'
  <2>1. "cuda" \notin faults' => MovesOf(c)'
    <3> SUFFICES ASSUME "cuda" \notin faults' PROVE MovesOf(c)'
      OBVIOUS
    <3>1. MovesOf(c) /\ FromDevice(c)
      BY <1>f, <1>k DEF IInv, Moves, MovesOf
    <3>2. Has(arrived'[c], k - 1, transfer[c].size)
          /\ \A j : Has(arrived[c], j, transfer[c].size) => Has(arrived'[c], j, transfer[c].size)
      BY <1>b, <1>k, <3>1, FilledHas DEF FromDevice
    <3>3. \A l \in 1 .. Len(peer[c]) : peer[c][l] \in Thread /\ (peer[c][l] = peer[c][k] => l = k)
      BY <1>a, <1>k DEF IInv, Peers, PeersOf
    <3>4. FromDevice(c)'
      BY <1>p, <1>u, <3>1, <3>2, <3>3 DEF FromDevice
    <3> QED BY <1>c, <1>k, <1>u, <3>1, <3>4, Constants DEF MovesOf
  <2> QED BY <1>s, <1>f, <2>1, SameStays DEF IInv, Moves
<1> QED BY <1>1, <1>2, <1>3, <1>4, <1>5 DEF IInv

LEMMA Keep_mt_memcpy_init_server ==
  ASSUME IInv, NEW c \in Clients, mt_memcpy_init_server(c)
  PROVE  IInv'
<1>s. \A d \in Clients : d # c => Same(d)
  BY DEF IInv, StateKinds, ThreadKinds, Same, Put, mt_memcpy_init_server, list_append,
       Running, Ready
<1>f. "cuda" \in faults => "cuda" \in faults'
  BY DEF mt_memcpy_init_server, list_append, Running, Ready
<1>a. /\ list \in Seq(Nat) /\ transfer[c].nr \in Nat /\ Len(list) \in Nat
  BY DEF IInv, ListKinds, ThreadKinds, Transfer
<1>l. /\ list' = Append(list, transfer[c].nr) /\ Len(list') = Len(list) + 1
      /\ \A n \in 1 .. Len(list) : list'[n] = list[n]
      /\ list'[Len(list) + 1] = transfer[c].nr
  BY <1>a DEF mt_memcpy_init_server, list_append
<1>n. listener[c] = "none" /\ caller[c] = "init" /\ rpc = "nobody" /\ rpc' = c
  BY Constants DEF IInv, Phases, mt_memcpy_init_server, Ready
<1>u. /\ UNCHANGED <<caller, id, late, transfer, peer, copier, sender, staged, arrived, crashed, copies, faults>>
      /\ listener' = [listener EXCEPT ![c] = "start"]
  BY DEF mt_memcpy_init_server, Put
<1>1. StateKinds'
  BY DEF IInv, StateKinds, Listeners, Put, mt_memcpy_init_server, Ready
<1>2. Flags' /\ ThreadKinds' /\ MemoryKinds'
  BY DEF IInv, Flags, mt_memcpy_init_server, list_append, ThreadKinds, MemoryKinds, MemoryOf,
       Cells
<1>3. ListKinds'
  BY DEF IInv, ListKinds, ThreadKinds, Transfer, mt_memcpy_init_server, list_append
<1>4. Phases'
  BY Constants DEF IInv, StateKinds, Phases, Asks, Put, mt_memcpy_init_server, Ready
<1>5. Peers'
  <2>1. PeersOf(c)'
    BY <1>n, <1>u DEF IInv, StateKinds, Peers, PeersOf, Finished
  <2> QED BY <1>s, <2>1, SameStays DEF IInv, Peers
<1>6. Moves'
  <2>1. "cuda" \notin faults' => MovesOf(c)'
    BY DEF IInv, Moves, MovesOf, ToDevice, FromDevice, mt_memcpy_init_server, Ready
  <2> QED BY <1>s, <1>f, <2>1, SameStays DEF IInv, Moves
<1>7. Listed'
  <2>1. \A d \in Clients : Told(d) => id[d] \in 0 .. Len(list) - 1
    BY <1>a DEF IInv, StateKinds, Listed
  <2>2. \A d \in Clients : Told(d) => id[d] < Len(list') /\ list'[id[d] + 1] = transfer[d].nr
    BY <1>a, <1>l, <2>1 DEF IInv, Listed
  <2>3. Len(list') - 1 = Len(list) /\ list' # <<>>
    BY <1>a, <1>l
  <2> QED BY <1>l, <1>n, <1>u, <2>1, <2>2, <2>3 DEF IInv, Listed, Told
<1>8. Counted'
  <2>1. Active' = Active \cup {c} /\ c \notin Active
    BY <1>n, <1>u DEF IInv, StateKinds, Active
  <2>2. IsFiniteSet(Active') /\ Cardinality(Active') = Cardinality(Active) + 1
    BY <2>1, FS_AddElement DEF IInv, Counted
  <2> QED BY <1>l, <1>u, <2>2 DEF IInv, Counted
<1> QED BY <1>1, <1>2, <1>3, <1>4, <1>5, <1>6, <1>7, <1>8 DEF IInv

LEMMA Keep_init_allocates ==
  ASSUME IInv, NEW c \in Clients, init_allocates(c)
  PROVE  IInv'
<1>s. \A d \in Clients : d # c => Same(d)
  BY DEF IInv, StateKinds, ThreadKinds, Same, Put, init_allocates, serverVars
<1>f. "cuda" \in faults => "cuda" \in faults'
  BY DEF init_allocates, serverVars
<1>t. transfer' \in [Clients -> Transfer] /\ transfer'[c] = [transfer[c] EXCEPT !.mem = "held"]
  <2>1. transfer[c] \in Transfer
    BY DEF IInv, ThreadKinds
  <2>2. [transfer[c] EXCEPT !.mem = "held"] \in Transfer
    BY <2>1 DEF Transfer
  <2>3. transfer' = [transfer EXCEPT ![c] = [transfer[c] EXCEPT !.mem = "held"]]
    BY DEF init_allocates
  <2> QED BY <2>2, <2>3 DEF IInv, ThreadKinds
<1>n. /\ transfer'[c].nr = transfer[c].nr /\ transfer'[c].dir = transfer[c].dir
      /\ transfer'[c].size = transfer[c].size
      /\ transfer'[c].mem = "held" /\ transfer'[c].port = transfer[c].port
  <2>1. transfer[c] \in Transfer
    BY DEF IInv, ThreadKinds
  <2> QED BY <1>t, <2>1 DEF Transfer
<1>1. StateKinds' /\ Flags' /\ ListKinds' /\ MemoryKinds' /\ Phases' /\ Counted'
  BY DEF IInv, StateKinds, init_allocates, serverVars, Flags, ListKinds, MemoryKinds,
       MemoryOf, Cells, Phases, Counted, Active
<1>2. ThreadKinds'
  BY <1>t DEF IInv, ThreadKinds, init_allocates, serverVars
<1>3. Peers'
  <2>1. PeersOf(c)'
    BY DEF IInv, Peers, PeersOf, Finished, init_allocates
  <2> QED BY <1>s, <2>1, SameStays DEF IInv, Peers
<1>4. Moves'
  <2>1. "cuda" \notin faults' => MovesOf(c)'
    BY DEF IInv, Moves, MovesOf, ToDevice, FromDevice, init_allocates
  <2> QED BY <1>s, <1>f, <2>1, SameStays DEF IInv, Moves
<1>5. Listed'
  <2>1. \A d \in Clients : transfer'[d].nr = transfer[d].nr
    BY <1>n, <1>s DEF Same
  <2>2. UNCHANGED <<caller, id, list, rpc>>
    BY DEF init_allocates, serverVars
  <2> QED BY <2>1, <2>2 DEF IInv, Listed, Told
<1> QED BY <1>1, <1>2, <1>3, <1>4, <1>5 DEF IInv

LEMMA Keep_pthread_barrier_wait ==
  ASSUME IInv, NEW c \in Clients, pthread_barrier_wait(c)
  PROVE  IInv'
<1>s. \A d \in Clients : d # c => Same(d)
  BY DEF IInv, StateKinds, ThreadKinds, Same, Put, pthread_barrier_wait
<1>f. "cuda" \in faults => "cuda" \in faults'
  BY DEF pthread_barrier_wait
<1>1. StateKinds'
  <2>1. Len(list) - 1 \in Nat
    BY DEF IInv, ListKinds, Listed, pthread_barrier_wait
  <2> QED BY <2>1 DEF IInv, StateKinds, Callers, Listeners, Put, pthread_barrier_wait
<1>2. Flags' /\ ListKinds' /\ ThreadKinds' /\ MemoryKinds'
  BY DEF IInv, Flags, pthread_barrier_wait, ListKinds, ThreadKinds, MemoryKinds, MemoryOf,
       Cells
<1>3. Phases'
  BY Constants DEF IInv, StateKinds, Phases, Asks, Put, pthread_barrier_wait
<1>4. Peers'
  <2>1. PeersOf(c)'
    BY Constants DEF IInv, Peers, PeersOf, Put, pthread_barrier_wait
  <2> QED BY <1>s, <2>1, SameStays DEF IInv, Peers
<1>5. Moves'
  <2>1. "cuda" \notin faults' => MovesOf(c)'
    BY DEF IInv, Moves, MovesOf, ToDevice, FromDevice, Put, pthread_barrier_wait
  <2> QED BY <1>s, <1>f, <2>1, SameStays DEF IInv, Moves
<1>6. Listed'
  BY Constants DEF IInv, StateKinds, Listed, Told, Put, pthread_barrier_wait
<1>7. Counted'
  BY DEF IInv, StateKinds, Counted, Active, Put, pthread_barrier_wait
<1> QED BY <1>1, <1>2, <1>3, <1>4, <1>5, <1>6, <1>7 DEF IInv

LEMMA Keep_cuda_memcpy_mt_sync ==
  ASSUME IInv, NEW c \in Clients, cuda_memcpy_mt_sync(c)
  PROVE  IInv'
<1>s. \A d \in Clients : d # c => Same(d)
  BY DEF IInv, StateKinds, ThreadKinds, Same, Put, cuda_memcpy_mt_sync, Joined, Ready,
       threadVars
<1>f. "cuda" \in faults => "cuda" \in faults'
  BY DEF cuda_memcpy_mt_sync, Joined, Ready, threadVars
<1>1. StateKinds'
  BY DEF IInv, StateKinds, Callers, Put, cuda_memcpy_mt_sync, Ready, threadVars
<1>2. Flags' /\ ListKinds' /\ ThreadKinds' /\ MemoryKinds' /\ Listed' /\ Counted'
  BY DEF IInv, Flags, cuda_memcpy_mt_sync, ListKinds, ThreadKinds, threadVars, MemoryKinds,
       MemoryOf, Cells, Listed, Told, Put, Ready, Counted, Active
<1>3. Phases'
  BY Constants DEF IInv, StateKinds, Phases, Asks, Put, cuda_memcpy_mt_sync, Ready, threadVars
<1>4. Peers'
  <2>1. PeersOf(c)'
    BY DEF IInv, Peers, PeersOf, Finished, Put, cuda_memcpy_mt_sync, Joined, Ready, threadVars
  <2> QED BY <1>s, <2>1, SameStays DEF IInv, Peers
<1>5. Moves'
  <2>1. "cuda" \notin faults' => MovesOf(c)'
    BY DEF IInv, Moves, MovesOf, ToDevice, FromDevice, Put, cuda_memcpy_mt_sync, Ready,
         threadVars
  <2> QED BY <1>s, <1>f, <2>1, SameStays DEF IInv, Moves
<1> QED BY <1>1, <1>2, <1>3, <1>4, <1>5 DEF IInv

LEMMA Keep_sync_returns ==
  ASSUME IInv, NEW c \in Clients, sync_returns(c)
  PROVE  IInv'
<1>s. \A d \in Clients : d # c => Same(d)
  BY DEF IInv, StateKinds, ThreadKinds, Same, Put, sync_returns, list_rm, NewTransfer, Empty,
       Idle
<1>f. "cuda" \in faults => "cuda" \in faults'
  BY DEF sync_returns, list_rm, NewTransfer, Empty, Idle
<1>n. rpc = c /\ caller[c] = "joining" /\ listener[c] = "ended"
  BY DEF sync_returns
<1>a. /\ list \in Seq(Nat) /\ Len(list) \in Nat /\ id[c] \in Nat /\ id[c] < Len(list)
      /\ room \in Nat /\ Len(list) <= room
  BY <1>n DEF IInv, StateKinds, ListKinds, Listed, Told
<1>r. \/ /\ id[c] = Len(list) - 1 /\ list' = SubSeq(list, 1, Len(list) - 1) /\ UNCHANGED late
      \/ /\ UNCHANGED list /\ late'
  BY DEF sync_returns, list_rm, Front
<1>l. /\ list' \in Seq(Nat) /\ Len(list') \in Nat /\ Len(list') <= Len(list)
      /\ \A n \in 1 .. Len(list') : list'[n] = list[n]
      /\ list' # list => Len(list') = Len(list) - 1 /\ id[c] = Len(list) - 1
  <2>1. CASE id[c] = Len(list) - 1 /\ list' = SubSeq(list, 1, Len(list) - 1)
    <3>1. list \in Seq(Nat) /\ list # <<>> /\ list' = SubSeq(list, 1, Len(list) - 1)
      BY <1>a, <2>1
    <3>2. Len(list') = Len(list) - 1
      BY <3>1, ButLast
    <3>3. list' \in Seq(Nat) /\ \A n \in 1 .. Len(list) - 1 : list'[n] = list[n]
      BY <3>1, ButLast
    <3> QED BY <1>a, <2>1, <3>2, <3>3
  <2>2. CASE UNCHANGED list
    BY <1>a, <2>2
  <2> QED BY <1>r, <2>1, <2>2
<1>u. /\ caller' = [caller EXCEPT ![c] = "done"] /\ rpc' = "nobody"
      /\ listener' = [listener EXCEPT ![c] = "none"] /\ id' = [id EXCEPT ![c] = 0]
      /\ UNCHANGED <<room, arrived, crashed, copies, faults>>
  BY DEF sync_returns, Put
<1>o. \A d \in Clients : d # c => caller'[d] = caller[d] /\ listener'[d] = listener[d] /\ id'[d] = id[d]
  BY <1>u DEF IInv, StateKinds
<1>d. caller'[c] = "done" /\ listener'[c] = "none"
  BY <1>u DEF IInv, StateKinds
<1>1. StateKinds'
  BY DEF IInv, StateKinds, Callers, Listeners, Put, sync_returns
<1>2. Flags'
  BY DEF IInv, Flags, Put, sync_returns, list_rm
<1>3. ListKinds'
  BY <1>a, <1>l, <1>u DEF IInv, ListKinds
<1>4. ThreadKinds'
  BY Constants DEF IInv, ThreadKinds, Transfer, Senders, Put, sync_returns, NewTransfer, Idle
<1>5. MemoryKinds'
  <2>1. MemoryOf(c)'
    BY DEF IInv, MemoryKinds, MemoryOf, Cells, Put, sync_returns, NewTransfer, Empty
  <2> QED BY <1>s, <2>1, SameStays DEF IInv, MemoryKinds
<1>6. Phases'
  BY Constants DEF IInv, StateKinds, Phases, Put, sync_returns
<1>7. Peers'
  <2>1. PeersOf(c)'
    BY DEF IInv, StateKinds, ThreadKinds, Peers, PeersOf, Put, sync_returns, Idle
  <2> QED BY <1>s, <2>1, SameStays DEF IInv, Peers
<1>8. Moves'
  <2>1. "cuda" \notin faults' => MovesOf(c)'
    <3> SUFFICES ASSUME "cuda" \notin faults' PROVE MovesOf(c)'
      OBVIOUS
    <3>1. MovesOf(c) /\ MemoryOf(c) /\ PeersOf(c)
      BY <1>f DEF IInv, Moves, MemoryKinds, Peers
    <3>2. peer[c] \in Seq(Thread) /\ Len(peer[c]) = Len(copier[c]) /\ copier[c] \in Seq(Copiers)
      BY DEF IInv, ThreadKinds
    <3>3. \A i \in Thread : \E k \in 1 .. Len(peer[c]) : peer[c][k] = i
      BY <1>n, <3>1, <3>2, AllConnected DEF PeersOf
    <3>4. \A k \in 1 .. Len(peer[c]) : copier[c][k] = "ended" /\ sender[c][peer[c][k]] = "ended"
      BY <1>n, <3>1, <3>2 DEF MovesOf, PeersOf, Finished
    <3>5. \A i \in Thread : Has(arrived[c], i, transfer[c].size)
      <4>1. CASE transfer[c].dir = HtoD
        BY <3>1, <3>3, <3>4, <4>1 DEF MovesOf, ToDevice
      <4>2. CASE transfer[c].dir = DtoH
        <5>1. \A i \in Thread : i + 1 \in 1 .. Len(peer[c]) /\ (i + 1) - 1 = i
          BY <1>n, <3>1, Constants DEF PeersOf
        <5>2. \A k \in 1 .. Len(peer[c]) : Has(arrived[c], k - 1, transfer[c].size)
          BY <3>1, <3>4, <4>2 DEF MovesOf, FromDevice
        <5> QED BY <5>1, <5>2
      <4>3. transfer[c] \in Transfer
        BY DEF IInv, ThreadKinds
      <4> QED BY <4>1, <4>2, <4>3 DEF Transfer
    <3>6. transfer[c].size \in Nat
      <4>1. transfer[c] \in Transfer /\ Sizes \cup {0} \subseteq Nat
        BY Constants DEF IInv, ThreadKinds
      <4> QED BY <4>1 DEF Transfer
    <3>7. arrived[c] = Source(c)
      BY <3>1, <3>5, <3>6, PartsCover DEF Has, MemoryOf, Source, Cells
    <3>8. /\ transfer'[c] = NewTransfer(0, HtoD, transfer[c].size) /\ peer'[c] = <<>> /\ copier'[c] = <<>>
          /\ arrived' = arrived
      BY DEF IInv, ThreadKinds, sync_returns, Put
    <3>9. transfer'[c].size = transfer[c].size
      BY <3>8 DEF NewTransfer
    <3>10. arrived'[c] = Source(c)'
      BY <3>7, <3>8, <3>9 DEF Source, Cells
    <3>11. \A k \in 1 .. Len(peer'[c]) : FALSE
      BY <3>8
    <3> QED BY <3>10, <3>11 DEF MovesOf, ToDevice, FromDevice
  <2> QED BY <1>s, <1>f, <2>1, SameStays DEF IInv, Moves
<1>9. Listed'
  <2>1. ASSUME NEW d \in Clients, Told(d)'
        PROVE  /\ d # c /\ Told(d) /\ id'[d] = id[d] /\ transfer'[d] = transfer[d] /\ id[d] \in Nat
               /\ id[d] < Len(list') /\ list'[id[d] + 1] = transfer[d].nr
    <3>1. d # c /\ Told(d) /\ id'[d] = id[d] /\ transfer'[d] = transfer[d] /\ id[d] \in Nat
      BY <1>d, <1>o, <1>s, <2>1 DEF IInv, StateKinds, Told, Same
    <3>2. id[d] < Len(list) /\ list[id[d] + 1] = transfer[d].nr /\ id[d] # id[c]
      BY <1>n, <3>1 DEF IInv, Listed, Told
    <3>3. id[d] < Len(list')
      BY <1>a, <1>l, <3>1, <3>2
    <3> QED BY <1>l, <3>1, <3>2, <3>3
  <2> QED BY <1>u, <2>1, Constants DEF IInv, Listed
<1>10. Counted'
  <2>1. Active' = Active \ {c} /\ c \in Active
    BY <1>d, <1>n, <1>o DEF Active
  <2>2. IsFiniteSet(Active') /\ Cardinality(Active') = Cardinality(Active) - 1
    BY <2>1, FS_RemoveElement DEF IInv, Counted
  <2>3. ~late' => ~late /\ Len(list') = Len(list) - 1
    BY <1>a, <1>r
  <2> QED BY <2>2, <2>3 DEF IInv, Counted
<1> QED BY <1>1, <1>2, <1>3, <1>4, <1>5, <1>6, <1>7, <1>8, <1>9, <1>10 DEF IInv

LEMMA Keep_listener_opens ==
  ASSUME IInv, NEW c \in Clients, listener_opens(c)
  PROVE  IInv'
<1>s. \A d \in Clients : d # c => Same(d)
  BY DEF IInv, StateKinds, ThreadKinds, Same, Put, listener_opens, serverVars
<1>f. "cuda" \in faults => "cuda" \in faults'
  BY DEF listener_opens, serverVars
<1>t. transfer' \in [Clients -> Transfer] /\ transfer'[c] = [transfer[c] EXCEPT !.port = TRUE]
  <2>1. transfer[c] \in Transfer
    BY DEF IInv, ThreadKinds
  <2>2. [transfer[c] EXCEPT !.port = TRUE] \in Transfer
    BY <2>1 DEF Transfer
  <2>3. transfer' = [transfer EXCEPT ![c] = [transfer[c] EXCEPT !.port = TRUE]]
    BY DEF listener_opens
  <2> QED BY <2>2, <2>3 DEF IInv, ThreadKinds
<1>n. /\ transfer'[c].nr = transfer[c].nr /\ transfer'[c].dir = transfer[c].dir
      /\ transfer'[c].size = transfer[c].size
      /\ transfer'[c].mem = transfer[c].mem /\ transfer'[c].port
  <2>1. transfer[c] \in Transfer
    BY DEF IInv, ThreadKinds
  <2> QED BY <1>t, <2>1 DEF Transfer
<1>1. StateKinds'
  BY DEF IInv, StateKinds, Listeners, Put, listener_opens, serverVars
<1>2. Flags' /\ ListKinds' /\ MemoryKinds'
  BY DEF IInv, Flags, listener_opens, serverVars, ListKinds, MemoryKinds, MemoryOf, Cells
<1>3. ThreadKinds'
  BY <1>t DEF IInv, ThreadKinds, listener_opens, serverVars
<1>4. Phases'
  BY DEF IInv, ThreadKinds, Phases, Put, listener_opens, serverVars
<1>5. Peers'
  <2>1. PeersOf(c)'
    BY DEF IInv, Peers, PeersOf, Put, listener_opens
  <2> QED BY <1>s, <2>1, SameStays DEF IInv, Peers
<1>6. Moves'
  <2>1. "cuda" \notin faults' => MovesOf(c)'
    BY DEF IInv, Phases, Moves, MovesOf, ToDevice, FromDevice, Asks, listener_opens
  <2> QED BY <1>s, <1>f, <2>1, SameStays DEF IInv, Moves
<1>7. Listed'
  <2>1. \A d \in Clients : transfer'[d].nr = transfer[d].nr
    BY <1>n, <1>s DEF Same
  <2>2. UNCHANGED <<caller, id, list, rpc>>
    BY DEF listener_opens, serverVars
  <2> QED BY <2>1, <2>2 DEF IInv, Listed, Told
<1>8. Counted'
  BY DEF IInv, StateKinds, Counted, Active, Put, listener_opens, serverVars
<1> QED BY <1>1, <1>2, <1>3, <1>4, <1>5, <1>6, <1>7, <1>8 DEF IInv

LEMMA Keep_listener_fails ==
  ASSUME IInv, NEW c \in Clients, listener_fails(c)
  PROVE  IInv'
<1>s. \A d \in Clients : d # c => Same(d)
  BY DEF IInv, StateKinds, ThreadKinds, Same, Put, listener_fails, Fault, FaultKinds,
       serverVars
<1>f. "cuda" \in faults => "cuda" \in faults'
  BY DEF listener_fails, Fault, FaultKinds, serverVars
<1>1. StateKinds'
  BY DEF IInv, StateKinds, Listeners, Put, listener_fails, Fault, serverVars
<1>2. Flags' /\ ListKinds' /\ ThreadKinds' /\ MemoryKinds' /\ Phases' /\ Listed'
  BY DEF IInv, Flags, listener_fails, serverVars, ListKinds, ThreadKinds, MemoryKinds,
       MemoryOf, Cells, Phases, Put, Listed, Told
<1>3. Peers'
  <2>1. PeersOf(c)'
    BY DEF IInv, Peers, PeersOf, Put, listener_fails
  <2> QED BY <1>s, <2>1, SameStays DEF IInv, Peers
<1>4. Moves'
  <2>1. "cuda" \notin faults' => MovesOf(c)'
    BY DEF IInv, Phases, Moves, MovesOf, ToDevice, FromDevice, Asks, listener_fails, Fault
  <2> QED BY <1>s, <1>f, <2>1, SameStays DEF IInv, Moves
<1>5. Counted'
  BY DEF IInv, StateKinds, Counted, Active, Put, listener_fails, serverVars
<1> QED BY <1>1, <1>2, <1>3, <1>4, <1>5 DEF IInv

LEMMA Keep_listener_accepts ==
  ASSUME IInv, NEW c \in Clients, NEW i \in Thread, listener_accepts(c, i)
  PROVE  IInv'
<1>s. \A d \in Clients : d # c => Same(d)
  BY DEF IInv, StateKinds, ThreadKinds, Same, Put, listener_accepts, PutAt, serverVars
<1>f. "cuda" \in faults => "cuda" \in faults'
  BY DEF listener_accepts, PutAt, serverVars
<1>a. /\ peer[c] \in Seq(Thread) /\ copier[c] \in Seq(Copiers) /\ Len(peer[c]) \in Nat
      /\ Len(peer[c]) = Len(copier[c]) /\ Len(peer[c]) < Threads
  BY Constants DEF IInv, ThreadKinds, Peers, PeersOf, listener_accepts
<1>p. /\ peer'[c] = Append(peer[c], i) /\ copier'[c] = Append(copier[c], "waiting")
      /\ peer' \in [Clients -> Seq(Thread)] /\ copier' \in [Clients -> Seq(Copiers)]
      /\ sender' \in [Clients -> [Thread -> Senders]]
      /\ sender'[c][i] = "connected" /\ \A j \in Thread : j # i => sender'[c][j] = sender[c][j]
  BY DEF IInv, ThreadKinds, Senders, Copiers, listener_accepts, Put, PutAt
<1>l. /\ Len(peer'[c]) = Len(peer[c]) + 1 /\ Len(copier'[c]) = Len(peer'[c])
      /\ \A k \in 1 .. Len(peer[c]) : peer'[c][k] = peer[c][k] /\ copier'[c][k] = copier[c][k]
      /\ peer'[c][Len(peer[c]) + 1] = i /\ copier'[c][Len(peer[c]) + 1] = "waiting"
  BY <1>a, <1>p
<1>m. Len(peer'[c]) <= Threads
  BY <1>a, <1>l, Constants
<1>n. /\ listener'[c] = IF Len(peer'[c]) = Threads THEN "join" ELSE "accept"
      /\ listener' \in [Clients -> Listeners]
  BY DEF IInv, StateKinds, Listeners, listener_accepts, Put
<1>u. /\ UNCHANGED <<caller, id, rpc, transfer, staged, arrived, crashed, copies, faults>>
      /\ listener[c] = "accept" /\ sender[c][i] = "start"
  BY DEF listener_accepts, serverVars
<1>w. caller[c] = "transfer"
  <2>1. caller[c] \notin {"idle", "done", "init"}
    BY <1>u DEF IInv, Phases, Asks
  <2>2. caller[c] \notin {"connect", "joining"}
    BY <1>u DEF IInv, Peers, PeersOf
  <2> QED BY <2>1, <2>2 DEF IInv, StateKinds, Callers
<1>1. StateKinds'
  BY DEF IInv, StateKinds, Listeners, Put, listener_accepts, serverVars
<1>2. Flags' /\ ListKinds' /\ MemoryKinds' /\ Listed'
  BY DEF IInv, Flags, listener_accepts, serverVars, ListKinds, MemoryKinds, MemoryOf, Cells,
       Listed, Told
<1>3. ThreadKinds'
  <2>1. \A d \in Clients : Len(peer'[d]) = Len(copier'[d]) /\ Len(peer'[d]) <= Threads
    BY <1>l, <1>m, <1>s DEF IInv, ThreadKinds, Same
  <2> QED BY <1>p, <1>u, <2>1 DEF IInv, ThreadKinds
<1>4. Phases'
  <2>1. \A d \in Clients : d # c => listener'[d] = listener[d]
    BY <1>s DEF Same
  <2> QED BY <1>n, <1>u, <1>w, <2>1 DEF IInv, Phases, Asks
<1>5. Peers'
  <2>1. PeersOf(c)'
    <3>1. \A k \in 1 .. Len(peer[c]) : peer[c][k] # i /\ peer[c][k] \in Thread
      BY <1>a, <1>u DEF IInv, Peers, PeersOf
    <3>2. \A k \in 1 .. Len(peer'[c]) : k = Len(peer[c]) + 1 \/ k \in 1 .. Len(peer[c])
      BY <1>a, <1>l
    <3>3. \A k, l \in 1 .. Len(peer'[c]) : peer'[c][k] = peer'[c][l] => k = l
      BY <1>l, <3>1, <3>2, SMTT(30) DEF IInv, Peers, PeersOf
    <3>4. \A k \in 1 .. Len(peer'[c]) : sender'[c][peer'[c][k]] \in {"connected", "ended"}
      <4>1. \A k \in 1 .. Len(peer[c]) : sender'[c][peer[c][k]] = sender[c][peer[c][k]]
        BY <1>p, <3>1
      <4>2. \A k \in 1 .. Len(peer[c]) : sender[c][peer[c][k]] \in {"connected", "ended"}
        BY DEF IInv, Peers, PeersOf
      <4>3. sender'[c][peer'[c][Len(peer[c]) + 1]] = "connected"
        BY <1>l, <1>p
      <4> QED BY <1>l, <3>2, <4>1, <4>2, <4>3
    <3> QED BY <1>a, <1>l, <1>m, <1>n, <1>u, <1>w, <3>3, <3>4, Constants DEF PeersOf
  <2> QED BY <1>s, <2>1, SameStays DEF IInv, Peers
<1>6. Moves'
  <2>1. "cuda" \notin faults' => MovesOf(c)'
    <3>1. \A k \in 1 .. Len(peer'[c]) : k = Len(peer[c]) + 1 \/ k \in 1 .. Len(peer[c])
      BY <1>a, <1>l
    <3>2. \A k \in 1 .. Len(peer[c]) : sender'[c][peer[c][k]] = "ended" => sender[c][peer[c][k]] = "ended"
      <4>1. \A k \in 1 .. Len(peer[c]) : peer[c][k] \in Thread
        BY <1>a
      <4> QED BY <1>p, <4>1
    <3> QED BY <1>a, <1>l, <1>p, <1>u, <1>w, <3>1, <3>2 DEF IInv, Moves, MovesOf, ToDevice,
         FromDevice
  <2> QED BY <1>s, <1>f, <2>1, SameStays DEF IInv, Moves
<1>7. Counted'
  BY DEF IInv, StateKinds, Counted, Active, Put, listener_accepts, serverVars
<1> QED BY <1>1, <1>2, <1>3, <1>4, <1>5, <1>6, <1>7 DEF IInv

LEMMA Keep_listener_joins ==
  ASSUME IInv, NEW c \in Clients, listener_joins(c)
  PROVE  IInv'
<1>s. \A d \in Clients : d # c => Same(d)
  BY DEF IInv, StateKinds, ThreadKinds, Same, Put, listener_joins, serverVars
<1>f. "cuda" \in faults => "cuda" \in faults'
  BY DEF listener_joins, serverVars
<1>t. transfer' \in [Clients -> Transfer] /\ transfer'[c] = [transfer[c] EXCEPT !.mem = "freed", !.port = FALSE]
  <2>1. transfer[c] \in Transfer
    BY DEF IInv, ThreadKinds
  <2>2. [transfer[c] EXCEPT !.mem = "freed", !.port = FALSE] \in Transfer
    BY <2>1 DEF Transfer
  <2>3. transfer' = [transfer EXCEPT ![c] = [transfer[c] EXCEPT !.mem = "freed", !.port = FALSE]]
    BY DEF listener_joins
  <2> QED BY <2>2, <2>3 DEF IInv, ThreadKinds
<1>n. /\ transfer'[c].nr = transfer[c].nr /\ transfer'[c].dir = transfer[c].dir
      /\ transfer'[c].size = transfer[c].size
  <2>1. transfer[c] \in Transfer
    BY DEF IInv, ThreadKinds
  <2> QED BY <1>t, <2>1 DEF Transfer
<1>1. StateKinds'
  BY DEF IInv, StateKinds, Listeners, Put, listener_joins, serverVars
<1>2. Flags' /\ ListKinds'
  BY DEF IInv, Flags, listener_joins, serverVars, ListKinds
<1>3. ThreadKinds'
  BY <1>t DEF IInv, ThreadKinds, listener_joins, serverVars
<1>4. MemoryKinds'
  <2>1. MemoryOf(c)'
    BY DEF IInv, ThreadKinds, MemoryKinds, MemoryOf, Cells, listener_joins
  <2> QED BY <1>s, <2>1, SameStays DEF IInv, MemoryKinds
<1>5. Phases'
  BY DEF IInv, StateKinds, ThreadKinds, Phases, Put, listener_joins, serverVars
<1>6. Peers'
  <2>1. PeersOf(c)'
    BY DEF IInv, Peers, PeersOf, Finished, Put, listener_joins
  <2> QED BY <1>s, <2>1, SameStays DEF IInv, Peers
<1>7. Moves'
  <2>1. "cuda" \notin faults' => MovesOf(c)'
    BY DEF IInv, ThreadKinds, MemoryKinds, MemoryOf, Peers, PeersOf, Moves, MovesOf,
         ToDevice, FromDevice, Source, Cells, Put, listener_joins
  <2> QED BY <1>s, <1>f, <2>1, SameStays DEF IInv, Moves
<1>8. Listed'
  <2>1. \A d \in Clients : transfer'[d].nr = transfer[d].nr
    BY <1>n, <1>s DEF Same
  <2>2. UNCHANGED <<caller, id, list, rpc>>
    BY DEF listener_joins, serverVars
  <2> QED BY <2>1, <2>2 DEF IInv, Listed, Told
<1>9. Counted'
  BY DEF IInv, StateKinds, Counted, Active, Put, listener_joins, serverVars
<1> QED BY <1>1, <1>2, <1>3, <1>4, <1>5, <1>6, <1>7, <1>8, <1>9 DEF IInv

LEMMA Keep_copy_thread_receives ==
  ASSUME IInv, NEW c \in Clients, NEW k \in DOMAIN copier[c], copy_thread_receives(c, k)
  PROVE  IInv'
<1>s. \A d \in Clients : d # c => Same(d)
  BY DEF IInv, StateKinds, ThreadKinds, Same, Put, copy_thread_receives, CopierStep, PutAt,
       serverVars
<1>f. "cuda" \in faults => "cuda" \in faults'
  BY DEF copy_thread_receives, CopierStep, PutAt, serverVars
<1>k. /\ k \in 1 .. Len(peer[c]) /\ k - 1 \in Thread /\ peer[c][k] \in Thread
      /\ SentNumber(c, k) \in Thread
      /\ caller[c] \notin Asks /\ listener[c] # "ended" /\ copier[c][k] = "waiting"
      /\ copier' \in [Clients -> Seq(Copiers)] /\ Len(copier'[c]) = Len(copier[c])
      /\ \A l \in 1 .. Len(peer[c]) : copier'[c][l] = IF l = k THEN "staged" ELSE copier[c][l]
  BY CopierMoves DEF copy_thread_receives, Copiers
<1>u. UNCHANGED <<caller, id, rpc, list, room, moved, late, transfer, listener, peer, sender, crashed, copies>>
  BY DEF copy_thread_receives, CopierStep, serverVars
<1>v. UNCHANGED arrived
  BY DEF copy_thread_receives
<1>m. MemoryOf(c) /\ MemoryOf(c)' <=> /\ MemoryOf(c) /\ staged'[c] \in [Cells(c) -> Cells(c) \cup {Nothing}]
  BY <1>u, <1>v DEF MemoryOf, Cells
<1>b. /\ staged'[c] \in [Cells(c) -> Cells(c) \cup {Nothing}]
      /\ Fills(staged'[c], staged[c], Source(c), SentNumber(c, k), transfer[c].size)
  <2>1. staged'[c] = Brought(c, k, staged[c], Source(c))
    BY DEF IInv, StateKinds, copy_thread_receives, Put
  <2>2. staged[c] \in [Cells(c) -> Cells(c) \cup {Nothing}] /\ Source(c) \in [Cells(c) -> Cells(c) \cup {Nothing}]
    BY SourceIsMemory DEF IInv, MemoryKinds, MemoryOf
  <2>3. /\ DOMAIN staged'[c] = Cells(c)
        /\ Fills(staged'[c], staged[c], Source(c), SentNumber(c, k), transfer[c].size)
    BY <1>k, <2>1, <2>2, BroughtFills DEF IInv, ThreadKinds
  <2>4. staged'[c] = [x \in DOMAIN staged'[c] |-> staged'[c][x]]
    BY <2>1 DEF Brought
  <2> QED BY <2>2, <2>3, <2>4, FilledIsMemory
<1>1. StateKinds' /\ Flags' /\ ListKinds' /\ Phases' /\ Listed' /\ Counted'
  BY DEF IInv, StateKinds, Put, copy_thread_receives, CopierStep, serverVars, Flags,
       ListKinds, Phases, Listed, Told, Counted, Active
<1>2. ThreadKinds'
  BY <1>k, <1>u, <1>s DEF IInv, ThreadKinds, Same
<1>3. MemoryKinds'
  <2>1. MemoryOf(c)'
    BY <1>b, <1>m DEF IInv, MemoryKinds
  <2> QED BY <1>s, <2>1, SameStays DEF IInv, MemoryKinds
<1>4. Peers'
  <2>1. PeersOf(c)'
    BY <1>k, <1>u, Constants, SMTT(30) DEF IInv, ThreadKinds, PeersOf, Peers, Finished, Asks
  <2> QED BY <1>s, <2>1, SameStays DEF IInv, Peers
<1>5. Moves'
  <2>1. "cuda" \notin faults' => MovesOf(c)'
    <3> SUFFICES ASSUME "cuda" \notin faults' PROVE MovesOf(c)'
      OBVIOUS
    <3>1. MovesOf(c) /\ transfer[c].dir = HtoD /\ ToDevice(c)
      BY <1>f, Constants DEF IInv, Moves, MovesOf, copy_thread_receives
    <3>2. \A l \in 1 .. Len(peer[c]) : copier'[c][l] # "failed"
      BY <1>k, <3>1 DEF MovesOf
    <3>3. ToDevice(c)'
      <4>1. Has(staged'[c], peer[c][k], transfer[c].size)
            /\ \A j : Has(staged[c], j, transfer[c].size) => Has(staged'[c], j, transfer[c].size)
        BY <1>b, <3>1, SourceIsMemory, FilledHas DEF SentNumber
      <4> QED BY <1>k, <1>u, <1>v, <3>1, <4>1 DEF ToDevice
    <3> QED BY <1>k, <1>u, <3>1, <3>2, <3>3, Constants DEF MovesOf, Asks
  <2> QED BY <1>s, <1>f, <2>1, SameStays DEF IInv, Moves
<1> QED BY <1>1, <1>2, <1>3, <1>4, <1>5 DEF IInv

LEMMA Keep_copy_thread_stores ==
  ASSUME IInv, NEW c \in Clients, NEW k \in DOMAIN copier[c], copy_thread_stores(c, k)
  PROVE  IInv'
<1>s. \A d \in Clients : d # c => Same(d)
  BY DEF IInv, StateKinds, ThreadKinds, Same, Put, copy_thread_stores, CopierStep, PutAt,
       serverVars
<1>f. "cuda" \in faults => "cuda" \in faults'
  BY DEF copy_thread_stores, CopierStep, PutAt, serverVars
<1>k. /\ k \in 1 .. Len(peer[c]) /\ k - 1 \in Thread /\ peer[c][k] \in Thread
      /\ SentNumber(c, k) \in Thread
      /\ caller[c] \notin Asks /\ listener[c] # "ended" /\ copier[c][k] = "staged"
      /\ copier' \in [Clients -> Seq(Copiers)] /\ Len(copier'[c]) = Len(copier[c])
      /\ \A l \in 1 .. Len(peer[c]) : copier'[c][l] = IF l = k THEN "ended" ELSE copier[c][l]
  BY CopierMoves DEF copy_thread_stores, Copiers
<1>u. UNCHANGED <<caller, id, rpc, list, room, moved, late, transfer, listener, peer, sender, crashed, copies>>
  BY DEF copy_thread_stores, CopierStep, serverVars
<1>v. UNCHANGED staged
  BY DEF copy_thread_stores
<1>m. MemoryOf(c) /\ MemoryOf(c)' <=> /\ MemoryOf(c) /\ arrived'[c] \in [Cells(c) -> Cells(c) \cup {Nothing}]
  BY <1>u, <1>v DEF MemoryOf, Cells
<1>b. /\ arrived'[c] \in [Cells(c) -> Cells(c) \cup {Nothing}]
      /\ Fills(arrived'[c], arrived[c], staged[c], SentNumber(c, k), transfer[c].size)
  <2>1. arrived'[c] = Copied(c, k, arrived[c], staged[c])
    BY DEF IInv, StateKinds, copy_thread_stores, Put
  <2>2. arrived[c] \in [Cells(c) -> Cells(c) \cup {Nothing}] /\ staged[c] \in [Cells(c) -> Cells(c) \cup {Nothing}]
    BY SourceIsMemory DEF IInv, MemoryKinds, MemoryOf
  <2>3. /\ DOMAIN arrived'[c] = Cells(c)
        /\ Fills(arrived'[c], arrived[c], staged[c], SentNumber(c, k), transfer[c].size)
    BY <1>k, <2>1, <2>2, CopiedFills DEF IInv, ThreadKinds
  <2>4. arrived'[c] = [x \in DOMAIN arrived'[c] |-> arrived'[c][x]]
    BY <2>1 DEF Copied
  <2> QED BY <2>2, <2>3, <2>4, FilledIsMemory
<1>1. StateKinds' /\ Flags' /\ ListKinds' /\ Phases' /\ Listed' /\ Counted'
  BY DEF IInv, StateKinds, Put, copy_thread_stores, CopierStep, serverVars, Flags, ListKinds,
       Phases, Listed, Told, Counted, Active
<1>2. ThreadKinds'
  BY <1>k, <1>u, <1>s DEF IInv, ThreadKinds, Same
<1>3. MemoryKinds'
  <2>1. MemoryOf(c)'
    BY <1>b, <1>m DEF IInv, MemoryKinds
  <2> QED BY <1>s, <2>1, SameStays DEF IInv, MemoryKinds
<1>4. Peers'
  <2>1. PeersOf(c)'
    BY <1>k, <1>u, Constants, SMTT(30) DEF IInv, ThreadKinds, PeersOf, Peers, Finished, Asks
  <2> QED BY <1>s, <2>1, SameStays DEF IInv, Peers
<1>5. Moves'
  <2>1. "cuda" \notin faults' => MovesOf(c)'
    <3> SUFFICES ASSUME "cuda" \notin faults' PROVE MovesOf(c)'
      OBVIOUS
    <3>1. MovesOf(c) /\ transfer[c].dir = HtoD /\ ToDevice(c)
      BY <1>f, Constants DEF IInv, Moves, MovesOf, copy_thread_stores
    <3>2. \A l \in 1 .. Len(peer[c]) : copier'[c][l] # "failed"
      BY <1>k, <3>1 DEF MovesOf
    <3>3. ToDevice(c)'
      <4>1. Has(arrived'[c], peer[c][k], transfer[c].size)
            /\ \A j : Has(arrived[c], j, transfer[c].size) => Has(arrived'[c], j, transfer[c].size)
        BY <1>b, <1>k, <3>1, FilledHas DEF SentNumber, ToDevice
      <4> QED BY <1>k, <1>u, <1>v, <3>1, <4>1 DEF ToDevice
    <3> QED BY <1>k, <1>u, <3>1, <3>2, <3>3, Constants DEF MovesOf, Asks
  <2> QED BY <1>s, <1>f, <2>1, SameStays DEF IInv, Moves
<1> QED BY <1>1, <1>2, <1>3, <1>4, <1>5 DEF IInv

LEMMA Keep_copy_thread_loads ==
  ASSUME IInv, NEW c \in Clients, NEW k \in DOMAIN copier[c], copy_thread_loads(c, k)
  PROVE  IInv'
<1>s. \A d \in Clients : d # c => Same(d)
  BY DEF IInv, StateKinds, ThreadKinds, Same, Put, copy_thread_loads, CopierStep, PutAt,
       serverVars
<1>f. "cuda" \in faults => "cuda" \in faults'
  BY DEF copy_thread_loads, CopierStep, PutAt, serverVars
<1>k. /\ k \in 1 .. Len(peer[c]) /\ k - 1 \in Thread /\ peer[c][k] \in Thread
      /\ SentNumber(c, k) \in Thread
      /\ caller[c] \notin Asks /\ listener[c] # "ended" /\ copier[c][k] = "waiting"
      /\ copier' \in [Clients -> Seq(Copiers)] /\ Len(copier'[c]) = Len(copier[c])
      /\ \A l \in 1 .. Len(peer[c]) : copier'[c][l] = IF l = k THEN "staged" ELSE copier[c][l]
  BY CopierMoves DEF copy_thread_loads, Copiers
<1>u. UNCHANGED <<caller, id, rpc, list, room, moved, late, transfer, listener, peer, sender, crashed, copies>>
  BY DEF copy_thread_loads, CopierStep, serverVars
<1>v. UNCHANGED arrived
  BY DEF copy_thread_loads
<1>m. MemoryOf(c) /\ MemoryOf(c)' <=> /\ MemoryOf(c) /\ staged'[c] \in [Cells(c) -> Cells(c) \cup {Nothing}]
  BY <1>u, <1>v DEF MemoryOf, Cells
<1>b. /\ staged'[c] \in [Cells(c) -> Cells(c) \cup {Nothing}]
      /\ Fills(staged'[c], staged[c], Source(c), SentNumber(c, k), transfer[c].size)
  <2>1. /\ staged[c] \in [Cells(c) -> Cells(c) \cup {Nothing}] /\ DOMAIN staged = Clients
        /\ staged' = Put(staged, c, [x \in Cells(c) |->
             IF x \in Part(SentNumber(c, k), transfer[c].size) THEN x ELSE staged[c][x]])
    BY DEF IInv, StateKinds, MemoryKinds, MemoryOf, copy_thread_loads
  <2> QED BY <2>1 DEF Put, Fills, Source, Cells
<1>1. StateKinds' /\ Flags' /\ ListKinds' /\ Phases' /\ Listed' /\ Counted'
  BY DEF IInv, StateKinds, Put, copy_thread_loads, CopierStep, serverVars, Flags, ListKinds,
       Phases, Listed, Told, Counted, Active
<1>2. ThreadKinds'
  BY <1>k, <1>u, <1>s DEF IInv, ThreadKinds, Same
<1>3. MemoryKinds'
  <2>1. MemoryOf(c)'
    BY <1>b, <1>m DEF IInv, MemoryKinds
  <2> QED BY <1>s, <2>1, SameStays DEF IInv, MemoryKinds
<1>4. Peers'
  <2>1. PeersOf(c)'
    BY <1>k, <1>u, Constants, SMTT(30) DEF IInv, ThreadKinds, PeersOf, Peers, Finished, Asks
  <2> QED BY <1>s, <2>1, SameStays DEF IInv, Peers
<1>5. Moves'
  <2>1. "cuda" \notin faults' => MovesOf(c)'
    <3> SUFFICES ASSUME "cuda" \notin faults' PROVE MovesOf(c)'
      OBVIOUS
    <3>1. MovesOf(c) /\ transfer[c].dir = DtoH /\ FromDevice(c)
      BY <1>f, Constants DEF IInv, Moves, MovesOf, copy_thread_loads
    <3>2. \A l \in 1 .. Len(peer[c]) : copier'[c][l] # "failed"
      BY <1>k, <3>1 DEF MovesOf
    <3>3. FromDevice(c)'
      <4>1. Has(staged'[c], k - 1, transfer[c].size)
            /\ \A j : Has(staged[c], j, transfer[c].size) => Has(staged'[c], j, transfer[c].size)
        BY <1>b, <3>1, SourceIsMemory, FilledHas, Constants DEF SentNumber
      <4> QED BY <1>k, <1>u, <1>v, <3>1, <4>1 DEF FromDevice
    <3> QED BY <1>k, <1>u, <3>1, <3>2, <3>3, Constants DEF MovesOf, Asks
  <2> QED BY <1>s, <1>f, <2>1, SameStays DEF IInv, Moves
<1> QED BY <1>1, <1>2, <1>3, <1>4, <1>5 DEF IInv

LEMMA Keep_copy_thread_sends ==
  ASSUME IInv, NEW c \in Clients, NEW k \in DOMAIN copier[c], copy_thread_sends(c, k)
  PROVE  IInv'
<1>s. \A d \in Clients : d # c => Same(d)
  BY DEF IInv, StateKinds, ThreadKinds, Same, Put, copy_thread_sends, CopierStep, PutAt,
       serverVars
<1>f. "cuda" \in faults => "cuda" \in faults'
  BY DEF copy_thread_sends, CopierStep, PutAt, serverVars
<1>k. /\ k \in 1 .. Len(peer[c]) /\ k - 1 \in Thread /\ peer[c][k] \in Thread
      /\ SentNumber(c, k) \in Thread
      /\ caller[c] \notin Asks /\ listener[c] # "ended" /\ copier[c][k] = "staged"
      /\ copier' \in [Clients -> Seq(Copiers)] /\ Len(copier'[c]) = Len(copier[c])
      /\ \A l \in 1 .. Len(peer[c]) : copier'[c][l] = IF l = k THEN "ended" ELSE copier[c][l]
  BY CopierMoves DEF copy_thread_sends, Copiers
<1>u. UNCHANGED <<caller, id, rpc, list, room, moved, late, transfer, listener, peer, sender, crashed, copies>>
  BY DEF copy_thread_sends, CopierStep, serverVars
<1>1. StateKinds' /\ Flags' /\ ListKinds' /\ MemoryKinds' /\ Phases' /\ Listed' /\ Counted'
  BY DEF IInv, StateKinds, copy_thread_sends, CopierStep, serverVars, Flags, ListKinds,
       MemoryKinds, MemoryOf, Cells, Phases, Listed, Told, Counted, Active
<1>2. ThreadKinds'
  BY <1>k, <1>u, <1>s DEF IInv, ThreadKinds, Same
<1>3. Peers'
  <2>1. PeersOf(c)'
    BY <1>k, <1>u, Constants, SMTT(30) DEF IInv, ThreadKinds, PeersOf, Peers, Finished, Asks
  <2> QED BY <1>s, <2>1, SameStays DEF IInv, Peers
<1>4. Moves'
  <2>1. "cuda" \notin faults' => MovesOf(c)'
    <3> SUFFICES ASSUME "cuda" \notin faults' PROVE MovesOf(c)'
      OBVIOUS
    <3>1. MovesOf(c) /\ transfer[c].dir = DtoH /\ FromDevice(c)
      BY <1>f, Constants DEF IInv, Moves, MovesOf, copy_thread_sends
    <3>2. \A l \in 1 .. Len(peer[c]) : copier'[c][l] # "failed"
      BY <1>k, <3>1 DEF MovesOf
    <3>3. FromDevice(c)'
      BY <1>k, <1>u, <3>1 DEF FromDevice, copy_thread_sends
    <3> QED BY <1>k, <1>u, <3>1, <3>2, <3>3, Constants DEF MovesOf, Asks
  <2> QED BY <1>s, <1>f, <2>1, SameStays DEF IInv, Moves
<1> QED BY <1>1, <1>2, <1>3, <1>4 DEF IInv

LEMMA Keep_copy_thread_fails ==
  ASSUME IInv, NEW c \in Clients, NEW k \in DOMAIN copier[c], copy_thread_fails(c, k)
  PROVE  IInv'
<1>s. \A d \in Clients : d # c => Same(d)
  BY DEF IInv, StateKinds, ThreadKinds, Same, Put, copy_thread_fails, Fault, FaultKinds,
       CopierStep, PutAt, serverVars
<1>f. "cuda" \in faults => "cuda" \in faults'
  BY DEF copy_thread_fails, Fault, FaultKinds, CopierStep, PutAt, serverVars
<1>p. PICK from \in {"waiting", "staged"}, to \in {"ended", "failed"} : CopierStep(c, k, from, to)
  BY DEF copy_thread_fails
<1>k. /\ k \in 1 .. Len(peer[c])
      /\ caller[c] \notin Asks /\ listener[c] # "ended"
      /\ copier' \in [Clients -> Seq(Copiers)] /\ Len(copier'[c]) = Len(copier[c])
  BY <1>p, CopierMoves DEF Copiers
<1>u. UNCHANGED <<caller, id, rpc, list, room, moved, late, transfer, listener, peer, sender, crashed, copies>>
  BY <1>p DEF CopierStep, serverVars
<1>w. "cuda" \in faults'
  BY DEF copy_thread_fails, Fault
<1>1. StateKinds' /\ Flags' /\ ListKinds' /\ MemoryKinds' /\ Phases' /\ Counted'
  BY ZenonT(60) DEF IInv, StateKinds, copy_thread_fails, Fault, CopierStep, serverVars, Flags,
       ListKinds, MemoryKinds, MemoryOf, Cells, Phases, Counted, Active
<1>2. ThreadKinds'
  BY <1>k, <1>u, <1>s DEF IInv, ThreadKinds, Same
<1>3. Peers'
  <2>1. PeersOf(c)'
    BY <1>k, <1>u, Constants DEF IInv, ThreadKinds, PeersOf, Peers, Finished, Asks
  <2> QED BY <1>s, <2>1, SameStays DEF IInv, Peers
<1>4. Moves'
  <2>1. "cuda" \notin faults' => MovesOf(c)'
    BY <1>w
  <2> QED BY <1>s, <1>f, <2>1, SameStays DEF IInv, Moves
<1>5. Listed'
  BY <1>u DEF IInv, Listed, Told
<1> QED BY <1>1, <1>2, <1>3, <1>4, <1>5 DEF IInv

LEMMA Keep_dangling_pointer ==
  ASSUME IInv, NEW c \in Clients, dangling_pointer(c)
  PROVE  IInv'
<1>s. \A d \in Clients : d # c => Same(d)
  BY DEF IInv, StateKinds, ThreadKinds, Same, Put, dangling_pointer, Running, serverVars,
       threadVars
<1>f. "cuda" \in faults => "cuda" \in faults'
  BY DEF dangling_pointer, Running, serverVars, threadVars
<1>1. StateKinds' /\ Flags' /\ ListKinds' /\ ThreadKinds' /\ MemoryKinds' /\ Phases' /\ Listed' /\ Counted'
  BY DEF IInv, StateKinds, dangling_pointer, serverVars, threadVars, Flags, ListKinds,
       ThreadKinds, MemoryKinds, MemoryOf, Cells, Phases, Listed, Told, Counted, Active
<1>2. Peers'
  <2>1. PeersOf(c)'
    BY DEF IInv, Peers, PeersOf, dangling_pointer, Running, threadVars
  <2> QED BY <1>s, <2>1, SameStays DEF IInv, Peers
<1>3. Moves'
  <2>1. "cuda" \notin faults' => MovesOf(c)'
    BY DEF IInv, Phases, Moves, MovesOf, ToDevice, FromDevice, Asks, dangling_pointer,
         Running, threadVars
  <2> QED BY <1>s, <1>f, <2>1, SameStays DEF IInv, Moves
<1> QED BY <1>1, <1>2, <1>3 DEF IInv

-------------------------------------------------------------------------------

(* Initially, and in every step.                                           *)

LEMMA InitIInv == Init => IInv
<1> SUFFICES ASSUME Init PROVE IInv
  OBVIOUS
<1>1. NoTransfer \in Transfer /\ NoTransfer.size = 0 /\ NoTransfer.dir = HtoD
  BY DEF NoTransfer, NewTransfer, Transfer
<1>2. StateKinds /\ Flags
  BY DEF Init, StateKinds, Callers, Listeners, Flags
<1>3. ListKinds
  BY CapacityIsPositive DEF Init, ListKinds
<1>4. ThreadKinds
  BY <1>1, Constants DEF Init, ThreadKinds, Senders, Copiers, Idle
<1>5. MemoryKinds
  BY <1>1 DEF Init, MemoryKinds, MemoryOf, Cells, Empty
<1>6. Phases
  BY <1>1, Constants DEF Init, Phases, Asks
<1>7. Peers
  BY Constants DEF Init, Peers, PeersOf, Finished, Idle
<1>8. Moves
  <2>1. \A c \in Clients : peer[c] = <<>> /\ caller[c] = "idle"
    BY DEF Init
  <2> QED BY <2>1 DEF Moves, MovesOf, ToDevice, FromDevice
<1>9. Listed
  BY Constants DEF Init, Listed, Told
<1>10. Counted
  <2>1. Active = {}
    BY DEF Init, Active
  <2> QED BY <2>1, FS_EmptySet DEF Init, Counted
<1> QED BY <1>2, <1>3, <1>4, <1>5, <1>6, <1>7, <1>8, <1>9, <1>10 DEF IInv

LEMMA StutterIInv == IInv /\ UNCHANGED vars => IInv'
<1> SUFFICES ASSUME IInv, UNCHANGED vars PROVE IInv'
  OBVIOUS
<1>1. UNCHANGED <<caller, id, rpc, list, room, moved, late, transfer, listener, peer, copier,
                  sender, staged, arrived, crashed, copies, faults>>
  BY DEF vars, serverVars, threadVars
<1>2. \A d \in Clients : Same(d)
  BY <1>1 DEF Same
<1>3. (StateKinds /\ Flags /\ ListKinds /\ ThreadKinds)'
  BY <1>1 DEF IInv, StateKinds, Flags, ListKinds, ThreadKinds
<1>4. (MemoryKinds /\ Peers /\ Moves)'
  BY <1>1, <1>2, SameStays DEF IInv, MemoryKinds, Peers, Moves
<1>5. (Phases /\ Listed /\ Counted)'
  BY <1>1 DEF IInv, Phases, Listed, Told, Counted, Active
<1> QED BY <1>3, <1>4, <1>5 DEF IInv

LEMMA NextIInv == IInv /\ [Next]_vars => IInv'
<1> SUFFICES ASSUME IInv, Next PROVE IInv'
  BY StutterIInv
<1> PICK c \in Clients : \/ Calls(c) \/ ClientStep(c) \/ TakesCall(c) \/ RpcStep(c)
                         \/ ListenerStep(c) \/ CopyStep(c) \/ FaultStep(c)
  BY DEF Next
<1>1. CASE Calls(c)
  BY <1>1, Keep_cudaMemcpy DEF Calls
<1>2. CASE ClientStep(c)
  BY <1>2, Keep_mt_memcpy_client, Keep_thread_sends, Keep_thread_receives DEF ClientStep
<1>3. CASE TakesCall(c)
  BY <1>3, Keep_mt_memcpy_init_server, Keep_cuda_memcpy_mt_sync DEF TakesCall
<1>4. CASE RpcStep(c)
  BY <1>4, Keep_init_allocates, Keep_pthread_barrier_wait, Keep_sync_returns DEF RpcStep
<1>5. CASE ListenerStep(c)
  BY <1>5, Keep_listener_opens, Keep_listener_joins, Keep_listener_accepts DEF ListenerStep
<1>6. CASE CopyStep(c)
  BY <1>6, Keep_copy_thread_receives, Keep_copy_thread_stores, Keep_copy_thread_loads,
     Keep_copy_thread_sends DEF CopyStep
<1>7. CASE FaultStep(c)
  BY <1>7, Keep_listener_fails, Keep_dangling_pointer, Keep_connect_fails,
       Keep_copy_thread_fails
     DEF FaultStep
<1> QED BY <1>1, <1>2, <1>3, <1>4, <1>5, <1>6, <1>7

(* The invariant holds in every state of every run.                        *)
THEOREM SpecIInv == Spec => []IInv
<1>1. Init => IInv
  BY InitIInv
<1>2. IInv /\ [Next]_vars => IInv'
  BY NextIInv
<1> QED BY <1>1, <1>2, PTL DEF Spec

(* Every part of the state is of its kind; no more connections than        *)
(* threads, and no more elements than the list has room for (list_append). *)
THEOREM TypeCorrect == Spec => []TypeOK
<1>1. IInv => TypeOK
  BY DEF IInv, StateKinds, Callers, Listeners, Flags, ListKinds, ThreadKinds, Copiers,
       Senders,
         MemoryKinds, MemoryOf, TypeOK
<1> QED BY <1>1, SpecIInv, PTL

(* When cudaMemcpy has returned, every cell is in its place, for any       *)
(* number of threads and any size (mt_memcpy_client, mt_memcpy_copy_thread,*)
(* cuda_memcpy_mt_sync_1_svc).                                             *)
THEOREM CopyAlwaysArrives == Spec => []CopyArrives
<1>1. IInv => CopyArrives
  BY DEF IInv, Moves, MovesOf, CopyArrives
<1> QED BY <1>1, SpecIInv, PTL

(* The memory of a transfer is there as long as one of its copy threads    *)
(* works, and the port a client is told is open (mt_memcpy_server_thread). *)
THEOREM MemoryOutlivesItsThreads == Spec => []ThreadsHaveTheirMemory
<1>1. IInv => ThreadsHaveTheirMemory
  <2> SUFFICES ASSUME IInv, NEW c \in Clients
               PROVE  /\ ~ Finished(c) => transfer[c].mem = "held"
                      /\ caller[c] = "connect" => transfer[c].port
    BY DEF ThreadsHaveTheirMemory
  <2>1. ~ Finished(c) => peer[c] # <<>> /\ listener[c] # "ended"
    BY DEF IInv, ThreadKinds, Finished, Peers, PeersOf
  <2>2. ~ Finished(c) => listener[c] \in {"accept", "join"}
    BY <2>1 DEF IInv, StateKinds, Listeners, Peers, PeersOf
  <2> QED BY <2>2 DEF IInv, Phases
<1> QED BY <1>1, SpecIInv, PTL

(* The index a client was told is its transfer's, in whatever order other  *)
(* transfers begin and are waited for (cuda_memcpy_mt_sync_1_svc).         *)
THEOREM RunningIsAlwaysListed == Spec => []RunningIsListed
<1>1. IInv => RunningIsListed
  BY DEF IInv, Listed, Told, RunningIsListed
<1> QED BY <1>1, SpecIInv, PTL

(* As long as the syncs come in the reverse order, no element stays in the *)
(* list (list_rm of the last element).                                     *)
THEOREM NothingIsEverLeft == Spec => []NothingIsLeftBehind
<1>1. IInv => NothingIsLeftBehind
  BY DEF IInv, Counted, Active, NothingIsLeftBehind
<1> QED BY <1>1, SpecIInv, PTL

==============================================================================
