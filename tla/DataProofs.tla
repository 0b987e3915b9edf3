----------------------------- MODULE DataProofs -------------------------------
(***************************************************************************)
(* Theorems about what becomes of data on its way: page-locked memory that *)
(* client and server share (HostMemory), the tensors of the Python half    *)
(* (TensorCodec), and fat binaries and the arguments of a launch           *)
(* (KernelLaunch).                                                         *)
(*                                                                         *)
(* HostMemory, for any number of clients and any size of the tables: index *)
(* and segment determine one another wherever the two are seen together,   *)
(* be it a linked name, an entry of the server or an entry of a client     *)
(* (OneSegment), because only an allocation makes a new pair, from the     *)
(* counter's value and a segment that nobody else knows.                   *)
(*                                                                         *)
(* TensorCodec, for every rank, shape, stride and storage: the products of *)
(* sizes that check_contiguous and the loop of the strided copy build up   *)
(* are the places of elements in row-major order, so all of them are sent, *)
(* in that order, and each is received where it was.                       *)
(*                                                                         *)
(* KernelLaunch, for every fat binary in nvcc's format and every layout of *)
(* parameters: the loop of decompress is always at a place of a token      *)
(* (Progress), and what it has written so far is what was compressed; the  *)
(* sections the walk has passed are known (Walk); and the arguments that   *)
(* have been translated lead where they should, the others are as they     *)
(* were packed (LaunchOK).                                                 *)
(***************************************************************************)
EXTENDS HostMemory, TensorCodec, KernelLaunch, SequenceTheorems, WellFoundedInduction, TLAPS

-------------------------------------------------------------------------------
(* What all of them rest on: induction over numbers, functions that are    *)
(* given by recursion, and numbers in rows.                                *)

LEMMA LeastOf ==
  ASSUME NEW T, T \subseteq Nat, T # {}
  PROVE  \E n \in T : \A m \in T : n <= m
<1> DEFINE R == OpToRel(<, Nat)
<1>1. IsWellFoundedOn(R, Nat)
  BY NatLessThanWellFounded
<1>2. \A m, n \in Nat : m < n => <<m, n>> \in R
  BY DEF OpToRel
<1> HIDE DEF R
<1>3. \E x \in T : \A y \in T : ~ (<<y, x>> \in R)
  BY <1>1, WFMin
<1>4. PICK x \in T : \A y \in T : ~ (<<y, x>> \in R)
  BY <1>3, Zenon
<1>5. \A y \in T : ~ (y < x)
  BY <1>2, <1>4, Zenon
<1> QED BY <1>5

LEMMA Upwards ==
  ASSUME NEW n \in Nat, NEW T, 1 \in T, \A j \in 1 .. n : j \in T => j + 1 \in T
  PROVE  \A j \in 1 .. n + 1 : j \in T
<1> DEFINE B == {j \in 1 .. n + 1 : j \notin T}
<1> SUFFICES ASSUME B # {} PROVE FALSE
  OBVIOUS
<1>1. PICK k \in B : \A m \in B : k <= m
  <2>1. B \subseteq Nat
    OBVIOUS
  <2> HIDE DEF B
  <2> QED BY <2>1, LeastOf, Zenon
<1>2. k \in 1 .. n + 1 /\ k \notin T /\ k # 1
  OBVIOUS
<1>3. k - 1 \in 1 .. n /\ (k - 1) + 1 = k
  BY <1>2
<1>4. k - 1 \in T
  BY <1>1, <1>2, <1>3
<1> QED BY <1>2, <1>3, <1>4

LEMMA Downwards ==
  ASSUME NEW n \in Nat, NEW T, n + 1 \in T, \A j \in 1 .. n : j + 1 \in T => j \in T
  PROVE  \A j \in 1 .. n + 1 : j \in T
<1> DEFINE U == {j \in 1 .. n + 1 : n + 2 - j \in T}
<1>1. 1 \in U
  OBVIOUS
<1>2. ASSUME NEW j \in 1 .. n, j \in U PROVE j + 1 \in U
  <2>1. n + 2 - j \in T /\ n + 1 - j \in 1 .. n /\ (n + 1 - j) + 1 = n + 2 - j
        /\ n + 2 - (j + 1) = n + 1 - j /\ j + 1 \in 1 .. n + 1
    BY <1>2
  <2> QED BY <2>1
<1> HIDE DEF U
<1>3. \A j \in 1 .. n + 1 : j \in U
  BY <1>1, <1>2, Upwards
<1>4. ASSUME NEW j \in 1 .. n + 1 PROVE j \in T
  <2>1. n + 2 - j \in 1 .. n + 1 /\ n + 2 - (n + 2 - j) = j
    OBVIOUS
  <2>2. n + 2 - j \in U
    BY <1>3, <2>1
  <2> QED BY <2>1, <2>2 DEF U
<1> QED BY <1>4

(* A function that step makes of its value at the next dimension. *)
Steps(f, n, step, base) ==
  /\ f \in [1 .. n + 1 -> Nat] /\ f[n + 1] = base
  /\ \A j \in 1 .. n : f[j] = step[j][f[j + 1]]

LEMMA StepsExist ==
  ASSUME NEW n \in Nat, NEW step \in [1 .. n -> [Nat -> Nat]], NEW base \in Nat
  PROVE  \E f : Steps(f, n, step, base)
<1> DEFINE Good(j, f) == /\ f \in [1 .. n + 1 -> Nat] /\ f[n + 1] = base
                         /\ \A k \in j .. n : f[k] = step[k][f[k + 1]]
           T == {j \in 1 .. n + 1 : \E f : Good(j, f)}
<1>1. n + 1 \in T
  <2> DEFINE f == [k \in 1 .. n + 1 |-> base]
  <2>1. Good(n + 1, f) /\ n + 1 \in 1 .. n + 1
    OBVIOUS
  <2> HIDE DEF Good, f
  <2> QED BY <2>1
<1>2. ASSUME NEW j \in 1 .. n, j + 1 \in T PROVE j \in T
  <2>1. PICK f : Good(j + 1, f)
    BY <1>2
  <2> DEFINE g == [f EXCEPT ![j] = step[j][f[j + 1]]]
  <2>2. j + 1 \in 1 .. n + 1 /\ j \in 1 .. n + 1 /\ j # n + 1
    OBVIOUS
  <2>6. f \in [1 .. n + 1 -> Nat] /\ f[n + 1] = base
    BY <2>1
  <2>7. step[j][f[j + 1]] \in Nat
    <3>1. f[j + 1] \in Nat /\ step[j] \in [Nat -> Nat]
      BY <2>2, <2>6
    <3> QED BY <3>1
  <2>3. g \in [1 .. n + 1 -> Nat] /\ g[n + 1] = base /\ g[j] = step[j][f[j + 1]]
        /\ \A k \in 1 .. n + 1 : k # j => g[k] = f[k]
    <3> DEFINE v == step[j][f[j + 1]]
    <3>1. g = [f EXCEPT ![j] = v] /\ v \in Nat
      BY <2>7
    <3>2. g[j] = v
      BY <2>2, <2>6
    <3> HIDE DEF v, g, Good
    <3>4. \A k \in 1 .. n + 1 : k # j => g[k] = f[k]
      BY <2>6, <3>1
    <3>5. n + 1 \in 1 .. n + 1
      OBVIOUS
    <3>6. g \in [1 .. n + 1 -> Nat]
      BY <2>6, <3>1
    <3>3. g \in [1 .. n + 1 -> Nat] /\ g[n + 1] = base
          /\ \A k \in 1 .. n + 1 : k # j => g[k] = f[k]
      BY <2>2, <2>6, <3>4, <3>5, <3>6
    <3> QED BY <3>2, <3>3 DEF v
  <2>4. ASSUME NEW k \in j .. n PROVE g[k] = step[k][g[k + 1]]
    <3>1. k + 1 \in 1 .. n + 1 /\ k + 1 # j /\ k \in 1 .. n + 1
      OBVIOUS
    <3>2. g[k + 1] = f[k + 1]
      BY <2>3, <3>1
    <3>3. CASE k = j
      BY <2>3, <3>2, <3>3
    <3>4. CASE k # j
      <4>1. k \in j + 1 .. n
        BY <3>4
      <4>2. f[k] = step[k][f[k + 1]]
        BY <2>1, <4>1
      <4> HIDE DEF g
      <4> QED BY <2>3, <3>1, <3>2, <3>4, <4>2
    <3> QED BY <3>3, <3>4
  <2>5. Good(j, g)
    BY <2>3, <2>4
  <2> HIDE DEF Good, g
  <2> QED BY <2>5
<1> HIDE DEF T
<1>3. 1 \in T
  <2>1. \A j \in 1 .. n + 1 : j \in T
    BY <1>1, <1>2, Downwards
  <2> QED BY <2>1
<1>4. PICK f : Good(1, f)
  BY <1>3 DEF T
<1>5. Steps(f, n, step, base)
  BY <1>4 DEF Steps
<1> QED BY <1>5

LEMMA Rows ==
  ASSUME NEW a \in Nat, NEW b \in Nat, NEW p \in Nat, NEW r \in Nat, a < b, r < p
  PROVE  a * p + r < b * p
<1> DEFINE c == b - a - 1
<1>1. c \in Nat /\ b = a + 1 + c
  OBVIOUS
<1>2. a * p \in Nat /\ c * p \in Nat /\ b * p \in Nat
  BY <1>1
<1> HIDE DEF c
<1>3. (a + 1 + c) * p = a * p + p + c * p
  BY <1>1
<1> QED BY <1>1, <1>2, <1>3

Row(a, p, r) == a * p + r

LEMMA RowsDiffer ==
  \A a, b, p, r, q \in Nat :
    r < p /\ q < p /\ Row(a, p, r) = Row(b, p, q) => a = b /\ r = q
<1> SUFFICES ASSUME NEW a \in Nat, NEW b \in Nat, NEW p \in Nat, NEW r \in Nat, NEW q \in Nat,
                    r < p, q < p, a * p + r = b * p + q
             PROVE  a = b /\ r = q
  BY DEF Row
<1>1. a * p \in Nat /\ b * p \in Nat
  OBVIOUS
<1>2. CASE a < b
  BY <1>1, <1>2, Rows
<1>3. CASE b < a
  BY <1>1, <1>3, Rows
<1>4. CASE a = b
  BY <1>1, <1>4
<1> QED BY <1>2, <1>3, <1>4

-------------------------------------------------------------------------------
(* Page-locked memory.                                                     *)

(* Index i and segment s go together somewhere.                            *)
Named(i, s) == linked[i] = s
Kept(i, s) == hainfo[i].segment = s
HeldAs(i, s) == \E c \in Clients : \E k \in Index : held[c][k] = [idx |-> i, segment |-> s]
Pair(i, s) == s # 0 /\ (Named(i, s) \/ Kept(i, s) \/ HeldAs(i, s))

Segments == 0 .. MaxSegments

PairsAreCreated == \A i \in Index, s \in Segments : Pair(i, s) => s <= segments

OneSegment ==
    \A i, j \in Index, s, t \in Segments : Pair(i, s) /\ Pair(j, t) => (i = j <=> s = t)

Gone(i) == socktype = "UNIX" /\ hainfo[i] = Cleared

ServerKeeps ==
    \A i \in Index :
        /\ i < hainfo_cnt => Gone(i) \/ (hainfo[i].idx = i /\ hainfo[i].segment # 0)
        /\ i >= hainfo_cnt => hainfo[i] = Cleared

HeldWasGiven == \A c \in Clients, k \in Index : Live(c, k) => held[c][k].idx < hainfo_cnt

OneHolder ==
    \A c, d \in Clients, k, m \in Index :
        Live(c, k) /\ Live(d, m) /\ held[c][k].idx = held[d][m].idx => c = d /\ k = m

Opening ==
    \A c \in Clients : At(c, "open") =>
        /\ call[c].index < hainfo_cnt
        /\ \A d \in Clients, k \in Index : Live(d, k) => held[d][k].idx # call[c].index
        /\ \A d \in Clients : At(d, "open") /\ call[d].index = call[c].index => c = d

Copying ==
    \A c \in Clients : At(c, "memcpy") =>
        /\ call[c].meant # 0
        /\ \E k \in Index : held[c][k] = [idx |-> call[c].index, segment |-> call[c].meant]

Room == \A c \in Clients : At(c, "host_alloc") \/ At(c, "open") => held_cnt[c] < Slots

IInv ==
    /\ TypeOK
    /\ PairsAreCreated
    /\ OneSegment
    /\ ServerKeeps
    /\ HeldWasGiven
    /\ OneHolder
    /\ Opening
    /\ Copying
    /\ Room
    /\ CopiesOwnMemory

-------------------------------------------------------------------------------
(* What no step but an allocation's first does: pairs only go.             *)
LEMMA FewerPairs ==
    ASSUME PairsAreCreated, OneSegment, segments \in Nat, segments' \in Nat,
           segments <= segments',
           \A i \in Index, s \in Segments : Pair(i, s)' => Pair(i, s)
    PROVE  PairsAreCreated' /\ OneSegment'
<1>1. PairsAreCreated'
  <2>1. SUFFICES ASSUME NEW i \in Index, NEW s \in Segments, Pair(i, s)' PROVE s <= segments'
    BY DEF PairsAreCreated
  <2>2. s <= segments
    BY <2>1 DEF PairsAreCreated
  <2> QED BY <2>2 DEF Segments
<1>2. OneSegment'
  BY DEF OneSegment
<1> QED BY <1>1, <1>2

(* An entry in use is a pair.                                              *)
LEMMA LivePairs ==
    ASSUME TypeOK, NEW c \in Clients, NEW k \in Index, Live(c, k)
    PROVE  /\ held[c][k].idx \in Index
           /\ held[c][k].segment \in Segments
           /\ held[c][k] = [idx |-> held[c][k].idx, segment |-> held[c][k].segment]
           /\ Pair(held[c][k].idx, held[c][k].segment)
<1>1. held[c][k] \in Entry
  BY DEF TypeOK
<1>2. held[c][k] = [idx |-> held[c][k].idx, segment |-> held[c][k].segment]
  BY <1>1 DEF Entry
<1> QED BY <1>1, <1>2 DEF Entry, Segments, Pair, HeldAs, Live

(* Steps that touch neither table and at most unlink names.                *)
LEMMA TablesStay ==
    ASSUME IInv, UNCHANGED <<socktype, server, held>>,
           \A i \in Index : linked'[i] \in {linked[i], 0}
    PROVE  PairsAreCreated' /\ OneSegment' /\ ServerKeeps' /\ HeldWasGiven' /\ OneHolder'
<1>1. \A i \in Index, s \in Segments : Pair(i, s)' => Pair(i, s)
  BY DEF Pair, Named, Kept, HeldAs, server
<1>2. segments \in Nat /\ segments' \in Nat /\ segments <= segments'
  BY SegmentsAssumption DEF IInv, TypeOK, server
<1>3. PairsAreCreated' /\ OneSegment'
  BY <1>1, <1>2, FewerPairs DEF IInv
<1>4. ServerKeeps'
  BY DEF IInv, ServerKeeps, Gone, server
<1>5. HeldWasGiven' /\ OneHolder'
  BY DEF IInv, HeldWasGiven, OneHolder, Live, server
<1> QED BY <1>3, <1>4, <1>5

(* Steps after which their client neither allocates nor copies.            *)
LEMMA CallEnds ==
    ASSUME IInv, NEW c \in Clients, NEW r, r.at \notin {"host_alloc", "open", "memcpy"},
           call' = [call EXCEPT ![c] = r],
           hainfo_cnt' \in Nat, hainfo_cnt <= hainfo_cnt',
           \A d \in Clients : d # c => held'[d] = held[d] /\ held_cnt'[d] = held_cnt[d],
           \A k \in Index : held'[c][k] \in {held[c][k], Cleared}
    PROVE  Opening' /\ Copying' /\ Room'
<1>1. \A d \in Clients : call'[d] = IF d = c THEN r ELSE call[d]
  BY DEF IInv, TypeOK
<1>2. \A d \in Clients, k \in Index :
          Live(d, k)' => Live(d, k) /\ held'[d][k] = held[d][k]
  BY DEF Live, Cleared
<1>3. \A d \in Clients : call[d].index \in Nat
  BY SlotsAssumption DEF IInv, TypeOK, Index
<1>4. hainfo_cnt \in Nat
  BY SlotsAssumption DEF IInv, TypeOK
<1>5. \A d \in Clients : At(d, "open")' => d # c /\ At(d, "open") /\ call'[d] = call[d]
  BY <1>1 DEF At
<1>6. Opening'
  <2>1. SUFFICES ASSUME NEW d \in Clients, At(d, "open")'
        PROVE  /\ call'[d].index < hainfo_cnt'
               /\ \A e \in Clients, k \in Index : Live(e, k)' => held'[e][k].idx # call'[d].index
               /\ \A e \in Clients : At(e, "open")' /\ call'[e].index = call'[d].index => d = e
    BY DEF Opening
  <2>2. At(d, "open") /\ call'[d] = call[d]
    BY <1>5, <2>1
  <2>3. call'[d].index < hainfo_cnt'
    <3>1. call[d].index < hainfo_cnt
      BY <2>2 DEF IInv, Opening
    <3> QED BY <3>1, <2>2, <1>3, <1>4
  <2>4. \A e \in Clients, k \in Index : Live(e, k)' => held'[e][k].idx # call'[d].index
    BY <2>2, <1>2 DEF IInv, Opening
  <2>5. \A e \in Clients : At(e, "open")' /\ call'[e].index = call'[d].index => d = e
    BY <2>2, <1>5 DEF IInv, Opening
  <2> QED BY <2>3, <2>4, <2>5
<1>7. Copying'
  <2>1. SUFFICES ASSUME NEW d \in Clients, At(d, "memcpy")'
        PROVE  /\ call'[d].meant # 0
               /\ \E k \in Index : held'[d][k] = [idx |-> call'[d].index, segment |-> call'[d].meant]
    BY DEF Copying
  <2>2. d # c /\ At(d, "memcpy") /\ call'[d] = call[d] /\ held'[d] = held[d]
    BY <1>1, <2>1 DEF At
  <2> QED BY <2>2 DEF IInv, Copying
<1>8. Room'
  <2>1. SUFFICES ASSUME NEW d \in Clients, At(d, "host_alloc")' \/ At(d, "open")'
        PROVE  held_cnt'[d] < Slots
    BY DEF Room
  <2>2. d # c /\ (At(d, "host_alloc") \/ At(d, "open")) /\ held_cnt'[d] = held_cnt[d]
    BY <1>1, <2>1 DEF At
  <2> QED BY <2>2 DEF IInv, Room
<1> QED BY <1>6, <1>7, <1>8

LEMMA InitIInv == Init => IInv
<1> SUFFICES ASSUME Init PROVE IInv
  OBVIOUS
<1>1. TypeOK
  BY SlotsAssumption, SegmentsAssumption
  DEF Init, TypeOK, Index, Entry, Cleared, Idle, Places
<1>2. \A i \in Index, s \in Segments : ~ Pair(i, s)
  <2>1. SUFFICES ASSUME NEW i \in Index, NEW s \in Segments, s # 0 PROVE ~ HeldAs(i, s)
    BY DEF Pair, Named, Kept, Init, Cleared
  <2>2. \A c \in Clients, k \in Index : held[c][k].segment = 0
    BY DEF Init, Cleared
  <2> QED BY <2>1, <2>2 DEF HeldAs
<1>3. PairsAreCreated /\ OneSegment
  BY <1>2 DEF PairsAreCreated, OneSegment
<1>4. ServerKeeps
  BY DEF Init, ServerKeeps, Index
<1>5. HeldWasGiven /\ OneHolder
  BY DEF Init, HeldWasGiven, OneHolder, Live, Cleared
<1>6. Opening /\ Copying /\ Room /\ CopiesOwnMemory
  BY DEF Init, Opening, Copying, Room, CopiesOwnMemory, At, Idle
<1> QED BY <1>1, <1>3, <1>4, <1>5, <1>6 DEF IInv

-------------------------------------------------------------------------------
(* One lemma for each kind of step.                                        *)

(* The steps that leave both tables alone and end outside an allocation.   *)
Quiet(c) ==
    \/ host_alloc_ftruncate_fails(c)
    \/ host_alloc_open_fails(c)
    \/ client_shm_open_fails(c)
    \/ client_mmap_fails(c)
    \/ cuda_host_alloc_regshm(c)
    \/ regshm_fails(c)
    \/ client_unlinks(c)
    \/ cudaMemcpyToSymbol(c)
    \/ cuda_memcpy_to_symbol_shm(c)

LEMMA QuietSteps ==
    ASSUME IInv, NEW c \in Clients, Quiet(c)
    PROVE  IInv'
<1>1. TypeOK'
  <2>1. UNCHANGED <<socktype, segments, hainfo, hainfo_cnt, held, held_cnt, copied>>
    BY DEF Quiet,
       host_alloc_ftruncate_fails, host_alloc_open_fails, client_shm_open_fails,
       client_mmap_fails, cuda_host_alloc_regshm, regshm_fails, client_unlinks, cudaMemcpyToSymbol,
       cuda_memcpy_to_symbol_shm, server, client
  <2>2. linked' \in [Index -> 0 .. MaxSegments]
    BY SegmentsAssumption DEF IInv, TypeOK, Quiet,
       host_alloc_ftruncate_fails, host_alloc_open_fails, client_shm_open_fails,
       client_mmap_fails, cuda_host_alloc_regshm, regshm_fails, client_unlinks, cudaMemcpyToSymbol,
       cuda_memcpy_to_symbol_shm
  <2>3. call' \in [Clients -> [at : Places, index : Index, meant : 0 .. MaxSegments]]
    <3>1. CASE Return(c)
      BY <3>1, SlotsAssumption, SegmentsAssumption DEF IInv, TypeOK, Return, Idle, Places, Index
    <3>2. CASE cuda_host_alloc_regshm(c) \/ regshm_fails(c)
      <4>1. call' = [call EXCEPT ![c] = [at |-> "unlink", index |-> call[c].index, meant |-> 0]]
        BY <3>2 DEF cuda_host_alloc_regshm, regshm_fails, Goto
      <4> QED BY <4>1, SegmentsAssumption DEF IInv, TypeOK, Places
    <3>3. CASE cudaMemcpyToSymbol(c)
      <4>1. PICK i \in 0 .. held_cnt[c] - 1 :
               held[c][i].segment # 0 /\ Goto(c, "to_symbol", i, held[c][i].segment)
        BY <3>3 DEF cudaMemcpyToSymbol
      <4>2. i \in Index
        BY SlotsAssumption DEF IInv, TypeOK, Index
      <4>3. held[c][i].segment \in Segments
        BY <4>1, <4>2, LivePairs DEF Live, IInv
      <4> QED BY <4>1, <4>2, <4>3 DEF IInv, TypeOK, Goto, Places, Segments
    <3> QED BY <3>1, <3>2, <3>3 DEF Quiet,
       host_alloc_ftruncate_fails, host_alloc_open_fails, client_shm_open_fails,
       client_mmap_fails, client_unlinks, cuda_memcpy_to_symbol_shm
  <2> QED BY <2>1, <2>2, <2>3 DEF IInv, TypeOK
<1>2. UNCHANGED <<socktype, server, held, held_cnt, copied>>
  BY DEF Quiet,
     host_alloc_ftruncate_fails, host_alloc_open_fails, client_shm_open_fails,
     client_mmap_fails, cuda_host_alloc_regshm, regshm_fails, client_unlinks, cudaMemcpyToSymbol,
     cuda_memcpy_to_symbol_shm, server, client
<1>3. \A i \in Index : linked'[i] \in {linked[i], 0}
  BY DEF IInv, TypeOK, Quiet,
     host_alloc_ftruncate_fails, host_alloc_open_fails, client_shm_open_fails,
     client_mmap_fails, cuda_host_alloc_regshm, regshm_fails, client_unlinks, cudaMemcpyToSymbol,
     cuda_memcpy_to_symbol_shm
<1>4. PairsAreCreated' /\ OneSegment' /\ ServerKeeps' /\ HeldWasGiven' /\ OneHolder'
  BY <1>2, <1>3, TablesStay
<1>5. PICK r : r.at \notin {"host_alloc", "open", "memcpy"} /\ call' = [call EXCEPT ![c] = r]
  <2>1. CASE Return(c)
    BY <2>1 DEF Return, Idle
  <2>2. CASE \E i, s : Goto(c, "unlink", i, s) \/ Goto(c, "to_symbol", i, s)
    BY <2>2 DEF Goto
  <2> QED BY <2>1, <2>2 DEF Quiet,
     host_alloc_ftruncate_fails, host_alloc_open_fails, client_shm_open_fails,
     client_mmap_fails, cuda_host_alloc_regshm, regshm_fails, client_unlinks, cudaMemcpyToSymbol,
     cuda_memcpy_to_symbol_shm
<1>6. Opening' /\ Copying' /\ Room'
  <2>1. hainfo_cnt' \in Nat /\ hainfo_cnt <= hainfo_cnt'
    BY <1>2, SlotsAssumption DEF IInv, TypeOK, server
  <2> QED BY <1>2, <1>5, <2>1, CallEnds
<1>7. CopiesOwnMemory'
  BY <1>2 DEF IInv, CopiesOwnMemory
<1> QED BY <1>1, <1>4, <1>6, <1>7 DEF IInv

LEMMA StartSteps ==
    ASSUME IInv, NEW c \in Clients, cudaHostAlloc(c)
    PROVE  IInv'
<1> USE DEF cudaHostAlloc
<1>1. TypeOK'
  BY SlotsAssumption, SegmentsAssumption
  DEF IInv, TypeOK, Goto, Places, server, client, Index
<1>2. PairsAreCreated' /\ OneSegment' /\ ServerKeeps' /\ HeldWasGiven' /\ OneHolder'
  <2>1. UNCHANGED <<socktype, server, held, linked>>
    BY DEF server, client
  <2> QED BY <2>1, TablesStay
<1>3. \A d \in Clients : call'[d] = IF d = c THEN [at |-> "host_alloc", index |-> 0, meant |-> 0]
                                     ELSE call[d]
  BY DEF IInv, TypeOK, Goto
<1>4. \A d \in Clients : At(d, "open")' => At(d, "open") /\ call'[d] = call[d]
  BY <1>3 DEF At
<1>5. Opening'
  BY <1>4 DEF IInv, Opening, Live, server, client
<1>6. Copying'
  BY <1>3 DEF IInv, Copying, At, client
<1>7. Room'
  BY <1>3 DEF IInv, Room, At, client
<1>8. CopiesOwnMemory'
  BY DEF IInv, CopiesOwnMemory, client
<1> QED BY <1>1, <1>2, <1>5, <1>6, <1>7, <1>8 DEF IInv

LEMMA MemcpyCall ==
    ASSUME IInv, NEW c \in Clients, cudaMemcpy(c)
    PROVE  IInv'
<1> USE DEF cudaMemcpy
<1>1. PICK i \in 0 .. held_cnt[c] - 1 :
         /\ held[c][i].segment # 0
         /\ Goto(c, "memcpy", held[c][i].idx, held[c][i].segment)
  OBVIOUS
<1>2. i \in Index
  BY SlotsAssumption DEF IInv, TypeOK, Index
<1>3. held[c][i].idx \in Index /\ held[c][i].segment \in Segments
      /\ held[c][i] = [idx |-> held[c][i].idx, segment |-> held[c][i].segment]
  BY <1>1, <1>2, LivePairs DEF Live, IInv
<1>4. TypeOK'
  BY <1>1, <1>3 DEF IInv, TypeOK, Goto, Places, server, client, Segments
<1>5. PairsAreCreated' /\ OneSegment' /\ ServerKeeps' /\ HeldWasGiven' /\ OneHolder'
  <2>1. UNCHANGED <<socktype, server, held, linked>>
    BY DEF server, client
  <2> QED BY <2>1, TablesStay
<1>6. \A d \in Clients : call'[d] = IF d = c THEN [at |-> "memcpy", index |-> held[c][i].idx,
                                                   meant |-> held[c][i].segment]
                                     ELSE call[d]
  BY <1>1 DEF IInv, TypeOK, Goto
<1>7. Opening'
  <2>1. \A d \in Clients : At(d, "open")' => At(d, "open") /\ call'[d] = call[d]
    BY <1>6 DEF At
  <2> QED BY <2>1 DEF IInv, Opening, Live, server, client
<1>8. Copying'
  <2>1. SUFFICES ASSUME NEW d \in Clients, At(d, "memcpy")'
        PROVE  /\ call'[d].meant # 0
               /\ \E k \in Index : held'[d][k] = [idx |-> call'[d].index, segment |-> call'[d].meant]
    BY DEF Copying
  <2>2. CASE d = c
    BY <2>2, <1>1, <1>2, <1>3, <1>6 DEF client
  <2>3. CASE d # c
    BY <2>1, <2>3, <1>6 DEF IInv, Copying, At, client
  <2> QED BY <2>2, <2>3
<1>9. Room' /\ CopiesOwnMemory'
  BY <1>6 DEF IInv, Room, At, client, CopiesOwnMemory
<1> QED BY <1>4, <1>5, <1>7, <1>8, <1>9 DEF IInv

(* The server's entry of a pair in use is that pair, or gone over UNIX.    *)
LEMMA EntryOfPair ==
    ASSUME IInv, NEW i \in Index, NEW s \in Segments, Pair(i, s), i < hainfo_cnt
    PROVE  Gone(i) \/ (hainfo[i].idx = i /\ hainfo[i].segment = s)
<1>1. SUFFICES ASSUME ~ Gone(i) PROVE hainfo[i].idx = i /\ hainfo[i].segment = s
  OBVIOUS
<1>2. hainfo[i].idx = i /\ hainfo[i].segment # 0
  BY <1>1 DEF IInv, ServerKeeps
<1>3. hainfo[i].segment \in Segments
  BY DEF IInv, TypeOK, Entry, Segments
<1>4. Pair(i, hainfo[i].segment)
  BY <1>2 DEF Pair, Kept
<1> QED BY <1>2, <1>3, <1>4 DEF IInv, OneSegment

LEMMA MemcpyHandler ==
    ASSUME IInv, NEW c \in Clients, cuda_memcpy_shm(c)
    PROVE  IInv'
<1> USE DEF cuda_memcpy_shm
<1>1. call[c].index \in Index /\ call[c].meant \in Segments
  BY DEF IInv, TypeOK, Segments
<1>2. PICK k \in Index : held[c][k] = [idx |-> call[c].index, segment |-> call[c].meant]
  BY DEF IInv, Copying
<1>3. call[c].meant # 0
  BY DEF IInv, Copying
<1>4. Live(c, k) /\ held[c][k].idx = call[c].index
  BY <1>2, <1>3 DEF Live
<1>5. call[c].index < hainfo_cnt
  BY <1>4 DEF IInv, HeldWasGiven
<1>6. Pair(call[c].index, call[c].meant)
  BY <1>2, <1>3 DEF Pair, HeldAs
<1>7. Gone(call[c].index)
      \/ (hainfo[call[c].index].idx = call[c].index /\ hainfo[call[c].index].segment = call[c].meant)
  BY <1>1, <1>5, <1>6, EntryOfPair
<1>8. UsedSegment(call[c].index) = call[c].meant
      \/ (socktype = "UNIX" /\ UsedSegment(call[c].index) = 0)
  <2>1. ~ (call[c].index >= hainfo_cnt)
    BY <1>1, <1>5, SlotsAssumption DEF IInv, TypeOK, Index
  <2> QED BY <1>7, <2>1 DEF UsedSegment, Gone, Cleared
<1>9. UsedSegment(call[c].index) \in Segments
  BY <1>1, <1>8, SegmentsAssumption DEF Segments
<1>10. TypeOK'
  BY <1>1, <1>9, SlotsAssumption, SegmentsAssumption
  DEF IInv, TypeOK, Return, Idle, Places, server, Index, Segments
<1>11. PairsAreCreated' /\ OneSegment' /\ ServerKeeps' /\ HeldWasGiven' /\ OneHolder'
  BY TablesStay
<1>12. Opening' /\ Copying' /\ Room'
  <2>1. hainfo_cnt' \in Nat /\ hainfo_cnt <= hainfo_cnt'
    BY SlotsAssumption DEF IInv, TypeOK, server
  <2>2. call' = [call EXCEPT ![c] = Idle] /\ Idle.at \notin {"host_alloc", "open", "memcpy"}
    BY DEF Return, Idle
  <2> QED BY <2>1, <2>2, CallEnds
<1>13. CopiesOwnMemory'
  <2>1. SUFFICES ASSUME NEW d \in Clients
        PROVE copied'[d].used = copied'[d].meant \/ (socktype' = "UNIX" /\ copied'[d].used = 0)
    BY DEF CopiesOwnMemory
  <2>2. CASE d = c
    BY <2>2, <1>8 DEF IInv, TypeOK
  <2>3. CASE d # c
    BY <2>3 DEF IInv, TypeOK, CopiesOwnMemory
  <2> QED BY <2>2, <2>3
<1> QED BY <1>10, <1>11, <1>12, <1>13 DEF IInv

LEMMA FreeCall ==
    ASSUME IInv, NEW c \in Clients, cudaFreeHost(c)
    PROVE  IInv'
<1> USE DEF cudaFreeHost
<1>1. PICK i \in 0 .. held_cnt[c] - 1 :
         /\ held' = [held EXCEPT ![c][i] = Cleared]
         /\ Goto(c, "free_host", i, 0)
  OBVIOUS
<1>2. i \in Index
  BY SlotsAssumption DEF IInv, TypeOK, Index
<1>3. \A d \in Clients, k \in Index :
          held'[d][k] = IF d = c /\ k = i THEN Cleared ELSE held[d][k]
  BY <1>1, <1>2 DEF IInv, TypeOK
<1>4. \A d \in Clients, k \in Index : Live(d, k)' => Live(d, k) /\ held'[d][k] = held[d][k]
  BY <1>3 DEF Live, Cleared
<1>5. TypeOK'
  <2>1. Cleared \in Entry
    BY SlotsAssumption, SegmentsAssumption DEF Cleared, Entry, Index
  <2>2. held' \in [Clients -> [Index -> Entry]]
    BY <1>1, <1>2, <2>1 DEF IInv, TypeOK
  <2>3. call' \in [Clients -> [at : Places, index : Index, meant : 0 .. MaxSegments]]
    BY <1>1, <1>2, SegmentsAssumption DEF IInv, TypeOK, Goto, Places
  <2> QED BY <2>2, <2>3 DEF IInv, TypeOK, server
<1>6. PairsAreCreated' /\ OneSegment'
  <2>1. \A j \in Index, s \in Segments : Pair(j, s)' => Pair(j, s)
    <3>1. SUFFICES ASSUME NEW j \in Index, NEW s \in Segments, s # 0, HeldAs(j, s)' PROVE HeldAs(j, s)
      BY DEF Pair, Named, Kept, server
    <3>2. PICK d \in Clients, k \in Index : held'[d][k] = [idx |-> j, segment |-> s]
      BY <3>1 DEF HeldAs
    <3>3. Live(d, k)'
      BY <3>1, <3>2 DEF Live
    <3> QED BY <3>2, <3>3, <1>4 DEF HeldAs
  <2>2. segments \in Nat /\ segments' \in Nat /\ segments <= segments'
    BY SegmentsAssumption DEF IInv, TypeOK, server
  <2> QED BY <2>1, <2>2, FewerPairs DEF IInv
<1>7. ServerKeeps'
  BY DEF IInv, ServerKeeps, Gone, server
<1>8. HeldWasGiven' /\ OneHolder'
  BY <1>4 DEF IInv, HeldWasGiven, OneHolder, server
<1>9. Opening' /\ Copying' /\ Room'
  <2> DEFINE r == [at |-> "free_host", index |-> i, meant |-> 0]
  <2>1. hainfo_cnt' \in Nat /\ hainfo_cnt <= hainfo_cnt'
    BY SlotsAssumption DEF IInv, TypeOK, server
  <2>2. call' = [call EXCEPT ![c] = r] /\ r.at \notin {"host_alloc", "open", "memcpy"}
    BY <1>1 DEF Goto
  <2>3. \A d \in Clients : d # c => held'[d] = held[d] /\ held_cnt'[d] = held_cnt[d]
    BY <1>1 DEF IInv, TypeOK
  <2>4. \A k \in Index : held'[c][k] \in {held[c][k], Cleared}
    BY <1>3
  <2> QED BY <2>1, <2>2, <2>3, <2>4, CallEnds
<1>10. CopiesOwnMemory'
  BY DEF IInv, CopiesOwnMemory
<1> QED BY <1>5, <1>6, <1>7, <1>8, <1>9, <1>10 DEF IInv

LEMMA FreeHandler ==
    ASSUME IInv, NEW c \in Clients, cuda_free_host(c)
    PROVE  IInv'
<1> USE DEF cuda_free_host
<1>0. call[c].index \in Index
  BY DEF IInv, TypeOK
<1>1. \A i \in Index :
         hainfo'[i] = IF i = call[c].index /\ Freed(i) THEN Cleared ELSE hainfo[i]
  BY <1>0 DEF IInv, TypeOK
<1>2. TypeOK'
  <2>1. Cleared \in Entry
    BY SlotsAssumption, SegmentsAssumption DEF Cleared, Entry, Index
  <2>2. hainfo' \in [Index -> Entry]
    BY <1>0, <2>1 DEF IInv, TypeOK
  <2>3. call' \in [Clients -> [at : Places, index : Index, meant : 0 .. MaxSegments]]
    BY SlotsAssumption, SegmentsAssumption DEF IInv, TypeOK, Return, Idle, Places, Index
  <2> QED BY <2>2, <2>3 DEF IInv, TypeOK, client
<1>3. PairsAreCreated' /\ OneSegment'
  <2>1. \A j \in Index, s \in Segments : Pair(j, s)' => Pair(j, s)
    BY <1>1 DEF Pair, Named, Kept, HeldAs, Cleared, client
  <2>2. segments \in Nat /\ segments' \in Nat /\ segments <= segments'
    BY SegmentsAssumption DEF IInv, TypeOK
  <2> QED BY <2>1, <2>2, FewerPairs DEF IInv
<1>4. ServerKeeps'
  <2>1. SUFFICES ASSUME NEW i \in Index
        PROVE  /\ i < hainfo_cnt => Gone(i)' \/ (hainfo'[i].idx = i /\ hainfo'[i].segment # 0)
               /\ i >= hainfo_cnt => hainfo'[i] = Cleared
    BY DEF ServerKeeps
  <2>2. CASE i = call[c].index /\ Freed(i)
    BY <1>1, <2>2 DEF Gone, Freed
  <2>3. CASE ~ (i = call[c].index /\ Freed(i))
    BY <1>1, <2>3 DEF IInv, ServerKeeps, Gone
  <2> QED BY <2>2, <2>3
<1>5. HeldWasGiven' /\ OneHolder'
  BY DEF IInv, HeldWasGiven, OneHolder, Live, client
<1>6. Opening' /\ Copying' /\ Room'
  <2>1. hainfo_cnt' \in Nat /\ hainfo_cnt <= hainfo_cnt'
    BY SlotsAssumption DEF IInv, TypeOK
  <2>2. call' = [call EXCEPT ![c] = Idle] /\ Idle.at \notin {"host_alloc", "open", "memcpy"}
    BY DEF Return, Idle
  <2> QED BY <2>1, <2>2, CallEnds DEF client
<1>7. CopiesOwnMemory'
  BY DEF IInv, CopiesOwnMemory, client
<1> QED BY <1>2, <1>3, <1>4, <1>5, <1>6, <1>7 DEF IInv

LEMMA ExitStep ==
    ASSUME IInv, NEW c \in Clients, client_exits(c)
    PROVE  IInv'
<1> USE DEF client_exits
<1>1. \A d \in Clients, k \in Index :
          held'[d][k] = IF d = c THEN Cleared ELSE held[d][k]
  BY DEF IInv, TypeOK
<1>2. \A d \in Clients, k \in Index : Live(d, k)' => Live(d, k) /\ held'[d][k] = held[d][k]
  BY <1>1 DEF Live, Cleared
<1>3. TypeOK'
  <2>1. Cleared \in Entry
    BY SlotsAssumption, SegmentsAssumption DEF Cleared, Entry, Index
  <2>2. held' \in [Clients -> [Index -> Entry]]
    BY <2>1 DEF IInv, TypeOK
  <2>3. call' \in [Clients -> [at : Places, index : Index, meant : 0 .. MaxSegments]]
    BY SlotsAssumption, SegmentsAssumption DEF IInv, TypeOK, Return, Idle, Places, Index
  <2>4. held_cnt' \in [Clients -> 0 .. Slots]
    BY SlotsAssumption DEF IInv, TypeOK
  <2>5. copied' \in [Clients -> [meant : 0 .. MaxSegments, used : 0 .. MaxSegments]]
    BY SegmentsAssumption DEF IInv, TypeOK
  <2> QED BY <2>2, <2>3, <2>4, <2>5 DEF IInv, TypeOK, server
<1>4. PairsAreCreated' /\ OneSegment'
  <2>1. \A j \in Index, s \in Segments : Pair(j, s)' => Pair(j, s)
    <3>1. SUFFICES ASSUME NEW j \in Index, NEW s \in Segments, s # 0, HeldAs(j, s)' PROVE HeldAs(j, s)
      BY DEF Pair, Named, Kept, server
    <3>2. PICK d \in Clients, k \in Index : held'[d][k] = [idx |-> j, segment |-> s]
      BY <3>1 DEF HeldAs
    <3>3. Live(d, k)'
      BY <3>1, <3>2 DEF Live
    <3> QED BY <3>2, <3>3, <1>2 DEF HeldAs
  <2>2. segments \in Nat /\ segments' \in Nat /\ segments <= segments'
    BY SegmentsAssumption DEF IInv, TypeOK, server
  <2> QED BY <2>1, <2>2, FewerPairs DEF IInv
<1>5. ServerKeeps'
  BY DEF IInv, ServerKeeps, Gone, server
<1>6. HeldWasGiven' /\ OneHolder'
  BY <1>2 DEF IInv, HeldWasGiven, OneHolder, server
<1>7. Opening' /\ Copying' /\ Room'
  <2>1. hainfo_cnt' \in Nat /\ hainfo_cnt <= hainfo_cnt'
    BY SlotsAssumption DEF IInv, TypeOK, server
  <2>2. call' = [call EXCEPT ![c] = Idle] /\ Idle.at \notin {"host_alloc", "open", "memcpy"}
    BY DEF Return, Idle
  <2>3. \A d \in Clients : d # c => held'[d] = held[d] /\ held_cnt'[d] = held_cnt[d]
    BY DEF IInv, TypeOK
  <2>4. \A k \in Index : held'[c][k] \in {held[c][k], Cleared}
    BY <1>1
  <2> QED BY <2>1, <2>2, <2>3, <2>4, CallEnds
<1>8. CopiesOwnMemory'
  BY DEF IInv, TypeOK, CopiesOwnMemory
<1> QED BY <1>3, <1>4, <1>5, <1>6, <1>7, <1>8 DEF IInv

LEMMA MapStep ==
    ASSUME IInv, NEW c \in Clients, client_maps(c)
    PROVE  IInv'
<1> DEFINE n == call[c].index
           m == held_cnt[c]
<1> USE DEF client_maps
<1>1. n \in Index /\ n < hainfo_cnt /\ linked[n] \in Segments /\ linked[n] # 0
  BY DEF IInv, TypeOK, Opening, Segments
<1>2. m \in Index
  BY SlotsAssumption DEF IInv, TypeOK, Room, Index
<1>3. \A d \in Clients, k \in Index :
          held'[d][k] = IF d = c /\ k = m THEN [idx |-> n, segment |-> linked[n]] ELSE held[d][k]
  BY <1>2 DEF IInv, TypeOK
<1>4. \A d \in Clients, k \in Index : Live(d, k)' =>
          \/ d = c /\ k = m /\ held'[d][k].idx = n
          \/ Live(d, k) /\ held'[d][k] = held[d][k] /\ held'[d][k].idx # n
  BY <1>3 DEF IInv, Opening, Live
<1>5. TypeOK'
  <2>1. held' \in [Clients -> [Index -> Entry]]
    BY <1>1, <1>2 DEF IInv, TypeOK, Entry
  <2>2. call' \in [Clients -> [at : Places, index : Index, meant : 0 .. MaxSegments]]
    BY <1>1, SegmentsAssumption DEF IInv, TypeOK, Goto, Places
  <2>3. held_cnt' \in [Clients -> 0 .. Slots]
    BY <1>2, SlotsAssumption DEF IInv, TypeOK, Index
  <2> QED BY <2>1, <2>2, <2>3 DEF IInv, TypeOK, server
<1>6. PairsAreCreated' /\ OneSegment'
  <2>1. \A j \in Index, s \in Segments : Pair(j, s)' => Pair(j, s)
    <3>1. SUFFICES ASSUME NEW j \in Index, NEW s \in Segments, s # 0, HeldAs(j, s)' PROVE Pair(j, s)
      BY DEF Pair, Named, Kept, server
    <3>2. PICK d \in Clients, k \in Index : held'[d][k] = [idx |-> j, segment |-> s]
      BY <3>1 DEF HeldAs
    <3>3. CASE d = c /\ k = m
      BY <3>1, <3>2, <3>3, <1>3 DEF Pair, Named
    <3>4. CASE ~ (d = c /\ k = m)
      BY <3>1, <3>2, <3>4, <1>3 DEF Pair, HeldAs
    <3> QED BY <3>3, <3>4
  <2>2. segments \in Nat /\ segments' \in Nat /\ segments <= segments'
    BY SegmentsAssumption DEF IInv, TypeOK, server
  <2> QED BY <2>1, <2>2, FewerPairs DEF IInv
<1>7. ServerKeeps'
  BY DEF IInv, ServerKeeps, Gone, server
<1>8. HeldWasGiven'
  BY <1>1, <1>4 DEF IInv, HeldWasGiven, server
<1>9. OneHolder'
  BY <1>4 DEF IInv, OneHolder
<1>10. \A d \in Clients : call'[d] = IF d = c THEN [at |-> "regshm", index |-> n, meant |-> 0]
                                      ELSE call[d]
  BY DEF IInv, TypeOK, Goto
<1>11. \A d \in Clients : At(d, "open")' => d # c /\ At(d, "open") /\ call'[d] = call[d]
  BY <1>10 DEF At
<1>12. Opening'
  <2>1. SUFFICES ASSUME NEW d \in Clients, At(d, "open")'
        PROVE  /\ call'[d].index < hainfo_cnt'
               /\ \A e \in Clients, k \in Index : Live(e, k)' => held'[e][k].idx # call'[d].index
               /\ \A e \in Clients : At(e, "open")' /\ call'[e].index = call'[d].index => d = e
    BY DEF Opening
  <2>2. d # c /\ At(d, "open") /\ call'[d] = call[d] /\ call[d].index # n
    BY <1>11, <2>1 DEF IInv, Opening
  <2> QED BY <2>2, <1>4, <1>11 DEF IInv, Opening, server
<1>13. Copying'
  <2>1. SUFFICES ASSUME NEW d \in Clients, At(d, "memcpy")'
        PROVE  /\ call'[d].meant # 0
               /\ \E k \in Index : held'[d][k] = [idx |-> call'[d].index, segment |-> call'[d].meant]
    BY DEF Copying
  <2>2. d # c /\ At(d, "memcpy") /\ call'[d] = call[d] /\ \A k \in Index : held'[d][k] = held[d][k]
    BY <1>3, <1>10, <2>1 DEF At
  <2> QED BY <2>2 DEF IInv, Copying
<1>14. Room'
  BY <1>10 DEF IInv, TypeOK, Room, At
<1>15. CopiesOwnMemory'
  BY DEF IInv, CopiesOwnMemory
<1> QED BY <1>5, <1>6, <1>7, <1>8, <1>9, <1>12, <1>13, <1>14, <1>15 DEF IInv

(* A segment under the counter's name: new, or known by that name alone.   *)
LEMMA OpenedPairs ==
    ASSUME IInv, NEW c \in Clients, host_alloc_opens(c)
    PROVE  /\ hainfo_cnt \in Index
           /\ Opened \in Segments /\ Opened # 0
           /\ segments' \in Nat /\ segments <= segments' /\ Opened <= segments'
           /\ \A i \in Index, s \in Segments : Pair(i, s) => (i = hainfo_cnt <=> s = Opened)
<1> USE DEF host_alloc_opens
<1>1. hainfo_cnt \in Index
  BY SlotsAssumption DEF IInv, TypeOK, Index
<1>2. segments \in Nat /\ linked[hainfo_cnt] \in Segments
  BY <1>1, SegmentsAssumption DEF IInv, TypeOK, Segments
<1>3. CASE Fresh
  <2>1. Opened = segments + 1 /\ segments' = segments + 1
    BY <1>3 DEF Opened
  <2>2. \A i \in Index, s \in Segments : Pair(i, s) => s # Opened
    BY <1>2, <2>1 DEF IInv, PairsAreCreated, Segments
  <2>3. \A s \in Segments : ~ Pair(hainfo_cnt, s)
    <3>1. SUFFICES ASSUME NEW s \in Segments, s # 0,
                          Named(hainfo_cnt, s) \/ Kept(hainfo_cnt, s) \/ HeldAs(hainfo_cnt, s)
          PROVE FALSE
      BY DEF Pair
    <3>2. ~ Named(hainfo_cnt, s)
      BY <1>3, <3>1 DEF Fresh, Named
    <3>3. ~ Kept(hainfo_cnt, s)
      BY <1>1, <3>1, SlotsAssumption DEF IInv, TypeOK, ServerKeeps, Kept, Cleared, Index
    <3>4. ~ HeldAs(hainfo_cnt, s)
      <4>1. SUFFICES ASSUME NEW d \in Clients, NEW k \in Index,
                            held[d][k] = [idx |-> hainfo_cnt, segment |-> s]
            PROVE FALSE
        BY DEF HeldAs
      <4>2. hainfo_cnt < hainfo_cnt
        BY <3>1, <4>1 DEF IInv, HeldWasGiven, Live
      <4> QED BY <1>1, <4>2 DEF Index
    <3> QED BY <3>1, <3>2, <3>3, <3>4
  <2>4. Opened \in Segments /\ Opened # 0
    BY <1>2, <2>1, SegmentsAssumption DEF Segments
  <2> QED BY <1>1, <1>2, <2>1, <2>2, <2>3, <2>4
<1>4. CASE ~ Fresh
  <2>1. Opened = linked[hainfo_cnt] /\ Opened # 0 /\ segments' = segments
    BY <1>4 DEF Opened, Fresh
  <2>2. Pair(hainfo_cnt, Opened)
    BY <2>1 DEF Pair, Named
  <2>3. Opened <= segments
    BY <1>1, <1>2, <2>1, <2>2 DEF IInv, PairsAreCreated
  <2> QED BY <1>1, <1>2, <2>1, <2>2, <2>3 DEF IInv, OneSegment
<1> QED BY <1>3, <1>4

(* One more pair, of the counter and the segment opened, changes nothing   *)
(* for the others.                                                         *)
LEMMA OneMorePair ==
    ASSUME IInv, NEW c \in Clients, host_alloc_opens(c),
           \A i \in Index, s \in Segments :
               Pair(i, s)' => Pair(i, s) \/ (i = hainfo_cnt /\ s = Opened)
    PROVE  PairsAreCreated' /\ OneSegment'
<1>1. /\ hainfo_cnt \in Index
      /\ Opened \in Segments /\ Opened # 0
      /\ segments' \in Nat /\ segments <= segments' /\ Opened <= segments'
      /\ \A i \in Index, s \in Segments : Pair(i, s) => (i = hainfo_cnt <=> s = Opened)
  BY OpenedPairs
<1>2. segments \in Nat
  BY SegmentsAssumption DEF IInv, TypeOK
<1>3. PairsAreCreated'
  <2>1. SUFFICES ASSUME NEW i \in Index, NEW s \in Segments, Pair(i, s)' PROVE s <= segments'
    BY DEF PairsAreCreated
  <2>2. CASE Pair(i, s)
    <3>1. s <= segments
      BY <2>2 DEF IInv, PairsAreCreated
    <3> QED BY <3>1, <1>1, <1>2 DEF Segments
  <2>3. CASE s = Opened
    BY <2>3, <1>1
  <2> QED BY <2>1, <2>2, <2>3
<1>4. OneSegment'
  <2>1. SUFFICES ASSUME NEW i \in Index, NEW j \in Index, NEW s \in Segments, NEW t \in Segments,
                        Pair(i, s)', Pair(j, t)'
        PROVE i = j <=> s = t
    BY DEF OneSegment
  <2>2. CASE Pair(i, s) /\ Pair(j, t)
    BY <2>2 DEF IInv, OneSegment
  <2>3. CASE ~ (Pair(i, s) /\ Pair(j, t))
    BY <2>1, <2>3, <1>1
  <2> QED BY <2>2, <2>3
<1> QED BY <1>3, <1>4

LEMMA RegistrationFails ==
    ASSUME IInv, NEW c \in Clients, host_alloc_registration_fails(c)
    PROVE  IInv'
<1> USE DEF host_alloc_registration_fails
<1>0. /\ hainfo_cnt \in Index /\ Opened \in Segments /\ segments' \in Nat
  BY OpenedPairs
<1>1. \A i \in Index : linked'[i] = IF i = hainfo_cnt THEN Opened ELSE linked[i]
  BY <1>0 DEF host_alloc_opens, IInv, TypeOK
<1>2. TypeOK'
  <2>1. segments' \in 0 .. MaxSegments
    BY SegmentsAssumption DEF IInv, TypeOK, host_alloc_opens, Opened
  <2>2. linked' \in [Index -> 0 .. MaxSegments]
    BY <1>0 DEF IInv, TypeOK, host_alloc_opens, Segments
  <2>3. call' \in [Clients -> [at : Places, index : Index, meant : 0 .. MaxSegments]]
    BY SlotsAssumption, SegmentsAssumption DEF IInv, TypeOK, Return, Idle, Places, Index
  <2> QED BY <2>1, <2>2, <2>3 DEF IInv, TypeOK, client
<1>3. PairsAreCreated' /\ OneSegment'
  <2>1. \A i \in Index, s \in Segments :
            Pair(i, s)' => Pair(i, s) \/ (i = hainfo_cnt /\ s = Opened)
    BY <1>1 DEF Pair, Named, Kept, HeldAs, client
  <2> QED BY <2>1, OneMorePair
<1>4. ServerKeeps' /\ HeldWasGiven' /\ OneHolder' /\ CopiesOwnMemory'
  BY DEF IInv, ServerKeeps, Gone, HeldWasGiven, OneHolder, Live, CopiesOwnMemory, client
<1>5. Opening' /\ Copying' /\ Room'
  <2>1. hainfo_cnt' \in Nat /\ hainfo_cnt <= hainfo_cnt'
    BY SlotsAssumption DEF IInv, TypeOK
  <2>2. call' = [call EXCEPT ![c] = Idle] /\ Idle.at \notin {"host_alloc", "open", "memcpy"}
    BY DEF Return, Idle
  <2> QED BY <2>1, <2>2, CallEnds DEF client
<1> QED BY <1>2, <1>3, <1>4, <1>5 DEF IInv

LEMMA Allocates ==
    ASSUME IInv, NEW c \in Clients, cuda_host_alloc(c)
    PROVE  IInv'
<1> USE DEF cuda_host_alloc
<1>0. /\ hainfo_cnt \in Index /\ Opened \in Segments /\ Opened # 0 /\ segments' \in Nat
      /\ hainfo_cnt < Slots
  BY OpenedPairs DEF host_alloc_opens
<1>1. \A i \in Index : linked'[i] = IF i = hainfo_cnt THEN Opened ELSE linked[i]
  BY <1>0 DEF host_alloc_opens, IInv, TypeOK
<1>2. \A i \in Index : hainfo'[i] = IF i = hainfo_cnt THEN [idx |-> hainfo_cnt, segment |-> Opened]
                                    ELSE hainfo[i]
  BY <1>0 DEF IInv, TypeOK
<1>3. TypeOK'
  <2>1. segments' \in 0 .. MaxSegments
    BY SegmentsAssumption DEF IInv, TypeOK, host_alloc_opens, Opened
  <2>2. linked' \in [Index -> 0 .. MaxSegments]
    BY <1>0 DEF IInv, TypeOK, host_alloc_opens, Segments
  <2>3. call' \in [Clients -> [at : Places, index : Index, meant : 0 .. MaxSegments]]
    BY <1>0, SegmentsAssumption DEF IInv, TypeOK, Goto, Places
  <2>4. hainfo' \in [Index -> Entry]
    BY <1>0 DEF IInv, TypeOK, Entry, Segments
  <2>5. hainfo_cnt' \in 0 .. Slots
    BY <1>0, SlotsAssumption DEF Index
  <2> QED BY <2>1, <2>2, <2>3, <2>4, <2>5 DEF IInv, TypeOK, client
<1>4. PairsAreCreated' /\ OneSegment'
  <2>1. \A i \in Index, s \in Segments :
            Pair(i, s)' => Pair(i, s) \/ (i = hainfo_cnt /\ s = Opened)
    BY <1>1, <1>2 DEF Pair, Named, Kept, HeldAs, client
  <2> QED BY <2>1, OneMorePair
<1>5. ServerKeeps'
  <2>1. SUFFICES ASSUME NEW i \in Index
        PROVE  /\ i < hainfo_cnt' => Gone(i)' \/ (hainfo'[i].idx = i /\ hainfo'[i].segment # 0)
               /\ i >= hainfo_cnt' => hainfo'[i] = Cleared
    BY DEF ServerKeeps
  <2>2. CASE i = hainfo_cnt
    BY <1>0, <1>2, <2>2 DEF Index
  <2>3. CASE i # hainfo_cnt
    <3>1. hainfo'[i] = hainfo[i]
      BY <1>2, <2>3
    <3>2. (i < hainfo_cnt' => i < hainfo_cnt) /\ (i >= hainfo_cnt' => i >= hainfo_cnt)
      BY <1>0, <2>3 DEF Index
    <3> QED BY <3>1, <3>2 DEF IInv, ServerKeeps, Gone
  <2> QED BY <2>2, <2>3
<1>6. HeldWasGiven'
  <2>1. SUFFICES ASSUME NEW d \in Clients, NEW k \in Index, Live(d, k) PROVE held[d][k].idx < hainfo_cnt + 1
    BY DEF HeldWasGiven, Live, client
  <2>2. held[d][k].idx \in Index /\ held[d][k].idx < hainfo_cnt
    BY <2>1, LivePairs DEF IInv, HeldWasGiven
  <2> QED BY <2>2, <1>0 DEF Index
<1>7. OneHolder' /\ CopiesOwnMemory'
  BY DEF IInv, OneHolder, Live, CopiesOwnMemory, client
<1>8. \A d \in Clients : call'[d] = IF d = c THEN [at |-> "open", index |-> hainfo_cnt, meant |-> 0]
                                     ELSE call[d]
  BY DEF IInv, TypeOK, Goto
<1>9. \A d \in Clients : call[d].index \in Index
  BY DEF IInv, TypeOK
<1>10. Opening'
  <2>1. SUFFICES ASSUME NEW d \in Clients, At(d, "open")'
        PROVE  /\ call'[d].index < hainfo_cnt'
               /\ \A e \in Clients, k \in Index : Live(e, k) => held[e][k].idx # call'[d].index
               /\ \A e \in Clients : At(e, "open")' /\ call'[e].index = call'[d].index => d = e
    BY DEF Opening, Live, client
  <2>2. CASE d = c
    <3>1. call'[d].index = hainfo_cnt
      BY <2>2, <1>8
    <3>2. \A e \in Clients, k \in Index : Live(e, k) => held[e][k].idx # hainfo_cnt
      <4>1. SUFFICES ASSUME NEW e \in Clients, NEW k \in Index, Live(e, k), held[e][k].idx = hainfo_cnt
            PROVE FALSE
        OBVIOUS
      <4>2. held[e][k].idx < hainfo_cnt
        BY <4>1 DEF IInv, HeldWasGiven
      <4> QED BY <4>1, <4>2, <1>0 DEF Index
    <3>3. \A e \in Clients : At(e, "open")' /\ call'[e].index = hainfo_cnt => c = e
      <4>1. SUFFICES ASSUME NEW e \in Clients, At(e, "open")', call'[e].index = hainfo_cnt, e # c PROVE FALSE
        OBVIOUS
      <4>2. At(e, "open") /\ call[e].index = hainfo_cnt
        BY <4>1, <1>8 DEF At
      <4>3. call[e].index < hainfo_cnt
        BY <4>2 DEF IInv, Opening
      <4> QED BY <4>2, <4>3, <1>0 DEF Index
    <3> QED BY <2>2, <3>1, <3>2, <3>3, <1>0 DEF Index
  <2>3. CASE d # c
    <3>1. At(d, "open") /\ call'[d] = call[d]
      BY <2>1, <2>3, <1>8 DEF At
    <3>2. call[d].index < hainfo_cnt
      BY <3>1 DEF IInv, Opening
    <3>3. call[d].index < hainfo_cnt + 1 /\ call[d].index # hainfo_cnt
      BY <3>2, <1>0, <1>9 DEF Index
    <3>4. \A e \in Clients : At(e, "open")' /\ call'[e].index = call[d].index => d = e
      BY <3>1, <3>3, <1>8 DEF IInv, Opening, At
    <3> QED BY <3>1, <3>3, <3>4 DEF IInv, Opening
  <2> QED BY <2>2, <2>3
<1>11. Copying'
  BY <1>8 DEF IInv, Copying, At, client
<1>12. Room'
  BY <1>8 DEF IInv, Room, At, client, host_alloc_opens
<1> QED BY <1>3, <1>4, <1>5, <1>6, <1>7, <1>10, <1>11, <1>12 DEF IInv

LEMMA NextIInv == IInv /\ [Next]_vars => IInv'
<1> SUFFICES ASSUME IInv, [Next]_vars PROVE IInv'
  OBVIOUS
<1>1. CASE UNCHANGED vars
  <2> USE <1>1 DEF vars, IInv
  <2>1. TypeOK' /\ Room' /\ CopiesOwnMemory'
    BY DEF TypeOK, Room, CopiesOwnMemory, At
  <2>2. PairsAreCreated' /\ OneSegment'
    BY DEF PairsAreCreated, OneSegment, Pair, Named, Kept, HeldAs
  <2>3. ServerKeeps' /\ HeldWasGiven' /\ OneHolder'
    BY DEF ServerKeeps, Gone, HeldWasGiven, OneHolder, Live
  <2>4. Opening' /\ Copying'
    BY DEF Opening, Copying, At, Live
  <2> QED BY <2>1, <2>2, <2>3, <2>4
<1>2. CASE Next
  <2>1. PICK c \in Clients :
           \/ Quiet(c) \/ cudaHostAlloc(c) \/ cuda_host_alloc(c)
           \/ host_alloc_registration_fails(c) \/ client_maps(c)
           \/ cudaFreeHost(c) \/ cuda_free_host(c) \/ cudaMemcpy(c)
           \/ cuda_memcpy_shm(c) \/ client_exits(c)
    BY <1>2 DEF Next, Quiet
  <2> QED BY <2>1, QuietSteps, StartSteps, Allocates, RegistrationFails, MapStep,
             FreeCall, FreeHandler, MemcpyCall, MemcpyHandler, ExitStep
<1> QED BY <1>1, <1>2

THEOREM SpecIInv == Spec => []IInv
  BY InitIInv, NextIInv, PTL DEF Spec

-------------------------------------------------------------------------------
(* Indices stay within the arrays, whatever fails and whoever exits        *)
(* (cuda_host_alloc_1_svc, cudaHostAlloc).                                 *)
THEOREM TypesHold == Spec => []TypeOK
<1>1. IInv => TypeOK
  BY DEF IInv
<1> QED BY <1>1, SpecIInv, PTL

(* Allocations in use are apart, for any number of clients                 *)
(* (cuda_host_alloc_1_svc, cudaHostAlloc).                                 *)
THEOREM ApartHolds == Spec => []AllocationsAreApart
<1>1. IInv => AllocationsAreApart
  <2>1. SUFFICES ASSUME IInv, NEW c \in Clients, NEW d \in Clients, NEW i \in Index, NEW j \in Index,
                        Live(c, i), Live(d, j), held[c][i].segment = held[d][j].segment
        PROVE c = d /\ i = j
    BY DEF AllocationsAreApart
  <2>2. /\ held[c][i].idx \in Index /\ held[c][i].segment \in Segments
        /\ Pair(held[c][i].idx, held[c][i].segment)
    BY <2>1, LivePairs DEF IInv
  <2>3. /\ held[d][j].idx \in Index /\ held[d][j].segment \in Segments
        /\ Pair(held[d][j].idx, held[d][j].segment)
    BY <2>1, LivePairs DEF IInv
  <2>4. held[c][i].idx = held[d][j].idx
    BY <2>1, <2>2, <2>3 DEF IInv, OneSegment
  <2> QED BY <2>1, <2>4 DEF IInv, OneHolder
<1> QED BY <1>1, SpecIInv, PTL

(* The server's entry under an index that a client holds maps the client's *)
(* segment, or is gone over UNIX (cuda_free_host_1_svc).                   *)
THEOREM EntriesLeadHolds == Spec => []EntriesLead
<1>1. IInv => EntriesLead
  <2>1. SUFFICES ASSUME IInv, NEW c \in Clients, NEW i \in Index, Live(c, i)
        PROVE  \/ hainfo[held[c][i].idx] = held[c][i]
               \/ socktype = "UNIX" /\ hainfo[held[c][i].idx] = Cleared
    BY DEF EntriesLead
  <2> DEFINE x == held[c][i].idx
             s == held[c][i].segment
  <2>2. x \in Index /\ s \in Segments /\ held[c][i] = [idx |-> x, segment |-> s] /\ Pair(x, s)
    BY <2>1, LivePairs DEF IInv
  <2>3. x < hainfo_cnt
    BY <2>1 DEF IInv, HeldWasGiven
  <2>4. Gone(x) \/ (hainfo[x].idx = x /\ hainfo[x].segment = s)
    BY <2>1, <2>2, <2>3, EntryOfPair
  <2>5. hainfo[x] = [idx |-> hainfo[x].idx, segment |-> hainfo[x].segment]
    BY <2>1, <2>2 DEF IInv, TypeOK, Entry
  <2> QED BY <2>2, <2>4, <2>5 DEF Gone
<1> QED BY <1>1, SpecIInv, PTL

(* A copy moves its caller's bytes, and over TCP is never refused          *)
(* (cuda_memcpy_shm_1_svc, cudaMemcpy).                                    *)
THEOREM CopiesHold == Spec => []CopiesOwnMemory
<1>1. IInv => CopiesOwnMemory
  BY DEF IInv
<1> QED BY <1>1, SpecIInv, PTL

-------------------------------------------------------------------------------
(* Tensors.                                                                *)

(* What Span and Total compute. *)

SpanLoop(f, n, d) == f = [j \in 1 .. n + 1 |-> IF j > n THEN 1 ELSE d[j] * f[j + 1]]
TotalLoop(f, n, s) == f = [j \in 1 .. n + 1 |-> IF j > n THEN 0 ELSE s[j] + f[j + 1]]

LEMMA SpanChooses ==
  ASSUME NEW t, NEW f, SpanLoop(f, Rank(t), t.shape)
  PROVE  SpanLoop(Span(t), Rank(t), t.shape)
<1> DEFINE g == CHOOSE h : SpanLoop(h, Rank(t), t.shape)
<1>1. SpanLoop(g, Rank(t), t.shape)
  BY Zenon
<1>2. Span(t) = g
  BY Zenon DEF Span, SpanLoop
<1> QED BY <1>1, <1>2, Zenon

LEMMA TotalChooses ==
  ASSUME NEW s, NEW f, TotalLoop(f, Len(s), s)
  PROVE  \E g : TotalLoop(g, Len(s), s) /\ Total(s) = g[1]
<1> DEFINE g == CHOOSE h : TotalLoop(h, Len(s), s)
<1>1. TotalLoop(g, Len(s), s)
  BY Zenon
<1>2. Total(s) = g[1]
  BY Zenon DEF Total, TotalLoop
<1> QED BY <1>1, <1>2, Zenon

LEMMA SpanIs ==
  ASSUME NEW n \in Nat, NEW t, t.shape \in [1 .. n -> Nat]
  PROVE  /\ Rank(t) = n
         /\ Span(t) \in [1 .. n + 1 -> Nat] /\ Span(t)[n + 1] = 1
         /\ \A j \in 1 .. n : Span(t)[j] = t.shape[j] * Span(t)[j + 1]
<1> DEFINE d == t.shape
           step == [j \in 1 .. n |-> [x \in Nat |-> d[j] * x]]
<1>1. Rank(t) = n
  BY DEF Rank
<1>2. step \in [1 .. n -> [Nat -> Nat]]
  <2>1. \A j \in 1 .. n : d[j] \in Nat
    OBVIOUS
  <2>2. \A x, y \in Nat : x * y \in Nat
    OBVIOUS
  <2> QED BY <2>1, <2>2
<1>3. PICK f : Steps(f, n, step, 1)
  <2> HIDE DEF step
  <2>1. 1 \in Nat
    OBVIOUS
  <2> QED BY <1>2, <2>1, StepsExist, Zenon
<1>4. ASSUME NEW j \in 1 .. n PROVE f[j] = d[j] * f[j + 1]
  <2>1. step[j] = [x \in Nat |-> d[j] * x]
    OBVIOUS
  <2>2. f[j] = step[j][f[j + 1]] /\ f[j + 1] \in Nat
    <3>1. j + 1 \in 1 .. n + 1
      OBVIOUS
    <3> HIDE DEF step
    <3> QED BY <1>3, <3>1 DEF Steps
  <2> QED BY <2>1, <2>2
<1>5. SpanLoop(f, n, d)
  BY <1>3, <1>4 DEF Steps, SpanLoop
<1>6. SpanLoop(Span(t), n, d)
  BY <1>1, <1>5, SpanChooses
<1> DEFINE p == Span(t)
<1>7. /\ DOMAIN p = 1 .. n + 1 /\ p[n + 1] = 1
      /\ \A j \in 1 .. n : p[j] = d[j] * p[j + 1]
      /\ p = [j \in 1 .. n + 1 |-> p[j]]
  BY <1>6 DEF SpanLoop
<1>8. \A j \in 1 .. n + 1 : p[j] \in Nat
  <2> DEFINE T == {j \in 1 .. n + 1 : p[j] \in Nat}
  <2> HIDE DEF p
  <2>1. n + 1 \in T
    BY <1>7
  <2>2. ASSUME NEW j \in 1 .. n, j + 1 \in T PROVE j \in T
    <3>1. p[j] = d[j] * p[j + 1] /\ d[j] \in Nat /\ p[j + 1] \in Nat
      BY <1>7, <2>2
    <3> QED BY <3>1
  <2> HIDE DEF T
  <2>3. \A j \in 1 .. n + 1 : j \in T
    BY <2>1, <2>2, Downwards
  <2> QED BY <2>3 DEF T
<1> HIDE DEF p
<1> QED BY <1>1, <1>7, <1>8 DEF p

Sums(f, n, s) == /\ f \in [1 .. n + 1 -> Nat] /\ f[n + 1] = 0
                 /\ \A j \in 1 .. n : f[j] = s[j] + f[j + 1]

LEMMA TotalIs ==
  ASSUME NEW n \in Nat, NEW s \in [1 .. n -> Nat]
  PROVE  \E f : Sums(f, n, s) /\ Total(s) = f[1]
<1> DEFINE step == [j \in 1 .. n |-> [x \in Nat |-> s[j] + x]]
<1>1. Len(s) = n
  OBVIOUS
<1>2. step \in [1 .. n -> [Nat -> Nat]]
  OBVIOUS
<1>3. PICK f : Steps(f, n, step, 0)
  <2> HIDE DEF step
  <2>1. 0 \in Nat
    OBVIOUS
  <2> QED BY <1>2, <2>1, StepsExist, Zenon
<1>4. ASSUME NEW j \in 1 .. n PROVE f[j] = s[j] + f[j + 1]
  <2>1. step[j] = [x \in Nat |-> s[j] + x]
    OBVIOUS
  <2>2. f[j] = step[j][f[j + 1]] /\ f[j + 1] \in Nat
    <3>1. j + 1 \in 1 .. n + 1
      OBVIOUS
    <3> HIDE DEF step
    <3> QED BY <1>3, <3>1 DEF Steps
  <2> QED BY <2>1, <2>2
<1>5. TotalLoop(f, Len(s), s)
  BY <1>1, <1>3, <1>4 DEF Steps, TotalLoop
<1>6. PICK g : TotalLoop(g, Len(s), s) /\ Total(s) = g[1]
  BY <1>5, TotalChooses
<1>7. /\ DOMAIN g = 1 .. n + 1 /\ g[n + 1] = 0
      /\ \A j \in 1 .. n : g[j] = s[j] + g[j + 1]
      /\ g = [j \in 1 .. n + 1 |-> g[j]]
  BY <1>1, <1>6 DEF TotalLoop
<1>8. \A j \in 1 .. n + 1 : g[j] \in Nat
  <2> DEFINE T == {j \in 1 .. n + 1 : g[j] \in Nat}
  <2>1. n + 1 \in T
    BY <1>7
  <2>2. ASSUME NEW j \in 1 .. n, j + 1 \in T PROVE j \in T
    <3>1. g[j] = s[j] + g[j + 1] /\ s[j] \in Nat /\ g[j + 1] \in Nat
      BY <1>7, <2>2
    <3> QED BY <3>1
  <2> HIDE DEF T
  <2>3. \A j \in 1 .. n + 1 : j \in T
    BY <2>1, <2>2, Downwards
  <2> QED BY <2>3 DEF T
<1>9. Sums(g, n, s)
  BY <1>7, <1>8 DEF Sums
<1> QED BY <1>6, <1>9

(* Where the elements of a tensor are: idx in row-major order is less than *)
(* Numel, and no two have the same place.                                  *)

Laid(t, n) ==
  /\ n \in Nat /\ t.shape \in [1 .. n -> Dims] /\ t.strides \in [1 .. n -> Strides]
  /\ t.offset \in Offsets
  /\ \A idx \in Indices(t) : Address(t, idx) < Cells

LEMMA ViewsAreLaid ==
  ASSUME NEW t \in Views PROVE \E n : Laid(t, n)
<1>1. PICK n \in 0 .. MaxRank :
        t \in {u \in [shape : [1 .. n -> Dims], strides : [1 .. n -> Strides],
                      offset : Offsets] :
                 \A idx \in Indices(u) : Address(u, idx) < Cells}
  BY Zenon DEF Views
<1>2. n \in Nat
  BY RankIsANumber
<1>3. t \in [shape : [1 .. n -> Dims], strides : [1 .. n -> Strides], offset : Offsets]
  BY <1>1
<1>4. \A idx \in Indices(t) : Address(t, idx) < Cells
  BY <1>1
<1> QED BY <1>2, <1>3, <1>4 DEF Laid

LEMMA LaidFacts ==
  ASSUME NEW t, NEW n, Laid(t, n)
  PROVE  /\ n \in Nat /\ Rank(t) = n /\ t.offset \in Nat
         /\ t.shape \in [1 .. n -> Nat] /\ t.strides \in [1 .. n -> Nat]
         /\ Span(t) \in [1 .. n + 1 -> Nat] /\ Span(t)[n + 1] = 1
         /\ \A j \in 1 .. n : Span(t)[j] = t.shape[j] * Span(t)[j + 1]
         /\ Numel(t) = Span(t)[1] /\ Numel(t) \in Nat
<1>1. /\ n \in Nat /\ t.offset \in Nat
      /\ t.shape \in [1 .. n -> Nat] /\ t.strides \in [1 .. n -> Nat]
  BY LayoutsAreNumbers DEF Laid
<1>2. /\ Rank(t) = n /\ Span(t) \in [1 .. n + 1 -> Nat] /\ Span(t)[n + 1] = 1
      /\ \A j \in 1 .. n : Span(t)[j] = t.shape[j] * Span(t)[j + 1]
  BY <1>1, SpanIs
<1>3. 1 \in 1 .. n + 1
  BY <1>1
<1> QED BY <1>1, <1>2, <1>3 DEF Numel

LEMMA IndexFacts ==
  ASSUME NEW t, NEW n, Laid(t, n), NEW idx \in Indices(t)
  PROVE  idx \in [1 .. n -> Nat] /\ \A j \in 1 .. n : idx[j] < t.shape[j]
<1>1. Rank(t) = n
  BY LaidFacts
<1> QED BY <1>1 DEF Indices

(* The place of an index, from every dimension on. *)
PlacesFrom(f, t, n, idx) ==
  /\ f \in [1 .. n + 1 -> Nat] /\ f[n + 1] = 0
  /\ \A j \in 1 .. n : f[j] = idx[j] * Span(t)[j + 1] + f[j + 1]

LEMMA FlatIs ==
  ASSUME NEW t, NEW n, Laid(t, n), NEW idx \in [1 .. n -> Nat]
  PROVE  \E f : PlacesFrom(f, t, n, idx) /\ Flat(t, idx) = f[1]
<1> DEFINE s == [j \in 1 .. n |-> idx[j] * Span(t)[j + 1]]
<1>1. n \in Nat /\ Rank(t) = n /\ Span(t) \in [1 .. n + 1 -> Nat]
  BY LaidFacts
<1>2. s \in [1 .. n -> Nat]
  <2>1. ASSUME NEW j \in 1 .. n PROVE idx[j] * Span(t)[j + 1] \in Nat
    <3>1. idx[j] \in Nat /\ j + 1 \in 1 .. n + 1
      BY <1>1
    <3>2. Span(t)[j + 1] \in Nat
      BY <1>1, <3>1
    <3> QED BY <3>1, <3>2
  <2> QED BY <2>1
<1>3. Flat(t, idx) = Total(s)
  BY <1>1 DEF Flat
<1>4. \A j \in 1 .. n : s[j] = idx[j] * Span(t)[j + 1]
  OBVIOUS
<1> HIDE DEF s
<1>5. PICK f : Sums(f, n, s) /\ Total(s) = f[1]
  BY <1>1, <1>2, TotalIs
<1>6. PlacesFrom(f, t, n, idx)
  BY <1>4, <1>5 DEF Sums, PlacesFrom
<1> QED BY <1>3, <1>5, <1>6

LEMMA PlacesFit ==
  ASSUME NEW t, NEW n, Laid(t, n), NEW idx \in Indices(t), NEW f, PlacesFrom(f, t, n, idx)
  PROVE  \A j \in 1 .. n + 1 : f[j] < Span(t)[j]
<1> DEFINE T == {j \in 1 .. n + 1 : f[j] < Span(t)[j]}
<1>1. n \in Nat /\ n + 1 \in 1 .. n + 1 /\ f[n + 1] = 0 /\ Span(t)[n + 1] = 1
  BY LaidFacts DEF PlacesFrom
<1>2. n + 1 \in T
  BY <1>1
<1>3. ASSUME NEW j \in 1 .. n, j + 1 \in T PROVE j \in T
  <2>1. j \in 1 .. n + 1 /\ j + 1 \in 1 .. n + 1
    BY <1>1
  <2>2. /\ f[j] = idx[j] * Span(t)[j + 1] + f[j + 1] /\ f[j + 1] \in Nat
    BY <2>1 DEF PlacesFrom
  <2>3. Span(t)[j] = t.shape[j] * Span(t)[j + 1] /\ Span(t)[j + 1] \in Nat /\ t.shape[j] \in Nat
    BY <2>1, LaidFacts
  <2>4. idx[j] \in Nat /\ idx[j] < t.shape[j]
    BY IndexFacts
  <2>5. f[j + 1] < Span(t)[j + 1]
    BY <1>3
  <2> DEFINE p == Span(t)[j + 1]
             d == t.shape[j]
             r == f[j + 1]
             x == idx[j]
  <2>6. x * p + r < d * p
    <3>1. x \in Nat /\ d \in Nat /\ p \in Nat /\ r \in Nat /\ x < d /\ r < p
      BY <2>2, <2>3, <2>4, <2>5
    <3> HIDE DEF x, d, p, r
    <3> QED BY <3>1, Rows
  <2> QED BY <2>1, <2>2, <2>3, <2>6
<1> HIDE DEF T
<1>4. \A j \in 1 .. n + 1 : j \in T
  BY <1>1, <1>2, <1>3, Downwards
<1> QED BY <1>4 DEF T

LEMMA FlatFits ==
  ASSUME NEW t, NEW n, Laid(t, n), NEW idx \in Indices(t)
  PROVE  Flat(t, idx) \in 0 .. Numel(t) - 1
<1>1. PICK f : PlacesFrom(f, t, n, idx) /\ Flat(t, idx) = f[1]
  BY FlatIs, IndexFacts
<1>2. n \in Nat /\ Numel(t) = Span(t)[1] /\ Numel(t) \in Nat /\ 1 \in 1 .. n + 1
  BY LaidFacts
<1>3. f[1] \in Nat /\ f[1] < Span(t)[1]
  BY <1>1, <1>2, PlacesFit DEF PlacesFrom
<1> QED BY <1>1, <1>2, <1>3

LEMMA FlatDiffers ==
  ASSUME NEW t, NEW n, Laid(t, n), NEW x \in Indices(t), NEW y \in Indices(t),
         Flat(t, x) = Flat(t, y)
  PROVE  x = y
<1>1. PICK f : PlacesFrom(f, t, n, x) /\ Flat(t, x) = f[1]
  BY FlatIs, IndexFacts
<1>2. PICK g : PlacesFrom(g, t, n, y) /\ Flat(t, y) = g[1]
  BY FlatIs, IndexFacts
<1>3. n \in Nat /\ x \in [1 .. n -> Nat] /\ y \in [1 .. n -> Nat]
  BY LaidFacts, IndexFacts
<1>4. ASSUME NEW j \in 1 .. n, f[j] = g[j] PROVE x[j] = y[j] /\ f[j + 1] = g[j + 1]
  <2>1. j + 1 \in 1 .. n + 1
    BY <1>3
  <2> DEFINE p == Span(t)[j + 1]
             a == x[j]
             b == y[j]
             r == f[j + 1]
             q == g[j + 1]
  <2>2. f[j] = a * p + r /\ g[j] = b * p + q /\ r \in Nat /\ q \in Nat
    BY <1>1, <1>2, <2>1 DEF PlacesFrom
  <2>3. r < p /\ q < p
    BY <1>1, <1>2, <2>1, PlacesFit
  <2>4. a \in Nat /\ b \in Nat /\ p \in Nat
    BY <1>3, <2>1, LaidFacts, ZenonT(60)
  <2> HIDE DEF p, a, b, r, q
  <2>5. Row(a, p, r) = Row(b, p, q)
    BY <1>4, <2>2, Zenon DEF Row
  <2>6. a = b /\ r = q
    BY <2>2, <2>3, <2>4, <2>5, RowsDiffer
  <2> QED BY <2>6 DEF a, b, r, q
<1> DEFINE T == {j \in 1 .. n + 1 : f[j] = g[j]}
<1>5. 1 \in T /\ \A j \in 1 .. n : j \in T => j + 1 \in T
  <2>1. 1 \in 1 .. n + 1 /\ \A j \in 1 .. n : j + 1 \in 1 .. n + 1
    BY <1>3
  <2>2. f[1] = g[1]
    BY <1>1, <1>2
  <2> QED BY <1>4, <2>1, <2>2
<1> HIDE DEF T
<1>6. \A j \in 1 .. n + 1 : j \in T
  BY <1>3, <1>5, Upwards
<1>7. \A j \in 1 .. n : f[j] = g[j]
  BY <1>3, <1>6 DEF T
<1>8. \A j \in 1 .. n : x[j] = y[j]
  BY <1>4, <1>7, Zenon
<1> QED BY <1>3, <1>8

(* With row-major strides the elements lie in the order they are sent in.  *)
LEMMA RowMajor ==
  ASSUME NEW t, NEW n, Laid(t, n), \A j \in 1 .. n : t.strides[j] = Span(t)[j + 1],
         NEW idx
  PROVE  Address(t, idx) = t.offset + Flat(t, idx)
<1>1. Rank(t) = n
  BY LaidFacts
<1>2. [j \in 1 .. n |-> idx[j] * t.strides[j]] = [j \in 1 .. n |-> idx[j] * Span(t)[j + 1]]
  OBVIOUS
<1> QED BY <1>1, <1>2 DEF Address, Flat

LEMMA AddressFits ==
  ASSUME NEW t, NEW n, Laid(t, n), NEW idx \in Indices(t)
  PROVE  Address(t, idx) \in Nat /\ Address(t, idx) < Cells
<1> DEFINE s == [j \in 1 .. n |-> idx[j] * t.strides[j]]
<1>1. n \in Nat /\ Rank(t) = n /\ t.offset \in Nat
  BY LaidFacts
<1>2. s \in [1 .. n -> Nat]
  <2>1. ASSUME NEW j \in 1 .. n PROVE idx[j] * t.strides[j] \in Nat
    <3>1. idx[j] \in Nat /\ t.strides[j] \in Nat
      BY IndexFacts, LaidFacts
    <3> QED BY <3>1
  <2> QED BY <2>1
<1>3. Address(t, idx) = t.offset + Total(s)
  BY <1>1 DEF Address
<1> HIDE DEF s
<1>4. Total(s) \in Nat
  <2>1. PICK f : Sums(f, n, s) /\ Total(s) = f[1]
    BY <1>1, <1>2, TotalIs
  <2>2. 1 \in 1 .. n + 1
    BY <1>1
  <2> QED BY <2>1, <2>2 DEF Sums
<1> QED BY <1>1, <1>3, <1>4 DEF Laid

(* The last element. *)
Last(t) == [j \in 1 .. Rank(t) |-> t.shape[j] - 1]

LEMMA LastIsIndex ==
  ASSUME NEW t, NEW n, Laid(t, n), Numel(t) # 0
  PROVE  /\ Last(t) \in Indices(t)
         /\ Address(t, Last(t)) = t.offset + max_off(t)
         /\ Flat(t, Last(t)) = Numel(t) - 1
<1> DEFINE P == Span(t)
           d == t.shape
<1>1. /\ n \in Nat /\ Rank(t) = n /\ d \in [1 .. n -> Nat] /\ d \in [1 .. n -> Dims]
      /\ P \in [1 .. n + 1 -> Nat] /\ P[n + 1] = 1 /\ Numel(t) = P[1]
      /\ \A j \in 1 .. n : P[j] = d[j] * P[j + 1]
  BY LaidFacts DEF Laid
<1> HIDE DEF P
<1>2. \A j \in 1 .. n : d[j] # 0 /\ P[j] # 0
  <2> DEFINE T == {j \in 1 .. n + 1 : P[j] # 0}
  <2>1. ASSUME NEW j \in 1 .. n, P[j] # 0 PROVE P[j + 1] # 0 /\ d[j] # 0
    <3>1. j + 1 \in 1 .. n + 1
      BY <1>1
    <3>2. P[j + 1] \in Nat /\ d[j] \in Nat /\ P[j] = d[j] * P[j + 1]
      BY <1>1, <3>1
    <3> QED BY <2>1, <3>2
  <2>2. 1 \in T
    BY <1>1
  <2>3. ASSUME NEW j \in 1 .. n, j \in T PROVE j + 1 \in T
    <3>1. j + 1 \in 1 .. n + 1
      BY <1>1
    <3> QED BY <2>1, <2>3, <3>1
  <2> HIDE DEF T
  <2>4. \A j \in 1 .. n + 1 : j \in T
    BY <1>1, <2>2, <2>3, Upwards
  <2>5. \A j \in 1 .. n : P[j] # 0
    BY <1>1, <2>4 DEF T
  <2> QED BY <2>1, <2>5
<1>3. Last(t) \in Indices(t)
  <2>1. ASSUME NEW j \in 1 .. n
        PROVE  /\ d[j] - 1 \in Nat /\ d[j] - 1 < d[j]
               /\ d[j] - 1 \in UNION {0 .. e : e \in Dims}
    <3>1. d[j] \in Nat /\ d[j] \in Dims /\ d[j] # 0
      BY <1>1, <1>2
    <3>2. d[j] - 1 \in 0 .. d[j]
      BY <3>1
    <3> QED BY <3>1, <3>2
  <2>2. Last(t) = [j \in 1 .. n |-> d[j] - 1]
    BY <1>1 DEF Last
  <2> QED BY <1>1, <2>1, <2>2, SMTT(30) DEF Indices
<1>4. Address(t, Last(t)) = t.offset + max_off(t)
  <2>1. [j \in 1 .. n |-> Last(t)[j] * t.strides[j]]
          = [j \in 1 .. n |-> (d[j] - 1) * t.strides[j]]
    BY <1>1 DEF Last
  <2> QED BY <1>1, <2>1 DEF Address, max_off
<1>5. Flat(t, Last(t)) = Numel(t) - 1
  <2>1. PICK f : PlacesFrom(f, t, n, Last(t)) /\ Flat(t, Last(t)) = f[1]
    BY <1>3, FlatIs, IndexFacts
  <2> DEFINE T == {j \in 1 .. n + 1 : f[j] = P[j] - 1}
  <2>2. n + 1 \in T
    BY <1>1, <2>1 DEF PlacesFrom
  <2>3. ASSUME NEW j \in 1 .. n, j + 1 \in T PROVE j \in T
    <3>1. j \in 1 .. n + 1 /\ j + 1 \in 1 .. n + 1
      BY <1>1
    <3>2. f[j] = Last(t)[j] * P[j + 1] + f[j + 1] /\ f[j + 1] = P[j + 1] - 1
      BY <2>1, <2>3 DEF PlacesFrom, P
    <3>3. P[j] = d[j] * P[j + 1] /\ P[j + 1] \in Nat /\ d[j] \in Nat
      BY <1>1, <3>1
    <3>4. Last(t)[j] = d[j] - 1
      BY <1>1 DEF Last
    <3> DEFINE p == P[j + 1]
               e == d[j]
    <3>5. (e - 1) * p + (p - 1) = e * p - 1
      <4>1. e \in Nat /\ p \in Nat
        BY <3>3
      <4> HIDE DEF e, p
      <4>2. (e - 1) * p = e * p - p /\ e * p \in Nat
        BY <4>1
      <4> QED BY <4>1, <4>2
    <3>6. f[j] = P[j] - 1
      BY <3>2, <3>3, <3>4, <3>5
    <3> QED BY <3>1, <3>6
  <2> HIDE DEF T
  <2>4. \A j \in 1 .. n + 1 : j \in T
    BY <1>1, <2>2, <2>3, Downwards
  <2>5. f[1] = P[1] - 1
    BY <1>1, <2>4 DEF T
  <2> QED BY <1>1, <2>1, <2>5
<1> QED BY <1>3, <1>4, <1>5

(* The invariant. *)

WellLaid == \E n : Laid(tensor, n)
Checked ==
  at = "check" =>
    /\ Numel(tensor) # 0 /\ exp = Span(tensor)[dim + 1]
    /\ \A j \in dim + 1 .. Rank(tensor) : tensor.strides[j] = Span(tensor)[j + 1]
Sent ==
  at = "sent" =>
    /\ Len(raw) = Numel(tensor)
    /\ \A idx \in Indices(tensor) : raw[Flat(tensor, idx) + 1] = Address(tensor, idx)
CodecInv ==
  /\ WellLaid /\ Checked /\ Sent /\ CodecTypeOK /\ RoundTrip /\ ReadsInside
  /\ at = "strided" => Numel(tensor) # 0
  /\ at = "start" => raw = <<>>

LEMMA CodecInvAtFirst == CodecInit => CodecInv
<1> SUFFICES ASSUME CodecInit PROVE CodecInv
  OBVIOUS
<1>1. WellLaid
  BY ViewsAreLaid DEF CodecInit, WellLaid
<1>2. PICK n : Laid(tensor, n)
  BY <1>1 DEF WellLaid
<1>3. Rank(tensor) \in Nat
  BY <1>2, LaidFacts
<1> QED BY <1>1, <1>3 DEF CodecInit, CodecInv, Checked, Sent, CodecTypeOK, RoundTrip, ReadsInside

(* What is sent is right when every place has its element, and the reader  *)
(* stayed inside when it stayed below the last one.                        *)
LEMMA SendsAll ==
  ASSUME CodecInv, NEW n, Laid(tensor, n), at' = "sent", UNCHANGED <<tensor, dim, exp, out>>,
         Len(raw') = Numel(tensor), touched' \subseteq 0 .. Cells - 1,
         \A idx \in Indices(tensor) : raw'[Flat(tensor, idx) + 1] = Address(tensor, idx)
  PROVE  CodecInv'
<1>1. WellLaid'
  BY DEF WellLaid, Laid, Indices, Address, Rank
<1>2. (Numel(tensor) = Numel(tensor)') /\ (Indices(tensor) = Indices(tensor)')
  OBVIOUS
<1>3. Sent' /\ Checked'
  BY DEF Sent, Checked
<1>4. touched' \subseteq Nat
  BY CellsAreANumber
<1>5. CodecTypeOK'
  BY <1>4 DEF CodecInv, CodecTypeOK
<1>6. RoundTrip' /\ ReadsInside'
  BY DEF RoundTrip, ReadsInside
<1> QED BY <1>1, <1>3, <1>5, <1>6 DEF CodecInv

LEMMA EmptyTensor == ASSUME CodecInv, empty_tensor PROVE CodecInv'
<1>1. PICK n : Laid(tensor, n)
  BY DEF CodecInv, WellLaid
<1>2. /\ at' = "sent" /\ UNCHANGED <<tensor, dim, exp, out, raw, touched>> /\ Numel(tensor) = 0
      /\ at = "start"
  BY DEF empty_tensor
<1>3. ASSUME NEW idx \in Indices(tensor) PROVE FALSE
  <2>1. Flat(tensor, idx) \in 0 .. 0 - 1
    BY <1>1, <1>2, <1>3, FlatFits
  <2> QED BY <2>1
<1>4. raw = <<>>
  BY <1>2 DEF CodecInv
<1>5. Len(raw') = Numel(tensor) /\ touched' \subseteq 0 .. Cells - 1
  BY <1>2, <1>4 DEF CodecInv, ReadsInside
<1> QED BY <1>1, <1>2, <1>3, <1>5, SendsAll

LEMMA CheckContiguity == ASSUME CodecInv, check_contiguity PROVE CodecInv'
<1>1. PICK n : Laid(tensor, n)
  BY DEF CodecInv, WellLaid
<1>2. /\ at' = "check" /\ dim' = Rank(tensor) /\ exp' = 1 /\ UNCHANGED <<tensor, raw, touched, out>>
      /\ Numel(tensor) # 0
  BY DEF check_contiguity
<1>3. n \in Nat /\ Rank(tensor) = n /\ Span(tensor)[n + 1] = 1
  BY <1>1, LaidFacts
<1>4. WellLaid' /\ (Rank(tensor) = Rank(tensor)') /\ Numel(tensor)' # 0
  BY <1>1, <1>2 DEF WellLaid
<1>5. Checked'
  BY <1>2, <1>3, <1>4 DEF Checked
<1>6. CodecTypeOK' /\ Sent' /\ RoundTrip' /\ ReadsInside'
  BY <1>2, <1>3, <1>4 DEF CodecInv, CodecTypeOK, Sent, RoundTrip, ReadsInside
<1> QED BY <1>2, <1>4, <1>5, <1>6 DEF CodecInv

LEMMA NextDimension == ASSUME CodecInv, next_dimension PROVE CodecInv'
<1>1. PICK n : Laid(tensor, n)
  BY DEF CodecInv, WellLaid
<1>2. /\ at = "check" /\ dim > 0 /\ tensor.strides[dim] = exp
      /\ exp' = exp * tensor.shape[dim] /\ dim' = dim - 1
      /\ UNCHANGED <<tensor, at, raw, touched, out>>
  BY DEF next_dimension
<1>3. /\ n \in Nat /\ Rank(tensor) = n /\ tensor.shape \in [1 .. n -> Nat]
      /\ Span(tensor) \in [1 .. n + 1 -> Nat]
      /\ \A j \in 1 .. n : Span(tensor)[j] = tensor.shape[j] * Span(tensor)[j + 1]
  BY <1>1, LaidFacts
<1>4. dim \in 1 .. n /\ dim + 1 \in 1 .. n + 1 /\ dim \in 1 .. n + 1
  BY <1>2, <1>3 DEF CodecInv, CodecTypeOK
<1>5. /\ Numel(tensor) # 0 /\ exp = Span(tensor)[dim + 1]
      /\ \A j \in dim + 1 .. n : tensor.strides[j] = Span(tensor)[j + 1]
  BY <1>2, <1>3 DEF CodecInv, Checked
<1>6. exp' = Span(tensor)[dim] /\ exp' \in Nat
  <2>1. exp \in Nat /\ tensor.shape[dim] \in Nat /\ Span(tensor)[dim] \in Nat
    BY <1>3, <1>4, <1>5
  <2>2. Span(tensor)[dim] = tensor.shape[dim] * exp
    BY <1>3, <1>4, <1>5
  <2> DEFINE d == tensor.shape[dim]
  <2>3. exp * d = d * exp
    <3> HIDE DEF d
    <3> QED BY <2>1 DEF d
  <2> QED BY <1>2, <2>1, <2>2, <2>3
<1>7. \A j \in dim .. n : tensor.strides[j] = Span(tensor)[j + 1]
  <2>1. \A j \in dim .. n : j = dim \/ j \in dim + 1 .. n
    BY <1>3, <1>4
  <2> QED BY <1>2, <1>5, <2>1
<1>8. dim' + 1 = dim /\ dim' \in 0 .. n
  BY <1>2, <1>3, <1>4
<1>9. WellLaid' /\ Rank(tensor)' = n /\ Numel(tensor)' # 0
  BY <1>1, <1>2, <1>3, <1>5 DEF WellLaid
<1>10. Checked'
  BY <1>2, <1>6, <1>7, <1>8, <1>9 DEF Checked
<1>11. CodecTypeOK' /\ Sent' /\ RoundTrip' /\ ReadsInside'
  BY <1>2, <1>6, <1>8, <1>9 DEF CodecInv, CodecTypeOK, Sent, RoundTrip, ReadsInside
<1> QED BY <1>2, <1>9, <1>10, <1>11 DEF CodecInv

LEMMA NotContiguous == ASSUME CodecInv, not_contiguous PROVE CodecInv'
<1>1. /\ at = "check" /\ at' = "strided" /\ UNCHANGED <<tensor, dim, exp, raw, touched, out>>
  BY DEF not_contiguous
<1>2. WellLaid' /\ Numel(tensor)' # 0
  BY <1>1 DEF CodecInv, WellLaid, Checked
<1>3. CodecTypeOK' /\ Sent' /\ RoundTrip' /\ ReadsInside' /\ Checked'
  BY <1>1 DEF CodecInv, CodecTypeOK, Sent, RoundTrip, ReadsInside, Checked
<1> QED BY <1>1, <1>2, <1>3 DEF CodecInv

LEMMA ReadContiguous == ASSUME CodecInv, read_contiguous PROVE CodecInv'
<1>1. PICK n : Laid(tensor, n)
  BY DEF CodecInv, WellLaid
<1>2. /\ at = "check" /\ dim = 0 /\ at' = "sent" /\ UNCHANGED <<tensor, dim, exp, out>>
      /\ raw' = [k \in 1 .. Numel(tensor) |-> tensor.offset + k - 1]
      /\ touched' = {raw'[k] : k \in DOMAIN raw'}
  BY DEF read_contiguous
<1>3. n \in Nat /\ Rank(tensor) = n /\ Numel(tensor) \in Nat /\ tensor.offset \in Nat
  BY <1>1, LaidFacts
<1>4. Numel(tensor) # 0 /\ \A j \in 1 .. n : tensor.strides[j] = Span(tensor)[j + 1]
  BY <1>2, <1>3 DEF CodecInv, Checked
<1>5. \A idx : Address(tensor, idx) = tensor.offset + Flat(tensor, idx)
  BY <1>1, <1>4, RowMajor
<1>6. ASSUME NEW idx \in Indices(tensor)
      PROVE  raw'[Flat(tensor, idx) + 1] = Address(tensor, idx)
  <2>1. Flat(tensor, idx) \in 0 .. Numel(tensor) - 1
    BY <1>1, FlatFits
  <2>2. /\ Flat(tensor, idx) + 1 \in 1 .. Numel(tensor)
        /\ tensor.offset + (Flat(tensor, idx) + 1) - 1 = tensor.offset + Flat(tensor, idx)
    BY <1>3, <2>1
  <2> QED BY <1>2, <1>5, <2>2
<1>7. Len(raw') = Numel(tensor)
  BY <1>2, <1>3
<1>8. touched' \subseteq 0 .. Cells - 1
  <2>1. Last(tensor) \in Indices(tensor) /\ Flat(tensor, Last(tensor)) = Numel(tensor) - 1
    BY <1>1, <1>4, LastIsIndex
  <2>2. tensor.offset + Numel(tensor) - 1 < Cells
    <3>1. Address(tensor, Last(tensor)) < Cells
      BY <1>1, <2>1, AddressFits
    <3> QED BY <1>3, <1>5, <2>1, <3>1
  <2>3. ASSUME NEW k \in 1 .. Numel(tensor) PROVE tensor.offset + k - 1 \in 0 .. Cells - 1
    BY <1>3, <2>2, CellsAreANumber
  <2> QED BY <1>2, <2>3
<1> QED BY <1>1, <1>2, <1>6, <1>7, <1>8, SendsAll

LEMMA ReadStrided == ASSUME CodecInv, read_strided PROVE CodecInv'
<1>1. PICK n : Laid(tensor, n)
  BY DEF CodecInv, WellLaid
<1> DEFINE Nth(k) == CHOOSE idx \in Indices(tensor) : Flat(tensor, idx) = k - 1
<1>2. /\ at' = "sent" /\ UNCHANGED <<tensor, dim, exp, out>>
      /\ raw' = [k \in 1 .. Numel(tensor) |-> Address(tensor, Nth(k))]
      /\ touched' = tensor.offset .. tensor.offset + max_off(tensor)
      /\ Numel(tensor) # 0
  BY DEF read_strided, CodecInv
<1>3. n \in Nat /\ Numel(tensor) \in Nat /\ tensor.offset \in Nat
  BY <1>1, LaidFacts
<1>4. ASSUME NEW idx \in Indices(tensor)
      PROVE  raw'[Flat(tensor, idx) + 1] = Address(tensor, idx)
  <2> DEFINE k == Flat(tensor, idx) + 1
  <2>1. Flat(tensor, idx) \in 0 .. Numel(tensor) - 1
    BY <1>1, FlatFits
  <2>2. k \in 1 .. Numel(tensor) /\ k - 1 = Flat(tensor, idx)
    BY <1>3, <2>1
  <2>3. Nth(k) \in Indices(tensor) /\ Flat(tensor, Nth(k)) = k - 1
    <3> HIDE DEF k
    <3>1. \E x \in Indices(tensor) : Flat(tensor, x) = k - 1
      BY <2>2
    <3> QED BY <3>1, Zenon
  <2> HIDE DEF Nth
  <2>4. Nth(k) = idx
    BY <1>1, <2>2, <2>3, FlatDiffers
  <2> QED BY <1>2, <2>2, <2>4
<1>5. Len(raw') = Numel(tensor)
  <2> HIDE DEF Nth
  <2> QED BY <1>2, <1>3
<1>6. touched' \subseteq 0 .. Cells - 1
  <2>1. /\ Last(tensor) \in Indices(tensor)
        /\ Address(tensor, Last(tensor)) = tensor.offset + max_off(tensor)
    BY <1>1, <1>2, LastIsIndex
  <2>2. tensor.offset + max_off(tensor) \in Nat /\ tensor.offset + max_off(tensor) < Cells
    BY <1>1, <2>1, AddressFits
  <2> DEFINE m == tensor.offset + max_off(tensor)
  <2>3. touched' = tensor.offset .. m /\ m \in Nat /\ m < Cells
    BY <1>2, <2>2
  <2> HIDE DEF m
  <2> QED BY <1>3, <2>3, CellsAreANumber
<1> QED BY <1>1, <1>2, <1>4, <1>5, <1>6, SendsAll

LEMMA Receives == ASSUME CodecInv, proto_to_tensor_normal PROVE CodecInv'
<1>1. /\ at = "sent" /\ at' = "done" /\ UNCHANGED <<tensor, dim, exp, raw, touched>>
      /\ out' = [idx \in Indices(tensor) |-> raw[Flat(tensor, idx) + 1]]
  BY DEF proto_to_tensor_normal
<1>2. \A idx \in Indices(tensor) : raw[Flat(tensor, idx) + 1] = Address(tensor, idx)
  BY <1>1 DEF CodecInv, Sent
<1>3. \A idx \in Indices(tensor) : out'[idx] = Address(tensor, idx)
  BY <1>1, <1>2
<1>4. RoundTrip'
  BY <1>1, <1>3 DEF RoundTrip
<1>5. CodecTypeOK' /\ Sent' /\ ReadsInside' /\ Checked' /\ WellLaid'
  BY <1>1 DEF CodecInv, CodecTypeOK, Sent, ReadsInside, Checked, WellLaid
<1> QED BY <1>1, <1>4, <1>5 DEF CodecInv

LEMMA CodecInvAlways == CodecSpec => []CodecInv
<1>1. CodecInv /\ [CodecNext]_codecVars => CodecInv'
  <2>1. ASSUME CodecInv, UNCHANGED codecVars PROVE CodecInv'
    BY <2>1 DEF codecVars, CodecInv, WellLaid, Checked, Sent, CodecTypeOK, RoundTrip, ReadsInside
  <2> QED BY <2>1, EmptyTensor, CheckContiguity, NextDimension, NotContiguous,
             ReadContiguous, ReadStrided, Receives DEF CodecNext
<1> QED BY <1>1, CodecInvAtFirst, PTL DEF CodecSpec

(* The loop over the dimensions stays in the shape, and as many elements   *)
(* are sent as the shape has.                                              *)
THEOREM CodecTypeCorrect == CodecSpec => []CodecTypeOK
<1>1. CodecInv => CodecTypeOK
  BY DEF CodecInv
<1> QED BY <1>1, CodecInvAlways, PTL

(* For any rank, dimensions and strides, overlapping ones included: what   *)
(* arrives has every element at its index.                                 *)
THEOREM TensorsAlwaysArrive == CodecSpec => []RoundTrip
<1>1. CodecInv => RoundTrip
  BY DEF CodecInv
<1> QED BY <1>1, CodecInvAlways, PTL

(* ctypes is never told to read outside the tensor's storage.              *)
THEOREM OnlyTheStorageIsRead == CodecSpec => []ReadsInside
<1>1. CodecInv => ReadsInside
  BY DEF CodecInv
<1> QED BY <1>1, CodecInvAlways, PTL

-------------------------------------------------------------------------------
(* Pieces of a sequence. *)

Piece(w, p, a) == \A j \in 1 .. Len(a) : w[p + j] = a[j]

LEMMA PiecesOf ==
  ASSUME NEW S, NEW w, NEW p \in Nat, NEW a \in Seq(S), NEW b \in Seq(S), Piece(w, p, a \o b)
  PROVE  Piece(w, p, a) /\ Piece(w, p + Len(a), b)
<1>1. /\ Len(a) \in Nat /\ Len(b) \in Nat /\ Len(a \o b) = Len(a) + Len(b)
      /\ \A j \in 1 .. Len(a) + Len(b) :
           (a \o b)[j] = IF j <= Len(a) THEN a[j] ELSE b[j - Len(a)]
  BY ConcatProperties, LenProperties
<1>2. ASSUME NEW j \in 1 .. Len(a) PROVE w[p + j] = a[j]
  <2>1. j \in 1 .. Len(a) + Len(b) /\ j <= Len(a)
    BY <1>1
  <2> QED BY <1>1, <2>1 DEF Piece
<1>3. ASSUME NEW j \in 1 .. Len(b) PROVE w[p + Len(a) + j] = b[j]
  <2>1. /\ Len(a) + j \in 1 .. Len(a) + Len(b) /\ ~ (Len(a) + j <= Len(a))
        /\ Len(a) + j - Len(a) = j /\ p + (Len(a) + j) = p + Len(a) + j
    BY <1>1
  <2>2. w[p + (Len(a) + j)] = (a \o b)[Len(a) + j]
    BY <1>1, <2>1 DEF Piece
  <2> QED BY <1>1, <2>1, <2>2
<1> QED BY <1>2, <1>3 DEF Piece

Stands(w, p, r, a) == SubSeq(w, p + 1, r) = a

LEMMA SubSeqIsPiece ==
  ASSUME NEW S, NEW w \in Seq(S), NEW p \in Nat, NEW r \in Nat, NEW a \in Seq(S),
         p <= Len(w), r <= Len(w), a # <<>>, Stands(w, p, r, a)
  PROVE  r = p + Len(a) /\ Piece(w, p, a)
<1> SUFFICES ASSUME SubSeq(w, p + 1, r) = a
             PROVE  r = p + Len(a) /\ Piece(w, p, a)
  BY DEF Stands
<1>1. Len(a) \in Nat \ {0}
  BY EmptySeq
<1>2. CASE p + 1 <= r
  <2>1. Len(SubSeq(w, p + 1, r)) = r - (p + 1) + 1
    BY <1>2, SubSeqProperties
  <2>2. \A i \in 1 .. r - (p + 1) + 1 : SubSeq(w, p + 1, r)[i] = w[p + 1 + i - 1]
    BY <1>2, SubSeqProperties
  <2>3. r = p + Len(a)
    BY <2>1
  <2>4. ASSUME NEW j \in 1 .. Len(a) PROVE w[p + j] = a[j]
    <3>1. p + 1 + j - 1 = p + j /\ j \in 1 .. r - (p + 1) + 1
      BY <2>3
    <3> QED BY <2>2, <3>1
  <2> QED BY <2>3, <2>4 DEF Piece
<1>3. CASE ~ (p + 1 <= r)
  <2>1. SubSeq(w, p + 1, r) = <<>>
    BY <1>3
  <2> QED BY <2>1
<1> QED BY <1>2, <1>3

-------------------------------------------------------------------------------
(* Lengths, as nvcc writes them and the loop adds them up. *)

LEMMA Sizes ==
  /\ Nibble \in Nat /\ Nibble >= 2 /\ Byte \in Nat /\ Byte >= 4 /\ Nibble * Nibble <= Byte
  /\ LeastMatch \in Nat /\ LeastMatch >= 1 /\ Align \in Nat /\ Align >= 1
<1>1. /\ Nibble \in Nat /\ Nibble >= 2 /\ Byte \in Nat /\ Nibble * Nibble <= Byte
      /\ LeastMatch \in Nat /\ LeastMatch >= 1 /\ Align \in Nat /\ Align >= 1
  BY SizesAssumption
<1>2. Nibble * Nibble >= 4
  BY <1>1
<1> QED BY <1>1, <1>2

LEMMA Division ==
  ASSUME NEW n \in Nat, NEW b \in Nat, b # 0
  PROVE  /\ n \div b \in Nat /\ n % b \in 0 .. b - 1
         /\ n = (n \div b) * b + (n % b)
OBVIOUS

LEMMA DivisionIs ==
  ASSUME NEW b \in Nat, NEW q \in Nat, NEW r \in Nat, r < b
  PROVE  (q * b + r) \div b = q /\ (q * b + r) % b = r
<1> DEFINE n == q * b + r
<1>1. n \in Nat /\ b # 0
  OBVIOUS
<1>2. n \div b \in Nat /\ n % b \in Nat /\ n % b < b /\ Row(q, b, r) = Row(n \div b, b, n % b)
  <2> HIDE DEF n
  <2>1. n \div b \in Nat /\ n % b \in 0 .. b - 1 /\ n = (n \div b) * b + (n % b)
    BY <1>1, Division
  <2> QED BY <2>1 DEF Row, n
<1> HIDE DEF n
<1>3. q = n \div b /\ r = n % b
  BY <1>2, RowsDiffer
<1> QED BY <1>3 DEF n

(* How many full bytes a length has beyond what fits into a nibble. *)
Full(n) == (n - (Nibble - 1)) \div (Byte - 1)

LEMMA LongIs ==
  ASSUME NEW n \in Nat
  PROVE  /\ Long(n) \in Seq(Nat)
         /\ n < Nibble - 1 => Long(n) = <<>>
         /\ n >= Nibble - 1 =>
              /\ Full(n) \in Nat /\ Len(Long(n)) = Full(n) + 1
              /\ \A j \in 1 .. Full(n) : Long(n)[j] = Byte - 1
              /\ Long(n)[Full(n) + 1] \in Nat /\ Long(n)[Full(n) + 1] < Byte - 1
              /\ n = Nibble - 1 + Full(n) * (Byte - 1) + Long(n)[Full(n) + 1]
<1>1. CASE n < Nibble - 1
  <2>1. Long(n) = <<>>
    BY <1>1 DEF Long
  <2> QED BY <1>1, <2>1, Sizes
<1>2. CASE n >= Nibble - 1
  <2> DEFINE r == n - (Nibble - 1)
             b == Byte - 1
             q == r \div b
  <2>1. r \in Nat /\ b \in Nat /\ b # 0
    BY <1>2, Sizes
  <2>2. Long(n) = [j \in 1 .. q + 1 |-> IF j <= q THEN b ELSE r % b]
    BY <1>2, Sizes DEF Long, Lengthening
  <2>3. Full(n) = q
    BY DEF Full
  <2>7. n = Nibble - 1 + r
    BY <2>1, Sizes
  <2> HIDE DEF r, b
  <2>4. q \in Nat /\ r % b \in Nat /\ r % b < b /\ r = q * b + (r % b)
    BY <2>1, Division
  <2>5. Long(n) \in Seq(Nat) /\ Len(Long(n)) = q + 1
    BY <2>1, <2>2, <2>4
  <2>6. /\ \A j \in 1 .. q : Long(n)[j] = b
        /\ Long(n)[q + 1] = r % b
    <3> HIDE DEF q
    <3>1. q + 1 \in 1 .. q + 1 /\ ~ (q + 1 <= q)
      BY <2>4
    <3> QED BY <2>2, <2>4, <3>1
  <2>9. n = Nibble - 1 + q * b + (r % b)
    <3> HIDE DEF q
    <3>1. q * b \in Nat
      BY <2>1, <2>4
    <3> QED BY <2>4, <2>7, <3>1, Sizes
  <2> QED BY <1>2, <2>3, <2>4, <2>5, <2>6, <2>9, Sizes DEF b
<1>3. Nibble \in Nat
  BY Sizes
<1> QED BY <1>1, <1>2, <1>3

LEMMA HalvesAre ==
  ASSUME NEW a \in Nat, NEW c \in Nat
  PROVE  /\ Halves(a, c) \in Seq(Nat) /\ Len(Halves(a, c)) = 1
         /\ Halves(a, c)[1] \div Nibble = Least(a, Nibble - 1)
         /\ Halves(a, c)[1] % Nibble = Least(c, Nibble - 1)
<1> DEFINE q == Least(a, Nibble - 1)
           r == Least(c, Nibble - 1)
<1>1. q \in Nat /\ r \in Nat /\ r < Nibble /\ Nibble \in Nat
  BY Sizes DEF Least
<1>2. Halves(a, c) = <<q * Nibble + r>>
  BY DEF Halves
<1> HIDE DEF q, r
<1>3. (q * Nibble + r) \div Nibble = q /\ (q * Nibble + r) % Nibble = r
  BY <1>1, DivisionIs
<1>4. q * Nibble + r \in Nat
  BY <1>1
<1> QED BY <1>2, <1>3, <1>4 DEF q, r

LEMMA ThreeLong ==
  ASSUME NEW S, NEW a \in Seq(S), NEW b \in Seq(S), NEW c \in Seq(S)
  PROVE  a \o b \o c \in Seq(S) /\ Len(a \o b \o c) = Len(a) + Len(b) + Len(c)
OBVIOUS

LEMMA FiveLong ==
  ASSUME NEW S, NEW a \in Seq(S), NEW b \in Seq(S), NEW c \in Seq(S), NEW d \in Seq(S),
         NEW e \in Seq(S)
  PROVE  /\ a \o b \o c \o d \o e \in Seq(S)
         /\ Len(a \o b \o c \o d \o e) = Len(a) + Len(b) + Len(c) + Len(d) + Len(e)
OBVIOUS

LEMMA ThreePieces ==
  ASSUME NEW S, NEW w, NEW p \in Nat, NEW a \in Seq(S), NEW b \in Seq(S), NEW c \in Seq(S),
         Piece(w, p, a \o b \o c)
  PROVE  /\ Piece(w, p, a) /\ Piece(w, p + Len(a), b) /\ Piece(w, p + Len(a) + Len(b), c)
<1>1. a \o b \in Seq(S) /\ Len(a \o b) = Len(a) + Len(b)
  BY ConcatProperties
<1>3. Piece(w, p, a \o b) /\ Piece(w, p + Len(a \o b), c)
  BY <1>1, PiecesOf
<1>4. Piece(w, p, a) /\ Piece(w, p + Len(a), b)
  BY <1>3, PiecesOf
<1>5. Len(a) \in Nat /\ Len(b) \in Nat
  BY LenProperties
<1>6. p + Len(a \o b) = p + Len(a) + Len(b)
  BY <1>1, <1>5
<1> QED BY <1>3, <1>4, <1>6

LEMMA FivePieces ==
  ASSUME NEW S, NEW w, NEW p \in Nat, NEW a \in Seq(S), NEW b \in Seq(S), NEW c \in Seq(S),
         NEW d \in Seq(S), NEW e \in Seq(S), Piece(w, p, a \o b \o c \o d \o e)
  PROVE  /\ Piece(w, p, a) /\ Piece(w, p + Len(a), b) /\ Piece(w, p + Len(a) + Len(b), c)
         /\ Piece(w, p + Len(a) + Len(b) + Len(c), d)
         /\ Piece(w, p + Len(a) + Len(b) + Len(c) + Len(d), e)
<1> DEFINE f == a \o b \o c
<1>1. f \in Seq(S) /\ Len(f) = Len(a) + Len(b) + Len(c)
  BY ThreeLong
<1>2. /\ Piece(w, p, f) /\ Piece(w, p + Len(f), d) /\ Piece(w, p + Len(f) + Len(d), e)
  <2> HIDE DEF f
  <2>1. Piece(w, p, f \o d \o e)
    BY DEF f
  <2> QED BY <1>1, <2>1, ThreePieces
<1>3. Piece(w, p, a) /\ Piece(w, p + Len(a), b) /\ Piece(w, p + Len(a) + Len(b), c)
  BY <1>2, ThreePieces
<1>4. Len(a) \in Nat /\ Len(b) \in Nat /\ Len(c) \in Nat /\ Len(d) \in Nat
  BY LenProperties
<1> HIDE DEF f
<1>5. /\ p + Len(f) = p + Len(a) + Len(b) + Len(c)
      /\ p + Len(f) + Len(d) = p + Len(a) + Len(b) + Len(c) + Len(d)
  BY <1>1, <1>4
<1> QED BY <1>2, <1>3, <1>5

(* That a part of a sequence is made of others. *)
OfThree(w, p, r, a, b, c) == SubSeq(w, p + 1, r) = a \o b \o c
OfFive(w, p, r, a, b, c, d, e) == SubSeq(w, p + 1, r) = a \o b \o c \o d \o e

LEMMA ThreeParts ==
  ASSUME NEW w \in Seq(Nat), NEW p \in Nat, NEW r \in Nat, p <= Len(w), r <= Len(w),
         NEW a \in Seq(Nat), NEW b \in Seq(Nat), NEW c \in Seq(Nat), NEW n \in Nat
  PROVE  Len(a) = 1 /\ Len(c) = n /\ OfThree(w, p, r, a, b, c) =>
         /\ r = p + 1 + Len(b) + n
         /\ Piece(w, p, a) /\ Piece(w, p + 1, b) /\ Piece(w, p + 1 + Len(b), c)
<1>5. PICK W : W = a \o b \o c
  OBVIOUS
<1>1. W \in Seq(Nat) /\ Len(W) = Len(a) + Len(b) + Len(c) /\ Len(b) \in Nat
  BY <1>5
<1>2. Piece(w, p, W) =>
        Piece(w, p, a) /\ Piece(w, p + Len(a), b) /\ Piece(w, p + Len(a) + Len(b), c)
  BY <1>5, ThreePieces
<1> SUFFICES ASSUME Len(a) = 1, Len(c) = n, Stands(w, p, r, W)
             PROVE  /\ r = p + 1 + Len(b) + n
                    /\ Piece(w, p, a) /\ Piece(w, p + 1, b) /\ Piece(w, p + 1 + Len(b), c)
  BY <1>5 DEF OfThree, Stands
<1>3. Len(W) = 1 + Len(b) + n
  BY <1>1
<1>4. r = p + Len(W) /\ Piece(w, p, W)
  <2>1. Len(W) # 0
    BY <1>1
  <2>2. W \in Seq(Nat) /\ W # <<>>
    BY <1>1, <2>1
  <2> QED BY <2>2, SubSeqIsPiece
<1> QED BY <1>1, <1>2, <1>3, <1>4

LEMMA FiveParts ==
  ASSUME NEW w \in Seq(Nat), NEW p \in Nat, NEW r \in Nat, p <= Len(w), r <= Len(w),
         NEW a \in Seq(Nat), NEW b \in Seq(Nat), NEW c \in Seq(Nat), NEW d \in Seq(Nat),
         NEW e \in Seq(Nat), NEW n \in Nat
  PROVE  Len(a) = 1 /\ Len(c) = n /\ Len(d) = 2 /\ OfFive(w, p, r, a, b, c, d, e) =>
         /\ r = p + 1 + Len(b) + n + 2 + Len(e)
         /\ Piece(w, p, a) /\ Piece(w, p + 1, b) /\ Piece(w, p + 1 + Len(b), c)
         /\ Piece(w, p + 1 + Len(b) + n, d) /\ Piece(w, p + 1 + Len(b) + n + 2, e)
<1>5. PICK W : W = a \o b \o c \o d \o e
  OBVIOUS
<1>1. /\ W \in Seq(Nat) /\ Len(W) = Len(a) + Len(b) + Len(c) + Len(d) + Len(e)
      /\ Len(b) \in Nat /\ Len(e) \in Nat
  BY <1>5
<1>2. Piece(w, p, W) =>
        /\ Piece(w, p, a) /\ Piece(w, p + Len(a), b) /\ Piece(w, p + Len(a) + Len(b), c)
        /\ Piece(w, p + Len(a) + Len(b) + Len(c), d)
        /\ Piece(w, p + Len(a) + Len(b) + Len(c) + Len(d), e)
  BY <1>5, FivePieces
<1> SUFFICES ASSUME Len(a) = 1, Len(c) = n, Len(d) = 2, Stands(w, p, r, W)
             PROVE  /\ r = p + 1 + Len(b) + n + 2 + Len(e)
                    /\ Piece(w, p, a) /\ Piece(w, p + 1, b) /\ Piece(w, p + 1 + Len(b), c)
                    /\ Piece(w, p + 1 + Len(b) + n, d)
                    /\ Piece(w, p + 1 + Len(b) + n + 2, e)
  BY <1>5 DEF OfFive, Stands
<1>3. Len(W) = 1 + Len(b) + n + 2 + Len(e)
  BY <1>1
<1>4. r = p + Len(W) /\ Piece(w, p, W)
  <2>1. Len(W) # 0
    BY <1>1
  <2>2. W \in Seq(Nat) /\ W # <<>>
    BY <1>1, <2>1
  <2> QED BY <2>2, SubSeqIsPiece
<1> QED BY <1>1, <1>2, <1>3, <1>4

-------------------------------------------------------------------------------
(* The tokens of a compressed section. *)

(* What a match is longer than the least, and where the plain bytes end.   *)
Excess(s, k) == IF s.tokens[k].match = 0 THEN 0 ELSE s.tokens[k].match - LeastMatch
Stop(s, k) == TokenIn(s, k) + 1 + Len(Long(s.tokens[k].plains)) + s.tokens[k].plains
IsCompressed(s) == IsSection(s) /\ s.compressed

LEMMA TokensLie ==
  ASSUME NEW s, IsCompressed(s)
  PROVE  /\ s.stored \in Seq(Nat) /\ s.content \in Seq(Nat)
         /\ Len(s.tokens) \in Nat /\ Len(s.tokens) >= 1 /\ DOMAIN s.tokens = 1 .. Len(s.tokens)
         /\ TokenIn(s, 1) = 0 /\ TokenOut(s, 1) = 0
         /\ TokenIn(s, Len(s.tokens) + 1) = Len(s.stored)
         /\ TokenOut(s, Len(s.tokens) + 1) = Len(s.content)
         /\ \A k \in 1 .. Len(s.tokens) + 1 :
              /\ TokenIn(s, k) \in Nat /\ TokenIn(s, k) <= Len(s.stored)
              /\ TokenOut(s, k) \in Nat /\ TokenOut(s, k) <= Len(s.content)
         /\ \A k \in 1 .. Len(s.tokens) :
              /\ s.tokens[k].plains \in Nat /\ s.tokens[k].match \in Nat
              /\ s.tokens[k].distance \in 0 .. Byte * Byte - 1
<1> DEFINE R == [in : 0 .. Len(s.stored), out : 0 .. Len(s.content), plains : 0 .. Len(s.content),
                 match : 0 .. Len(s.content), distance : 0 .. Byte * Byte - 1]
<1>1. /\ s.stored \in Seq(0 .. Byte - 1) /\ s.content \in Seq(0 .. Byte - 1)
      /\ s.tokens \in Seq(R) /\ s.tokens # <<>> /\ TokenIn(s, 1) = 0 /\ TokenOut(s, 1) = 0
  BY DEF IsCompressed, IsSection, Compressed, Tokens
<1>2. s.stored \in Seq(Nat) /\ s.content \in Seq(Nat)
  <2>1. 0 .. Byte - 1 \subseteq Nat
    BY Sizes
  <2>2. ASSUME NEW q \in Seq(0 .. Byte - 1) PROVE q \in Seq(Nat)
    <3>1. Len(q) \in Nat /\ q \in [1 .. Len(q) -> 0 .. Byte - 1]
      BY LenProperties
    <3>2. q \in [1 .. Len(q) -> Nat]
      BY <2>1, <3>1
    <3> QED BY <3>1, <3>2
  <2> QED BY <1>1, <2>2
<1>3. Len(s.stored) \in Nat /\ Len(s.content) \in Nat
  BY <1>2, LenProperties
<1>4. /\ Len(s.tokens) \in Nat \ {0} /\ DOMAIN s.tokens = 1 .. Len(s.tokens)
      /\ \A k \in 1 .. Len(s.tokens) : s.tokens[k] \in R
  <2> HIDE DEF R
  <2> QED BY <1>1, LenProperties, EmptySeq
<1>5. ASSUME NEW k \in 1 .. Len(s.tokens)
      PROVE  /\ TokenIn(s, k) \in 0 .. Len(s.stored) /\ TokenOut(s, k) \in 0 .. Len(s.content)
             /\ s.tokens[k].plains \in Nat /\ s.tokens[k].match \in Nat
             /\ s.tokens[k].distance \in 0 .. Byte * Byte - 1
  <2>1. s.tokens[k] \in R
    BY <1>4
  <2>2. TokenIn(s, k) = s.tokens[k].in /\ TokenOut(s, k) = s.tokens[k].out
    BY <1>4 DEF TokenIn, TokenOut
  <2> QED BY <1>3, <2>1, <2>2
<1>6. /\ TokenIn(s, Len(s.tokens) + 1) = Len(s.stored)
      /\ TokenOut(s, Len(s.tokens) + 1) = Len(s.content)
  <2>1. ~ (Len(s.tokens) + 1 \in DOMAIN s.tokens)
    BY <1>4
  <2> QED BY <2>1 DEF TokenIn, TokenOut
<1>7. ASSUME NEW k \in 1 .. Len(s.tokens) + 1
      PROVE  TokenIn(s, k) \in 0 .. Len(s.stored) /\ TokenOut(s, k) \in 0 .. Len(s.content)
  <2>1. k \in 1 .. Len(s.tokens) \/ k = Len(s.tokens) + 1
    BY <1>4
  <2> QED BY <1>3, <1>5, <1>6, <2>1
<1>8. ASSUME NEW k \in 1 .. Len(s.tokens) + 1
      PROVE  /\ TokenIn(s, k) \in Nat /\ TokenIn(s, k) <= Len(s.stored)
             /\ TokenOut(s, k) \in Nat /\ TokenOut(s, k) <= Len(s.content)
  BY <1>3, <1>7
<1>9. Len(s.tokens) >= 1
  BY <1>4
<1> HIDE DEF R
<1> QED BY <1>1, <1>2, <1>4, <1>5, <1>6, <1>8, <1>9

LEMMA TokenShape ==
  ASSUME NEW s, IsCompressed(s), NEW k \in 1 .. Len(s.tokens)
  PROVE  LET t == s.tokens[k]
             p == TokenIn(s, k)
         IN  /\ Match(s, k) = TokenOut(s, k) + t.plains
             /\ Match(s, k) + t.match = TokenOut(s, k + 1) /\ TokenOut(s, k + 1) <= Len(s.content)
             /\ Excess(s, k) \in Nat /\ Stop(s, k) \in Nat
             /\ p < TokenIn(s, k + 1) /\ TokenIn(s, k + 1) <= Len(s.stored)
             /\ s.stored[p + 1] \div Nibble = Least(t.plains, Nibble - 1)
             /\ s.stored[p + 1] % Nibble = Least(Excess(s, k), Nibble - 1)
             /\ Piece(s.stored, p + 1, Long(t.plains))
             /\ \A j \in 1 .. t.plains :
                  s.stored[p + 1 + Len(Long(t.plains)) + j] = s.content[TokenOut(s, k) + j]
             /\ t.match = 0 => k = Len(s.tokens) /\ TokenIn(s, k + 1) = Stop(s, k)
             /\ t.match # 0 =>
                  /\ Excess(s, k) = t.match - LeastMatch
                  /\ s.stored[Stop(s, k) + 1] + s.stored[Stop(s, k) + 2] * Byte = t.distance
                  /\ Piece(s.stored, Stop(s, k) + 2, Long(Excess(s, k)))
                  /\ TokenIn(s, k + 1) = Stop(s, k) + 2 + Len(Long(Excess(s, k)))
                  /\ t.distance \in 1 .. Match(s, k)
                  /\ \A i \in Match(s, k) + 1 .. Match(s, k) + t.match :
                       s.content[i] = s.content[i - t.distance]
<1>0. PICK t, p, r, o, plains, L :
        /\ t = s.tokens[k] /\ p = TokenIn(s, k) /\ r = TokenIn(s, k + 1) /\ o = TokenOut(s, k)
        /\ plains = SubSeq(s.content, o + 1, Match(s, k)) /\ L = Long(t.plains)
  OBVIOUS
<1>1. /\ k \in 1 .. Len(s.tokens) + 1 /\ k + 1 \in 1 .. Len(s.tokens) + 1
      /\ k \in DOMAIN s.tokens
  BY TokensLie
<1>2. /\ p \in Nat /\ r \in Nat /\ o \in Nat /\ p <= Len(s.stored) /\ r <= Len(s.stored)
      /\ TokenOut(s, k + 1) \in Nat /\ TokenOut(s, k + 1) <= Len(s.content)
      /\ t.plains \in Nat /\ t.match \in Nat /\ t.distance \in 0 .. Byte * Byte - 1
      /\ s.stored \in Seq(Nat) /\ s.content \in Seq(Nat)
  BY <1>0, <1>1, TokensLie
<1>3. /\ TokenOut(s, k + 1) = Match(s, k) + t.match
      /\ SubSeq(s.stored, p + 1, r) =
           IF t.match = 0 THEN EncodedLast(plains) ELSE Encoded(plains, t.distance, t.match)
      /\ t.match = 0 => k = Len(s.tokens)
      /\ t.match # 0 =>
           /\ t.match >= LeastMatch /\ t.distance \in 1 .. Match(s, k)
           /\ \A i \in Match(s, k) + 1 .. Match(s, k) + t.match :
                s.content[i] = s.content[i - t.distance]
  BY <1>0, <1>1 DEF IsCompressed, IsSection, Compressed
<1>4. Match(s, k) = o + t.plains
  BY <1>0 DEF Match
<1>5. /\ plains \in Seq(Nat) /\ Len(plains) = t.plains
      /\ \A j \in 1 .. t.plains : plains[j] = s.content[o + j]
  <2>0. PICK m : m = Match(s, k)
    OBVIOUS
  <2>1. m \in Nat /\ m = o + t.plains /\ m <= Len(s.content)
    <3>1. Len(s.content) \in Nat /\ TokenOut(s, k + 1) = m + t.match
      BY <1>2, <1>3, <2>0, LenProperties
    <3> QED BY <1>2, <1>4, <2>0, <3>1, SMTT(30)
  <2>5. ASSUME NEW i \in o + 1 .. m PROVE s.content[i] \in Nat
    <3>1. \A j \in 1 .. Len(s.content) : s.content[j] \in Nat
      BY <1>2, LenProperties
    <3>2. Len(s.content) \in Nat
      BY <1>2, LenProperties
    <3>3. i \in 1 .. Len(s.content)
      BY <1>2, <2>1, <3>2
    <3> QED BY <3>1, <3>3
  <2>6. plains = SubSeq(s.content, o + 1, m)
    BY <1>0, <2>0
  <2>2. /\ plains \in Seq(Nat)
        /\ Len(plains) = IF o + 1 <= m THEN m - (o + 1) + 1 ELSE 0
        /\ \A i \in 1 .. m - (o + 1) + 1 : plains[i] = s.content[o + 1 + i - 1]
    <3>1. o + 1 \in Int /\ m \in Int
      BY <1>2, <2>1
    <3> QED BY <2>5, <2>6, <3>1, SubSeqProperties
  <2>3. Len(plains) = t.plains
    BY <1>2, <2>1, <2>2, SMTT(30)
  <2>4. ASSUME NEW j \in 1 .. t.plains PROVE plains[j] = s.content[o + j]
    <3>1. j \in 1 .. m - (o + 1) + 1 /\ o + 1 + j - 1 = o + j
      BY <1>2, <2>1
    <3> QED BY <2>2, <3>1
  <2> QED BY <2>2, <2>3, <2>4
<1>6. L \in Seq(Nat) /\ Len(L) \in Nat
  <2>1. L \in Seq(Nat)
    BY <1>0, <1>2, LongIs
  <2> QED BY <2>1, LenProperties
<1>7. Stop(s, k) = p + 1 + Len(L) + t.plains /\ Stop(s, k) \in Nat
  <2>1. Stop(s, k) = p + 1 + Len(L) + t.plains
    BY <1>0 DEF Stop
  <2> QED BY <1>2, <1>6, <2>1
<1>8. CASE t.match = 0
  <2>0. PICK H : H = Halves(t.plains, 0)
    OBVIOUS
  <2>1. Excess(s, k) = 0
    BY <1>0, <1>8 DEF Excess
  <2>2. /\ H \in Seq(Nat) /\ Len(H) = 1 /\ H[1] \div Nibble = Least(t.plains, Nibble - 1)
        /\ H[1] % Nibble = Least(0, Nibble - 1)
    BY <1>2, <2>0, HalvesAre
  <2>3. EncodedLast(plains) = H \o L \o plains
    BY <1>0, <1>5, <2>0 DEF EncodedLast
  <2>4. SubSeq(s.stored, p + 1, r) = H \o L \o plains
    BY <1>3, <1>8, <2>3
  <2>8. /\ r = p + 1 + Len(L) + t.plains
        /\ Piece(s.stored, p, H) /\ Piece(s.stored, p + 1, L) /\ Piece(s.stored, p + 1 + Len(L), plains)
    <3>1. PICK w, n : w = s.stored /\ n = t.plains
      OBVIOUS
    <3>2. /\ plains \in Seq(Nat) /\ Len(plains) = n /\ L \in Seq(Nat) /\ H \in Seq(Nat)
          /\ Len(H) = 1 /\ n \in Nat /\ w \in Seq(Nat) /\ p <= Len(w) /\ r <= Len(w)
          /\ p \in Nat /\ r \in Nat /\ OfThree(w, p, r, H, L, plains)
      BY <1>2, <1>5, <1>6, <2>2, <2>4, <3>1 DEF OfThree
    <3>3. /\ r = p + 1 + Len(L) + n
          /\ Piece(w, p, H) /\ Piece(w, p + 1, L) /\ Piece(w, p + 1 + Len(L), plains)
      BY <3>2, ThreeParts
    <3> QED BY <3>1, <3>3
  <2>9. s.stored[p + 1] = H[1]
    BY <2>2, <2>8 DEF Piece
  <2>10. \A j \in 1 .. t.plains : s.stored[p + 1 + Len(L) + j] = s.content[o + j]
    BY <1>5, <2>8 DEF Piece
  <2>11. r = Stop(s, k) /\ p < r
    BY <1>2, <1>6, <1>7, <2>8
  <2> QED BY <1>0, <1>2, <1>3, <1>4, <1>7, <1>8, <2>1, <2>2, <2>8, <2>9, <2>10, <2>11
<1>9. CASE t.match # 0
  <2>0. PICK e, H, O, X :
          /\ e = t.match - LeastMatch /\ H = Halves(t.plains, e) /\ X = Long(e)
          /\ O = <<t.distance % Byte, t.distance \div Byte>>
    OBVIOUS
  <2>1. Excess(s, k) = e /\ e \in Nat
    <3>1. Excess(s, k) = e
      BY <1>0, <1>9, <2>0 DEF Excess
    <3>2. t.match >= LeastMatch /\ t.match \in Nat
      BY <1>2, <1>3, <1>9
    <3>3. e = t.match - LeastMatch
      BY <2>0
    <3> QED BY <3>1, <3>2, <3>3, Sizes
  <2>2. /\ H \in Seq(Nat) /\ Len(H) = 1 /\ H[1] \div Nibble = Least(t.plains, Nibble - 1)
        /\ H[1] % Nibble = Least(e, Nibble - 1)
    <3> QED BY <1>2, <2>0, <2>1, HalvesAre
  <2>3. X \in Seq(Nat) /\ Len(X) \in Nat
    <3>1. X \in Seq(Nat)
      BY <2>0, <2>1, LongIs
    <3> QED BY <3>1, LenProperties
  <2>4. O \in Seq(Nat) /\ Len(O) = 2 /\ O[1] + O[2] * Byte = t.distance
    <3>1. PICK d, q, m : d = t.distance /\ q = d \div Byte /\ m = d % Byte
      OBVIOUS
    <3>2. d \in Nat /\ Byte \in Nat /\ Byte # 0
      <4>1. d \in 0 .. Byte * Byte - 1
        BY <1>2, <3>1
      <4> QED BY <4>1, Sizes
    <3>3. q \in Nat /\ m \in 0 .. Byte - 1 /\ d = q * Byte + m
      BY <3>1, <3>2, Division
    <3>4. m \in Nat /\ q * Byte \in Nat
      BY <3>2, <3>3
    <3>5. O = <<m, q>>
      BY <2>0, <3>1
    <3>6. O \in Seq(Nat) /\ Len(O) = 2 /\ O[1] = m /\ O[2] = q
      BY <3>3, <3>4, <3>5
    <3>7. m + q * Byte = d
      BY <3>3, <3>4
    <3> QED BY <3>1, <3>6, <3>7
  <2>5. Encoded(plains, t.distance, t.match) = H \o L \o plains \o O \o X
    BY <1>0, <1>5, <2>0 DEF Encoded
  <2>6. SubSeq(s.stored, p + 1, r) = H \o L \o plains \o O \o X
    BY <1>3, <1>9, <2>5
  <2>10. /\ r = p + 1 + Len(L) + t.plains + 2 + Len(X)
         /\ Piece(s.stored, p, H) /\ Piece(s.stored, p + 1, L)
         /\ Piece(s.stored, p + 1 + Len(L), plains)
         /\ Piece(s.stored, p + 1 + Len(L) + t.plains, O)
         /\ Piece(s.stored, p + 1 + Len(L) + t.plains + 2, X)
    <3>1. PICK w, n : w = s.stored /\ n = t.plains
      OBVIOUS
    <3>2. /\ plains \in Seq(Nat) /\ Len(plains) = n /\ L \in Seq(Nat) /\ H \in Seq(Nat)
          /\ Len(H) = 1 /\ O \in Seq(Nat) /\ Len(O) = 2 /\ X \in Seq(Nat)
          /\ n \in Nat /\ w \in Seq(Nat) /\ p <= Len(w) /\ r <= Len(w)
          /\ p \in Nat /\ r \in Nat /\ OfFive(w, p, r, H, L, plains, O, X)
      BY <1>2, <1>5, <1>6, <2>2, <2>3, <2>4, <2>6, <3>1 DEF OfFive
    <3>3. /\ r = p + 1 + Len(L) + n + 2 + Len(X)
          /\ Piece(w, p, H) /\ Piece(w, p + 1, L) /\ Piece(w, p + 1 + Len(L), plains)
          /\ Piece(w, p + 1 + Len(L) + n, O) /\ Piece(w, p + 1 + Len(L) + n + 2, X)
      BY <3>2, FiveParts, SMTT(60)
    <3> QED BY <3>1, <3>3
  <2>11. s.stored[p + 1] = H[1]
    BY <2>2, <2>10 DEF Piece
  <2>12. \A j \in 1 .. t.plains : s.stored[p + 1 + Len(L) + j] = s.content[o + j]
    BY <1>5, <2>10 DEF Piece
  <2>13. s.stored[Stop(s, k) + 1] = O[1] /\ s.stored[Stop(s, k) + 2] = O[2]
    BY <1>7, <2>4, <2>10 DEF Piece
  <2>14. Piece(s.stored, Stop(s, k) + 2, X)
    BY <1>7, <2>10
  <2>15. r = Stop(s, k) + 2 + Len(X) /\ p < r
    BY <1>2, <1>6, <1>7, <2>3, <2>10, SMTT(30)
  <2>16. X = Long(Excess(s, k))
    BY <2>0, <2>1
  <2> QED BY <1>0, <1>2, <1>3, <1>4, <1>7, <1>9, <2>0, <2>1, <2>2, <2>4, <2>10, <2>11, <2>12,
             <2>13, <2>14, <2>15, <2>16
<1> QED BY <1>8, <1>9

-------------------------------------------------------------------------------
(* The loop of decompress: which token it is in and how far.  k is the     *)
(* token, j the number of full bytes that have been added to a length.     *)

Written(s, n) ==
  /\ output \in Seq(Nat) /\ Len(output) = n
  /\ \A i \in 1 .. n : output[i] = s.content[i]
FirstMatch(s, k) == LeastMatch + Least(Excess(s, k), Nibble - 1)
HasMatch(s, k) == k \in 1 .. Len(s.tokens) /\ s.tokens[k].match # 0

AtToken(s, k) ==
  k \in 1 .. Len(s.tokens) + 1 /\ ipos = TokenIn(s, k) /\ Written(s, TokenOut(s, k))
AtPlainLength(s, k, j) ==
  /\ k \in 1 .. Len(s.tokens) /\ s.tokens[k].plains >= Nibble - 1
  /\ j \in 0 .. Full(s.tokens[k].plains)
  /\ ipos = TokenIn(s, k) + j /\ nclen = Nibble - 1 + j * (Byte - 1)
  /\ clen = FirstMatch(s, k) /\ Written(s, TokenOut(s, k))
AtPlain(s, k) ==
  /\ k \in 1 .. Len(s.tokens)
  /\ ipos = TokenIn(s, k) + Len(Long(s.tokens[k].plains)) /\ nclen = s.tokens[k].plains
  /\ clen = FirstMatch(s, k) /\ Written(s, TokenOut(s, k))
AtOffset(s, k) ==
  /\ HasMatch(s, k) /\ ipos = Stop(s, k)
  /\ clen = FirstMatch(s, k) /\ Written(s, Match(s, k))
AtMatchLength(s, k, j) ==
  /\ HasMatch(s, k) /\ Excess(s, k) >= Nibble - 1 /\ j \in 0 .. Full(Excess(s, k))
  /\ ipos = Stop(s, k) + 2 + j /\ clen = LeastMatch + Nibble - 1 + j * (Byte - 1)
  /\ back = s.tokens[k].distance /\ Written(s, Match(s, k))
AtMatch(s, k) ==
  /\ HasMatch(s, k) /\ ipos = TokenIn(s, k + 1) /\ clen = s.tokens[k].match
  /\ back = s.tokens[k].distance /\ Written(s, Match(s, k))

Progress(s) ==
  /\ input = s.stored /\ outputSize = Len(s.content)
  /\ stage = "token" => \E k \in 1 .. Len(s.tokens) + 1 : AtToken(s, k)
  /\ stage = "plain_length" =>
       \E k \in 1 .. Len(s.tokens) : \E j \in 0 .. Full(s.tokens[k].plains) : AtPlainLength(s, k, j)
  /\ stage = "plain" => \E k \in 1 .. Len(s.tokens) : AtPlain(s, k)
  /\ stage = "offset" => \E k \in 1 .. Len(s.tokens) : AtOffset(s, k)
  /\ stage = "match_length" =>
       \E k \in 1 .. Len(s.tokens) : \E j \in 0 .. Full(Excess(s, k)) : AtMatchLength(s, k, j)
  /\ stage = "match" => \E k \in 1 .. Len(s.tokens) : AtMatch(s, k)
  /\ stage = "returned" => Written(s, Len(s.content))

Loop == {"token", "plain_length", "plain", "offset", "match_length", "match", "returned"}

(* The walk over the sections: those it has passed are known.              *)
KnownBelow(n) ==
  \A m \in DOMAIN fat : m < n /\ fat[m].kind = "elf" => Known(kernel_infos, fat[m].kernel)
TextOf(s) ==
  LET n == Len(s.content)
      lost == IF s.compressed THEN Padding(n) ELSE 0
      width == IF s.compressed /\ lost > n THEN lost
               ELSE IF s.compressed THEN n ELSE n + Padding(n)
  IN  /\ text \in Seq(Nat) /\ Len(text) = width
      /\ \A i \in 1 .. width : text[i] = IF i \in lost + 1 .. n THEN s.content[i] ELSE 0

Reading == Loop \cup {"section", "text", "read", "failed"}
Walk ==
  /\ stage \in Reading =>
       /\ fat \in FatBinaries /\ todo = {fat[i].kernel : i \in DOMAIN fat} /\ todo \subseteq Kernels
  /\ stage = "section" => \E n \in DOMAIN fat : pos = Start[n] /\ KnownBelow(n)
  /\ stage \in Loop =>
       \E n \in DOMAIN fat : \E s \in {fat[n]} :
         /\ pos = Start[n] + Align /\ KnownBelow(n)
         /\ s.kind = "elf" /\ IsCompressed(s) /\ Progress(s)
  /\ stage = "text" =>
       \E n \in DOMAIN fat : \E s \in {fat[n]} :
         pos = Start[n + 1] /\ KnownBelow(n) /\ s.kind = "elf" /\ TextOf(s)
  /\ stage = "read" => KnownBelow(Len(fat) + 1)

(* What is known of kernels, and what the server has of them.              *)
InfosOK ==
  /\ kernel_infos \in Seq([name : Kernels, host_fun : {Unset} \cup {Stub(k) : k \in Kernels}
                             \cup {CUfunction(k) : k \in Kernels},
                           params : {Layout[k] : k \in Kernels}, sized : {TRUE}])
  /\ \A i, j \in DOMAIN kernel_infos :
       /\ kernel_infos[i].params = Layout[kernel_infos[i].name]
       /\ kernel_infos[i].name = kernel_infos[j].name => i = j
       /\ kernel_infos[i].host_fun # Unset =>
            /\ kernel_infos[i].host_fun.kernel = kernel_infos[i].name
            /\ kernel_infos[i].name \in modules
Registration ==
  /\ handle \in BOOLEAN /\ restored \in BOOLEAN /\ loads \in 0 .. MaxFatBinaries
  /\ stage \in Stages /\ todo \subseteq Kernels /\ modules \subseteq Kernels
  /\ stage = "registering" /\ handle => todo \subseteq modules

(* The parameters of a launch that have been translated, and the others.   *)
Translated(k, o) ==
  LET p == Layout[k][o]
  IN  IF p.pointer /\ o < launch.param THEN memory_mg_get(launch.args[o]) ELSE launch.args[o]
LaunchOK ==
  /\ launch.at \in {"none", "unknown", "astray", "params", "delivered"}
  /\ launch.at \in {"params", "delivered"} =>
       LET k == launch.f.kernel
       IN  /\ DOMAIN launch = {"at", "f", "args", "param", "params", "buffer", "mistaken"}
           /\ k \in Kernels /\ k \in modules
           /\ launch.params = Layout[k]
           /\ launch.args \in Arguments(k)
           /\ launch.param \in 1 .. Len(Layout[k]) + 1
           /\ launch.at = "delivered" => launch.param = Len(Layout[k]) + 1
           /\ launch.buffer \in [1 .. ParamSize(k) + Word - 1 -> Bytes]
           /\ restored \/ launch.mistaken = {}
           /\ launch.mistaken = {} =>
                \A o \in DOMAIN Layout[k] :
                  Valued(Window(launch.buffer, Layout[k][o], Layout[k][o].size)) = Translated(k, o)

Counters == pos \in Nat /\ ipos \in Nat /\ nclen \in Nat /\ clen \in Nat /\ back \in Nat

LaunchInv == Walk /\ Counters /\ InfosOK /\ Registration /\ LaunchOK

-------------------------------------------------------------------------------
(* One lemma for each step of the loop. *)

LEMMA LongEnds ==
  ASSUME NEW n \in Nat
  PROVE  /\ Len(Long(n)) \in Nat
         /\ n < Nibble - 1 => Len(Long(n)) = 0
         /\ n >= Nibble - 1 => Len(Long(n)) = Full(n) + 1
<1>1. Long(n) \in Seq(Nat)
  BY LongIs
<1>2. Len(Long(n)) \in Nat
  BY <1>1
<1>3. n < Nibble - 1 => Long(n) = <<>>
  BY LongIs
<1>4. Len(<<>>) = 0
  OBVIOUS
<1> QED BY <1>2, <1>3, <1>4, LongIs

LEMMA WrittenStays ==
  ASSUME NEW s, NEW n, Written(s, n), output' = output
  PROVE  Written(s, n)'
BY DEF Written

LEMMA Joined ==
  ASSUME NEW a \in Seq(Nat), NEW b \in Seq(Nat)
  PROVE  /\ a \o b \in Seq(Nat) /\ Len(a \o b) = Len(a) + Len(b)
         /\ Len(a) \in Nat /\ Len(b) \in Nat
         /\ \A i \in 1 .. Len(a) : (a \o b)[i] = a[i]
         /\ \A i \in 1 .. Len(b) : (a \o b)[Len(a) + i] = b[i]
<1>1. a \o b \in Seq(Nat) /\ Len(a \o b) = Len(a) + Len(b) /\ Len(a) \in Nat /\ Len(b) \in Nat
  OBVIOUS
<1>2. ASSUME NEW i \in 1 .. Len(a) PROVE (a \o b)[i] = a[i]
  OBVIOUS
<1>3. ASSUME NEW i \in 1 .. Len(b) PROVE (a \o b)[Len(a) + i] = b[i]
  OBVIOUS
<1> QED BY <1>1, <1>2, <1>3

LEMMA WrittenGrows ==
  ASSUME NEW s, NEW n \in Nat, NEW m \in Nat, Written(s, n), NEW q \in Seq(Nat), Len(q) = m,
         \A j \in 1 .. m : q[j] = s.content[n + j], output' = output \o q
  PROVE  Written(s, n + m)'
<1>1. output \in Seq(Nat) /\ Len(output) = n /\ \A i \in 1 .. n : output[i] = s.content[i]
  BY DEF Written
<1>2. PICK w : w = output'
  OBVIOUS
<1>3. /\ w \in Seq(Nat) /\ Len(w) = n + m /\ \A i \in 1 .. n : w[i] = output[i]
      /\ \A i \in 1 .. m : w[n + i] = q[i]
  BY <1>1, <1>2, Joined
<1>4. ASSUME NEW i \in 1 .. n + m PROVE w[i] = s.content[i]
  <2>1. CASE i \in 1 .. n
    BY <1>1, <1>3, <2>1
  <2>2. CASE i \notin 1 .. n
    <3>1. i - n \in 1 .. m /\ n + (i - n) = i
      BY <2>2
    <3>2. w[n + (i - n)] = q[i - n] /\ q[i - n] = s.content[n + (i - n)]
      BY <1>3, <3>1
    <3> QED BY <3>1, <3>2
  <2> QED BY <2>1, <2>2
<1> QED BY <1>2, <1>3, <1>4 DEF Written

LEMMA TokenStep ==
  ASSUME NEW s, IsCompressed(s), Progress(s), token
  PROVE  Progress(s)' /\ stage' \in Loop
<1>1. /\ stage = "token" /\ ipos < Len(input) /\ input = s.stored /\ outputSize = Len(s.content)
      /\ nclen' = In(ipos) \div Nibble /\ clen' = LeastMatch + (In(ipos) % Nibble)
      /\ stage' = IF nclen' = Nibble - 1 THEN "plain_length" ELSE "plain"
      /\ input' = input /\ outputSize' = outputSize /\ output' = output /\ ipos' = ipos
  BY DEF token, Looping, Progress
<1>2. PICK k \in 1 .. Len(s.tokens) + 1 : AtToken(s, k)
  BY <1>1 DEF Progress
<1>3. ipos = TokenIn(s, k) /\ Written(s, TokenOut(s, k))
  BY <1>2 DEF AtToken
<1>4. k \in 1 .. Len(s.tokens)
  <2>1. k # Len(s.tokens) + 1
    BY <1>1, <1>3, TokensLie
  <2>2. Len(s.tokens) \in Nat
    BY TokensLie
  <2> QED BY <2>1, <2>2
<1>5. PICK n, e : n = s.tokens[k].plains /\ e = Excess(s, k)
  OBVIOUS
<1>6. /\ n \in Nat /\ e \in Nat
      /\ nclen' = Least(n, Nibble - 1) /\ clen' = LeastMatch + Least(e, Nibble - 1)
  BY <1>1, <1>3, <1>4, <1>5, TokenShape, TokensLie DEF In
<1>7. clen' = FirstMatch(s, k) /\ Written(s, TokenOut(s, k))'
  BY <1>1, <1>3, <1>5, <1>6, WrittenStays DEF FirstMatch
<1>8. CASE n >= Nibble - 1
  <2>1. nclen' = Nibble - 1 /\ stage' = "plain_length"
    BY <1>1, <1>6, <1>8, Sizes DEF Least
  <2>2. Full(n) \in Nat /\ 0 \in 0 .. Full(n)
    BY <1>6, <1>8, LongIs
  <2>3. TokenIn(s, k) + 0 = TokenIn(s, k) /\ Nibble - 1 + 0 * (Byte - 1) = Nibble - 1
    BY <1>2, TokensLie, Sizes
  <2>4. AtPlainLength(s, k, 0)'
    BY <1>1, <1>3, <1>4, <1>5, <1>7, <1>8, <2>1, <2>2, <2>3 DEF AtPlainLength
  <2> QED BY <1>1, <1>4, <1>5, <2>1, <2>2, <2>4 DEF Progress, Loop
<1>9. CASE n < Nibble - 1
  <2>1. nclen' = n /\ stage' = "plain"
    BY <1>1, <1>6, <1>9, Sizes DEF Least
  <2>2. Len(Long(n)) = 0
    BY <1>6, <1>9, LongEnds
  <2>3. TokenIn(s, k) + 0 = TokenIn(s, k)
    BY <1>2, TokensLie
  <2>4. AtPlain(s, k)'
    BY <1>1, <1>3, <1>4, <1>5, <1>7, <2>1, <2>2, <2>3 DEF AtPlain
  <2> QED BY <1>1, <1>4, <2>1, <2>4 DEF Progress, Loop
<1> QED BY <1>6, <1>8, <1>9, Sizes

LEMMA InputEndsStep ==
  ASSUME NEW s, IsCompressed(s), Progress(s), input_ends
  PROVE  Progress(s)' /\ stage' \in Loop
<1>1. /\ stage = "token" /\ ipos >= Len(input) /\ input = s.stored /\ outputSize = Len(s.content)
      /\ stage' = "returned"
      /\ input' = input /\ outputSize' = outputSize /\ output' = output
  BY DEF input_ends, Looping, Progress
<1>2. PICK k \in 1 .. Len(s.tokens) + 1 : AtToken(s, k)
  BY <1>1 DEF Progress
<1>3. ipos = TokenIn(s, k) /\ Written(s, TokenOut(s, k))
  BY <1>2 DEF AtToken
<1>4. k = Len(s.tokens) + 1
  <2>1. ASSUME k \in 1 .. Len(s.tokens) PROVE FALSE
    <3>1. /\ TokenIn(s, k) < TokenIn(s, k + 1) /\ TokenIn(s, k + 1) <= Len(s.stored)
      BY <2>1, TokenShape
    <3>2. TokenIn(s, k) \in Nat /\ TokenIn(s, k + 1) \in Nat /\ Len(s.stored) \in Nat
      <4>1. Len(s.tokens) \in Nat
        BY TokensLie
      <4>2. k + 1 \in 1 .. Len(s.tokens) + 1
        BY <2>1, <4>1
      <4>3. s.stored \in Seq(Nat)
        BY TokensLie
      <4> QED BY <1>2, <4>2, <4>3, TokensLie
    <3> QED BY <1>1, <1>3, <3>1, <3>2
  <2>2. Len(s.tokens) \in Nat
    BY TokensLie
  <2> QED BY <2>1, <2>2
<1>5. Written(s, Len(s.content))
  BY <1>3, <1>4, TokensLie
<1>6. Written(s, Len(s.content))'
  BY <1>1, <1>5, WrittenStays
<1> QED BY <1>1, <1>6 DEF Progress, Loop

(* What the bytes of a length say, one after the other.                    *)
LEMMA LengthByte ==
  ASSUME NEW w, NEW p \in Nat, NEW n \in Nat, n >= Nibble - 1, Piece(w, p, Long(n)),
         NEW j \in 0 .. Full(n)
  PROVE  /\ j = Full(n) \/ j + 1 \in 0 .. Full(n)
         /\ j # Full(n) =>
              /\ w[p + j + 1] = Byte - 1
              /\ j * (Byte - 1) + (Byte - 1) = (j + 1) * (Byte - 1)
         /\ j = Full(n) =>
              /\ w[p + j + 1] # Byte - 1 /\ j + 1 = Len(Long(n))
              /\ Nibble - 1 + j * (Byte - 1) + w[p + j + 1] = n
<1>1. /\ Full(n) \in Nat /\ Len(Long(n)) = Full(n) + 1
      /\ \A i \in 1 .. Full(n) : Long(n)[i] = Byte - 1
      /\ Long(n)[Full(n) + 1] \in Nat /\ Long(n)[Full(n) + 1] < Byte - 1
      /\ n = Nibble - 1 + Full(n) * (Byte - 1) + Long(n)[Full(n) + 1]
  BY LongIs
<1>2. j \in Nat /\ j <= Full(n) /\ j + 1 \in 1 .. Len(Long(n))
  BY <1>1
<1>3. w[p + j + 1] = Long(n)[j + 1]
  <2>1. w[p + (j + 1)] = Long(n)[j + 1]
    BY <1>2 DEF Piece
  <2>2. p + (j + 1) = p + j + 1
    BY <1>2
  <2> QED BY <2>1, <2>2
<1>4. Byte \in Nat /\ Byte - 1 \in Nat
  BY Sizes
<1>5. CASE j = Full(n)
  BY <1>1, <1>3, <1>4, <1>5
<1>6. CASE j # Full(n)
  <2>1. j + 1 \in 1 .. Full(n) /\ j + 1 \in 0 .. Full(n)
    BY <1>1, <1>2, <1>6
  <2>2. w[p + j + 1] = Byte - 1
    BY <1>1, <1>3, <2>1
  <2>3. PICK b \in Nat : b = Byte - 1
    BY <1>4
  <2>4. j * b + b = (j + 1) * b
    BY <1>2
  <2> QED BY <1>6, <2>1, <2>2, <2>3, <2>4
<1> QED BY <1>5, <1>6

LEMMA PlainLengthStep ==
  ASSUME NEW s, IsCompressed(s), Progress(s), plain_length
  PROVE  Progress(s)' /\ stage' \in Loop
<1>1. /\ stage = "plain_length" /\ input = s.stored /\ outputSize = Len(s.content)
      /\ ipos' = ipos + 1 /\ nclen' = nclen + In(ipos + 1)
      /\ stage' = IF In(ipos + 1) = Byte - 1 THEN "plain_length" ELSE "plain"
      /\ input' = input /\ outputSize' = outputSize /\ output' = output /\ clen' = clen
  BY DEF plain_length, Looping, Progress
<1>0. PICK k \in 1 .. Len(s.tokens) :
        \E j \in 0 .. Full(s.tokens[k].plains) : AtPlainLength(s, k, j)
  BY <1>1 DEF Progress
<1>2. PICK j \in 0 .. Full(s.tokens[k].plains) : AtPlainLength(s, k, j)
  BY <1>0
<1>3. PICK n, p : n = s.tokens[k].plains /\ p = TokenIn(s, k)
  OBVIOUS
<1>4. /\ n >= Nibble - 1 /\ j \in 0 .. Full(n)
      /\ ipos = p + j /\ nclen = Nibble - 1 + j * (Byte - 1)
      /\ clen = FirstMatch(s, k) /\ Written(s, TokenOut(s, k))
  BY <1>2, <1>3 DEF AtPlainLength
<1>5. n \in Nat /\ p \in Nat /\ Piece(s.stored, p + 1, Long(n))
  <2>1. k \in 1 .. Len(s.tokens) + 1
    BY TokensLie
  <2> QED BY <1>3, <2>1, TokensLie, TokenShape
<1>6. Full(n) \in Nat /\ j \in Nat /\ Byte - 1 \in Nat /\ Nibble - 1 \in Nat
  <2>1. Full(n) \in Nat
    BY <1>4, <1>5, LongIs
  <2> QED BY <1>4, <2>1, Sizes
<1>7. In(ipos + 1) = s.stored[p + 1 + j + 1]
  <2>1. ipos + 1 + 1 = p + 1 + j + 1
    BY <1>4, <1>5, <1>6
  <2> QED BY <1>1, <2>1 DEF In
<1>8. Written(s, TokenOut(s, k))'
  BY <1>1, <1>4, WrittenStays
<1>9. p + 1 \in Nat
  BY <1>5
<1>12. /\ j # Full(n) =>
            /\ s.stored[p + 1 + j + 1] = Byte - 1 /\ j + 1 \in 0 .. Full(n)
            /\ j * (Byte - 1) + (Byte - 1) = (j + 1) * (Byte - 1)
       /\ j = Full(n) =>
            /\ s.stored[p + 1 + j + 1] # Byte - 1 /\ j + 1 = Len(Long(n))
            /\ Nibble - 1 + j * (Byte - 1) + s.stored[p + 1 + j + 1] = n
  <2>1. PICK w, g : w = s.stored /\ g = p + 1
    OBVIOUS
  <2>2. n \in Nat /\ g \in Nat /\ n >= Nibble - 1 /\ Piece(w, g, Long(n)) /\ j \in 0 .. Full(n)
    BY <1>4, <1>5, <1>9, <2>1
  <2>3. /\ j = Full(n) \/ j + 1 \in 0 .. Full(n)
        /\ j # Full(n) =>
             /\ w[g + j + 1] = Byte - 1
             /\ j * (Byte - 1) + (Byte - 1) = (j + 1) * (Byte - 1)
        /\ j = Full(n) =>
             /\ w[g + j + 1] # Byte - 1 /\ j + 1 = Len(Long(n))
             /\ Nibble - 1 + j * (Byte - 1) + w[g + j + 1] = n
    BY <2>2, LengthByte
  <2> QED BY <2>1, <2>3
<1>10. CASE j = Full(n)
  <2>1. /\ s.stored[p + 1 + j + 1] # Byte - 1 /\ j + 1 = Len(Long(n))
        /\ Nibble - 1 + j * (Byte - 1) + s.stored[p + 1 + j + 1] = n
    BY <1>10, <1>12
  <2>2. stage' = "plain" /\ nclen' = n
    BY <1>1, <1>4, <1>7, <2>1
  <2>3. ipos' = p + Len(Long(n))
    <3>1. p + j + 1 = p + (j + 1)
      BY <1>5, <1>6
    <3> QED BY <1>1, <1>4, <2>1, <3>1
  <2>4. AtPlain(s, k)'
    BY <1>1, <1>3, <1>4, <1>8, <2>2, <2>3 DEF AtPlain
  <2> QED BY <1>1, <2>2, <2>4 DEF Progress, Loop
<1>11. CASE j # Full(n)
  <2>1. /\ s.stored[p + 1 + j + 1] = Byte - 1 /\ j + 1 \in 0 .. Full(n)
        /\ j * (Byte - 1) + (Byte - 1) = (j + 1) * (Byte - 1)
    BY <1>11, <1>12
  <2>2. stage' = "plain_length" /\ nclen' = nclen + (Byte - 1)
    BY <1>1, <1>7, <2>1
  <2>3. nclen' = Nibble - 1 + (j + 1) * (Byte - 1)
    <3>1. PICK b \in Nat, c \in Nat : b = Byte - 1 /\ c = Nibble - 1
      BY <1>6
    <3>2. j * b \in Nat
      BY <1>6
    <3>3. c + j * b + b = c + (j * b + b)
      BY <3>2
    <3> QED BY <1>4, <2>1, <2>2, <3>1, <3>3
  <2>4. ipos' = p + (j + 1)
    BY <1>1, <1>4, <1>5, <1>6
  <2>5. AtPlainLength(s, k, j + 1)'
    BY <1>1, <1>3, <1>4, <1>8, <2>1, <2>3, <2>4 DEF AtPlainLength
  <2> QED BY <1>1, <1>3, <2>1, <2>2, <2>5 DEF Progress, Loop
<1> QED BY <1>10, <1>11

LEMMA PlainStep ==
  ASSUME NEW s, IsCompressed(s), Progress(s), plain
  PROVE  Progress(s)' /\ stage' \in Loop
<1>1. /\ stage = "plain" /\ input = s.stored /\ outputSize = Len(s.content)
      /\ output' = output \o SubSeq(input, ipos + 2, ipos + 1 + nclen)
      /\ ipos' = ipos + 1 + nclen
      /\ stage' = IF ipos' >= Len(input) \/ Len(output') >= outputSize THEN "returned" ELSE "offset"
      /\ input' = input /\ outputSize' = outputSize /\ clen' = clen
  BY DEF plain, Looping, Progress
<1>2. PICK k \in 1 .. Len(s.tokens) : AtPlain(s, k)
  BY <1>1 DEF Progress
<1>3. PICK n, p, l, o, q, m :
        /\ n = s.tokens[k].plains /\ p = TokenIn(s, k) /\ l = Len(Long(n)) /\ o = TokenOut(s, k)
        /\ q = SubSeq(input, ipos + 2, ipos + 1 + nclen) /\ m = s.tokens[k].match
  OBVIOUS
<1>4. ipos = p + l /\ nclen = n /\ clen = FirstMatch(s, k) /\ Written(s, o)
  BY <1>2, <1>3 DEF AtPlain
<1>5. /\ k \in 1 .. Len(s.tokens) + 1 /\ k + 1 \in 1 .. Len(s.tokens) + 1
      /\ s.stored \in Seq(Nat) /\ Len(s.stored) \in Nat /\ Len(s.content) \in Nat
  <2>1. s.stored \in Seq(Nat) /\ s.content \in Seq(Nat) /\ Len(s.tokens) \in Nat
    BY TokensLie
  <2> QED BY <2>1
<1>6. /\ n \in Nat /\ p \in Nat /\ o \in Nat /\ m \in Nat
      /\ TokenIn(s, k + 1) \in Nat /\ TokenIn(s, k + 1) <= Len(s.stored)
      /\ TokenOut(s, k + 1) <= Len(s.content)
      /\ \A j \in 1 .. n : s.stored[p + 1 + l + j] = s.content[o + j]
      /\ Match(s, k) = o + n /\ Match(s, k) + m = TokenOut(s, k + 1)
  <2>1. /\ n \in Nat /\ p \in Nat /\ o \in Nat /\ m \in Nat
        /\ TokenIn(s, k + 1) \in Nat /\ TokenIn(s, k + 1) <= Len(s.stored)
        /\ TokenOut(s, k + 1) <= Len(s.content)
    BY <1>3, <1>5, TokensLie
  <2>2. Match(s, k) = o + n /\ Match(s, k) + m = TokenOut(s, k + 1)
    BY <1>3, TokenShape
  <2>3. \A j \in 1 .. n : s.stored[p + 1 + l + j] = s.content[o + j]
    BY <1>3, TokenShape, SMTT(30)
  <2> QED BY <2>1, <2>2, <2>3
<1>7. l \in Nat
  BY <1>3, <1>6, LongEnds
<1>8. Stop(s, k) = p + 1 + l + n
  BY <1>3 DEF Stop
<1>9. /\ Stop(s, k) <= TokenIn(s, k + 1)
      /\ m = 0 => k = Len(s.tokens) /\ TokenIn(s, k + 1) = Stop(s, k)
      /\ m # 0 => Stop(s, k) + 2 <= TokenIn(s, k + 1)
  <2>1. CASE m = 0
    <3>1. k = Len(s.tokens) /\ TokenIn(s, k + 1) = Stop(s, k)
      BY <1>3, <2>1, TokenShape
    <3> QED BY <1>6, <2>1, <3>1
  <2>2. CASE m # 0
    <3>1. TokenIn(s, k + 1) = Stop(s, k) + 2 + Len(Long(Excess(s, k))) /\ Excess(s, k) \in Nat
      BY <1>3, <2>2, TokenShape
    <3>2. Len(Long(Excess(s, k))) \in Nat
      BY <3>1, LongEnds
    <3>3. Stop(s, k) \in Nat
      BY <1>6, <1>7, <1>8
    <3> QED BY <2>2, <3>1, <3>2, <3>3
  <2> QED BY <2>1, <2>2
<1>10. /\ q \in Seq(Nat) /\ Len(q) = n
       /\ \A j \in 1 .. n : q[j] = s.content[o + j]
  <2>1. PICK a, b, w : a = p + l + 2 /\ b = p + l + 1 + n /\ w = s.stored
    OBVIOUS
  <2>2. /\ a \in Nat \ {0} /\ b \in Nat /\ b <= Len(w) /\ w \in Seq(Nat) /\ Len(w) \in Nat
        /\ q = SubSeq(w, a, b) /\ b - a + 1 = n /\ a = b - n + 1
    <3>6. p \in Nat /\ l \in Nat /\ n \in Nat
      BY <1>6, <1>7
    <3>7. a = p + l + 2 /\ b = p + l + 1 + n
      BY <2>1
    <3>1. a \in Nat \ {0} /\ b \in Nat /\ b - a + 1 = n /\ a = b - n + 1
      BY <3>6, <3>7
    <3>2. w \in Seq(Nat) /\ Len(w) \in Nat
      BY <1>5, <2>1
    <3>3. b <= Len(w)
      BY <1>5, <1>6, <1>7, <1>8, <1>9, <2>1
    <3>4. a = ipos + 2 /\ b = ipos + 1 + nclen
      BY <1>4, <1>6, <1>7, <2>1
    <3>5. q = SubSeq(w, a, b)
      BY <1>1, <1>3, <2>1, <3>4
    <3> QED BY <3>1, <3>2, <3>3, <3>5
  <2>3. \A i \in a .. b : w[i] \in Nat
    <3>1. \A i \in 1 .. Len(w) : w[i] \in Nat
      BY <2>2, LenProperties
    <3>2. \A i \in a .. b : i \in 1 .. Len(w)
      BY <2>2
    <3> QED BY <3>1, <3>2
  <2>4. /\ q \in Seq(Nat)
        /\ Len(q) = IF a <= b THEN b - a + 1 ELSE 0
        /\ \A i \in 1 .. b - a + 1 : q[i] = w[a + i - 1]
    BY <2>2, <2>3, SubSeqProperties
  <2>5. Len(q) = n
    BY <1>6, <2>2, <2>4
  <2>6. ASSUME NEW j \in 1 .. n PROVE q[j] = s.content[o + j]
    <3>1. j \in 1 .. b - a + 1 /\ a + j - 1 = p + 1 + l + j
      BY <1>6, <1>7, <2>1, <2>2
    <3> QED BY <1>6, <2>1, <2>4, <3>1
  <2> QED BY <2>4, <2>5, <2>6
<1>11. Written(s, Match(s, k))'
  <2>1. output' = output \o q
    BY <1>1, <1>3
  <2>2. Written(s, o + n)'
    BY <1>4, <1>6, <1>10, <2>1, WrittenGrows
  <2> QED BY <1>6, <2>2
<1>12. ipos' = Stop(s, k) /\ Len(output') = Match(s, k)
  <2>1. Len(output') = Match(s, k)
    BY <1>11 DEF Written
  <2> QED BY <1>1, <1>4, <1>6, <1>7, <1>8, <2>1, SMTT(30)
<1>13. CASE m = 0
  <2>1. stage' = "returned"
    BY <1>1, <1>5, <1>9, <1>12, <1>13, TokensLie
  <2>2. Match(s, k) = Len(s.content)
    <3>1. Match(s, k) = TokenOut(s, Len(s.tokens) + 1)
      BY <1>6, <1>9, <1>13
    <3> QED BY <3>1, TokensLie
  <2> QED BY <1>1, <1>11, <2>1, <2>2 DEF Progress, Loop
<1>14. CASE m # 0
  <2>1. stage' = "offset"
    <3>1. Stop(s, k) < Len(s.stored)
      BY <1>5, <1>6, <1>7, <1>8, <1>9, <1>14
    <3>2. Match(s, k) < Len(s.content)
      BY <1>5, <1>6, <1>14
    <3>3. ~ (ipos' >= Len(input)) /\ ~ (Len(output') >= outputSize)
      <4>1. Stop(s, k) \in Nat /\ Match(s, k) \in Nat
        BY <1>6, <1>7, <1>8
      <4>2. input = s.stored /\ outputSize = Len(s.content)
        BY <1>1
      <4> QED BY <1>5, <1>12, <3>1, <3>2, <4>1, <4>2
    <3> QED BY <1>1, <3>3
  <2>2. AtOffset(s, k)'
    BY <1>1, <1>3, <1>4, <1>11, <1>12, <1>14 DEF AtOffset, HasMatch
  <2> QED BY <1>1, <2>1, <2>2 DEF Progress, Loop
<1> QED BY <1>13, <1>14

LEMMA OffsetStep ==
  ASSUME NEW s, IsCompressed(s), Progress(s), offset
  PROVE  Progress(s)' /\ stage' \in Loop
<1>1. /\ stage = "offset" /\ input = s.stored /\ outputSize = Len(s.content)
      /\ back' = In(ipos) + In(ipos + 1) * Byte /\ ipos' = ipos + 2
      /\ stage' = IF clen = Nibble - 1 + LeastMatch THEN "match_length" ELSE "match"
      /\ input' = input /\ outputSize' = outputSize /\ output' = output /\ clen' = clen
  BY DEF offset, Looping, Progress
<1>2. PICK k \in 1 .. Len(s.tokens) : AtOffset(s, k)
  BY <1>1 DEF Progress
<1>3. HasMatch(s, k) /\ ipos = Stop(s, k) /\ clen = FirstMatch(s, k) /\ Written(s, Match(s, k))
  BY <1>2 DEF AtOffset
<1>4. PICK e, q : e = Excess(s, k) /\ q = Stop(s, k)
  OBVIOUS
<1>5. /\ e \in Nat /\ q \in Nat /\ e = s.tokens[k].match - LeastMatch
      /\ s.tokens[k].match \in Nat
      /\ s.stored[q + 1] + s.stored[q + 2] * Byte = s.tokens[k].distance
      /\ TokenIn(s, k + 1) = q + 2 + Len(Long(e))
  BY <1>3, <1>4, TokensLie, TokenShape DEF HasMatch
<1>6. back' = s.tokens[k].distance
  <2>1. ipos + 1 + 1 = q + 2
    BY <1>3, <1>4, <1>5
  <2> QED BY <1>1, <1>3, <1>4, <1>5, <2>1 DEF In
<1>7. Written(s, Match(s, k))'
  BY <1>1, <1>3, WrittenStays
<1>8. clen = LeastMatch + Least(e, Nibble - 1)
  BY <1>3, <1>4 DEF FirstMatch
<1>9. CASE e >= Nibble - 1
  <2>1. stage' = "match_length" /\ clen' = LeastMatch + Nibble - 1
    BY <1>1, <1>5, <1>8, <1>9, Sizes, SMTT(30) DEF Least
  <2>2. 0 \in 0 .. Full(e)
    <3>1. Full(e) \in Nat
      BY <1>5, <1>9, LongIs
    <3> QED BY <3>1
  <2>3. ipos' = q + 2 + 0 /\ clen' = LeastMatch + Nibble - 1 + 0 * (Byte - 1)
    BY <1>1, <1>3, <1>4, <1>5, <2>1, Sizes
  <2>4. AtMatchLength(s, k, 0)'
    BY <1>1, <1>3, <1>4, <1>6, <1>7, <1>9, <2>2, <2>3 DEF AtMatchLength
  <2> QED BY <1>1, <1>4, <2>1, <2>2, <2>4 DEF Progress, Loop
<1>10. CASE e < Nibble - 1
  <2>1. stage' = "match" /\ clen' = s.tokens[k].match
    <3>1. /\ clen = LeastMatch + e /\ clen # Nibble - 1 + LeastMatch
      BY <1>5, <1>8, <1>10, Sizes, SMTT(30) DEF Least
    <3>2. LeastMatch + e = s.tokens[k].match
      BY <1>5, Sizes
    <3> QED BY <1>1, <3>1, <3>2
  <2>2. Len(Long(e)) = 0
    BY <1>5, <1>10, LongEnds
  <2>3. ipos' = TokenIn(s, k + 1)
    BY <1>1, <1>3, <1>4, <1>5, <2>2
  <2>4. AtMatch(s, k)'
    BY <1>1, <1>3, <1>6, <1>7, <2>1, <2>3 DEF AtMatch
  <2> QED BY <1>1, <2>1, <2>4 DEF Progress, Loop
<1> QED BY <1>5, <1>9, <1>10, Sizes

LEMMA MatchLengthStep ==
  ASSUME NEW s, IsCompressed(s), Progress(s), match_length
  PROVE  Progress(s)' /\ stage' \in Loop
<1>1. /\ stage = "match_length" /\ input = s.stored /\ outputSize = Len(s.content)
      /\ ipos' = ipos + 1 /\ clen' = clen + In(ipos)
      /\ stage' = IF In(ipos) = Byte - 1 THEN "match_length" ELSE "match"
      /\ input' = input /\ outputSize' = outputSize /\ output' = output /\ back' = back
  BY DEF match_length, Looping, Progress
<1>0. PICK k \in 1 .. Len(s.tokens) : \E j \in 0 .. Full(Excess(s, k)) : AtMatchLength(s, k, j)
  BY <1>1 DEF Progress
<1>2. PICK j \in 0 .. Full(Excess(s, k)) : AtMatchLength(s, k, j)
  BY <1>0
<1>3. PICK e, q : e = Excess(s, k) /\ q = Stop(s, k)
  OBVIOUS
<1>4. /\ HasMatch(s, k) /\ e >= Nibble - 1 /\ j \in 0 .. Full(e)
      /\ ipos = q + 2 + j /\ clen = LeastMatch + Nibble - 1 + j * (Byte - 1)
      /\ back = s.tokens[k].distance /\ Written(s, Match(s, k))
  BY <1>2, <1>3 DEF AtMatchLength
<1>5. /\ e \in Nat /\ q \in Nat /\ e = s.tokens[k].match - LeastMatch
      /\ s.tokens[k].match \in Nat
      /\ Piece(s.stored, q + 2, Long(e)) /\ TokenIn(s, k + 1) = q + 2 + Len(Long(e))
  BY <1>3, <1>4, TokensLie, TokenShape DEF HasMatch
<1>6. /\ Full(e) \in Nat /\ j \in Nat /\ Byte - 1 \in Nat /\ Nibble - 1 \in Nat
      /\ LeastMatch \in Nat /\ q + 2 \in Nat
  <2>1. Full(e) \in Nat
    BY <1>4, <1>5, LongIs
  <2>2. j \in Nat /\ q + 2 \in Nat
    <3>1. j \in 0 .. Full(e) /\ q \in Nat
      BY <1>4, <1>5
    <3> QED BY <2>1, <3>1
  <2> QED BY <2>1, <2>2, Sizes
<1>7. In(ipos) = s.stored[q + 2 + j + 1]
  BY <1>1, <1>4 DEF In
<1>8. Written(s, Match(s, k))'
  BY <1>1, <1>4, WrittenStays
<1>9. /\ j # Full(e) =>
            /\ s.stored[q + 2 + j + 1] = Byte - 1 /\ j + 1 \in 0 .. Full(e)
            /\ j * (Byte - 1) + (Byte - 1) = (j + 1) * (Byte - 1)
      /\ j = Full(e) =>
            /\ s.stored[q + 2 + j + 1] # Byte - 1 /\ j + 1 = Len(Long(e))
            /\ Nibble - 1 + j * (Byte - 1) + s.stored[q + 2 + j + 1] = e
  <2>1. PICK w, g : w = s.stored /\ g = q + 2
    OBVIOUS
  <2>2. e \in Nat /\ g \in Nat /\ e >= Nibble - 1 /\ Piece(w, g, Long(e)) /\ j \in 0 .. Full(e)
    BY <1>4, <1>5, <1>6, <2>1
  <2>3. /\ j = Full(e) \/ j + 1 \in 0 .. Full(e)
        /\ j # Full(e) =>
             /\ w[g + j + 1] = Byte - 1
             /\ j * (Byte - 1) + (Byte - 1) = (j + 1) * (Byte - 1)
        /\ j = Full(e) =>
             /\ w[g + j + 1] # Byte - 1 /\ j + 1 = Len(Long(e))
             /\ Nibble - 1 + j * (Byte - 1) + w[g + j + 1] = e
    BY <2>2, LengthByte
  <2> QED BY <2>1, <2>3
<1>10. PICK b, c, m, x :
         /\ b = Byte - 1 /\ c = Nibble - 1 /\ m = LeastMatch /\ x = s.stored[q + 2 + j + 1]
  OBVIOUS
<1>11. /\ b \in Nat /\ c \in Nat /\ m \in Nat /\ j * b \in Nat
       /\ clen = m + c + j * b /\ clen' = clen + x
  <2>1. b \in Nat /\ c \in Nat /\ m \in Nat
    BY <1>6, <1>10
  <2>2. clen = m + Nibble - 1 + j * b /\ clen' = clen + x /\ m + Nibble - 1 = m + c
    BY <1>1, <1>4, <1>6, <1>7, <1>10, Sizes
  <2> QED BY <1>6, <2>1, <2>2
<1>12. CASE j = Full(e)
  <2>1. x # b /\ j + 1 = Len(Long(e)) /\ c + j * b + x = e
    BY <1>9, <1>10, <1>12
  <2>2. stage' = "match"
    BY <1>1, <1>7, <1>10, <2>1
  <2>3. clen' = s.tokens[k].match
    <3>1. x \in Int
      <4>1. s.stored[q + 2 + (j + 1)] = Long(e)[j + 1]
        <5>1. j + 1 \in 1 .. Len(Long(e))
          BY <1>6, <2>1
        <5> QED BY <1>5, <5>1 DEF Piece
      <4>2. Long(e)[j + 1] \in Nat
        BY <1>4, <1>5, <1>12, LongIs
      <4>3. q + 2 + (j + 1) = q + 2 + j + 1
        BY <1>5, <1>6
      <4> QED BY <1>10, <4>1, <4>2, <4>3
    <3>2. m + c + j * b + x = m + (c + j * b + x)
      BY <1>11, <3>1
    <3>3. m + e = s.tokens[k].match
      <4>1. e = s.tokens[k].match - m /\ s.tokens[k].match \in Nat /\ m \in Nat
        BY <1>5, <1>10, <1>11
      <4> QED BY <4>1
    <3> QED BY <1>11, <2>1, <3>2, <3>3
  <2>4. ipos' = TokenIn(s, k + 1)
    <3>1. q + 2 + j + 1 = q + 2 + (j + 1)
      BY <1>5, <1>6
    <3> QED BY <1>1, <1>4, <1>5, <2>1, <3>1
  <2>5. AtMatch(s, k)'
    BY <1>1, <1>4, <1>8, <2>3, <2>4 DEF AtMatch
  <2> QED BY <1>1, <2>2, <2>5 DEF Progress, Loop
<1>13. CASE j # Full(e)
  <2>1. x = b /\ j + 1 \in 0 .. Full(e) /\ j * b + b = (j + 1) * b
    BY <1>9, <1>10, <1>13
  <2>2. stage' = "match_length"
    BY <1>1, <1>7, <1>10, <2>1
  <2>3. clen' = LeastMatch + Nibble - 1 + (j + 1) * (Byte - 1)
    <3>1. m + c + j * b + b = m + c + (j * b + b)
      BY <1>11
    <3>2. m + c = LeastMatch + Nibble - 1
      BY <1>10, Sizes
    <3> QED BY <1>10, <1>11, <2>1, <3>1, <3>2
  <2>4. ipos' = q + 2 + (j + 1)
    BY <1>1, <1>4, <1>5, <1>6
  <2>5. AtMatchLength(s, k, j + 1)'
    BY <1>1, <1>3, <1>4, <1>8, <2>1, <2>3, <2>4 DEF AtMatchLength
  <2> QED BY <1>1, <1>3, <2>1, <2>2, <2>5 DEF Progress, Loop
<1> QED BY <1>12, <1>13

(* What a match writes: each byte is the one back before it.               *)
MatchLoop(f, old, b, c) ==
  f = [i \in 1 .. c |-> IF i <= b THEN old[Len(old) - b + i] ELSE f[i - b]]

LEMMA MatchChooses ==
  ASSUME match, NEW f, MatchLoop(f, output, back, clen)
  PROVE  \E g : MatchLoop(g, output, back, clen) /\ output' = output \o g
<1> DEFINE g == CHOOSE h : MatchLoop(h, output, back, clen)
<1>1. MatchLoop(g, output, back, clen)
  BY Zenon
<1>2. output' = output \o g
  BY Zenon DEF match, MatchLoop
<1> QED BY <1>1, <1>2, Zenon

LEMMA MatchRepeats ==
  ASSUME NEW old \in Seq(Nat), NEW b \in Nat, NEW c \in Nat, 1 <= b, b <= Len(old),
         NEW h \in [1 .. c -> Nat],
         \A i \in 1 .. c : h[i] = IF i <= b THEN old[Len(old) - b + i] ELSE h[i - b]
  PROVE  /\ MatchLoop(h, old, b, c)
         /\ \A f : MatchLoop(f, old, b, c) => f = h
<1>1. MatchLoop(h, old, b, c)
  <2>1. h = [i \in 1 .. c |-> h[i]]
    OBVIOUS
  <2>2. [i \in 1 .. c |-> h[i]] = [i \in 1 .. c |-> IF i <= b THEN old[Len(old) - b + i] ELSE h[i - b]]
    OBVIOUS
  <2> QED BY <2>1, <2>2 DEF MatchLoop
<1>2. ASSUME NEW f, MatchLoop(f, old, b, c) PROVE f = h
  <2>1. f = [i \in 1 .. c |-> IF i <= b THEN old[Len(old) - b + i] ELSE f[i - b]]
    BY <1>2 DEF MatchLoop
  <2>2. DOMAIN f = 1 .. c /\ f = [i \in 1 .. c |-> f[i]]
    BY <2>1
  <2>3. \A i \in 1 .. c : f[i] = IF i <= b THEN old[Len(old) - b + i] ELSE f[i - b]
    BY <2>1
  <2>4. ASSUME NEW i \in 1 .. c, f[i] # h[i] PROVE FALSE
    <3> DEFINE B == {j \in 1 .. c : f[j] # h[j]}
    <3>1. B \subseteq Nat /\ B # {}
      <4>1. i \in B
        BY <2>4
      <4>2. B \subseteq Nat
        OBVIOUS
      <4> QED BY <4>1, <4>2
    <3>2. PICK m \in B : \A j \in B : m <= j
      <4> HIDE DEF B
      <4> QED BY <3>1, LeastOf, Zenon
    <3>3. m \in 1 .. c /\ f[m] # h[m]
      OBVIOUS
    <3>4. ~ (m <= b)
      BY <2>3, <3>3
    <3>5. m - b \in 1 .. c /\ ~ (m <= m - b)
      BY <3>3, <3>4
    <3>6. f[m - b] = h[m - b]
      BY <3>2, <3>5
    <3>7. f[m] = f[m - b] /\ h[m] = h[m - b]
      BY <2>3, <3>3, <3>4
    <3> QED BY <3>3, <3>6, <3>7
  <2>5. h = [i \in 1 .. c |-> h[i]] /\ \A i \in 1 .. c : f[i] = h[i]
    BY <2>4
  <2> QED BY <2>2, <2>5
<1> QED BY <1>1, <1>2

LEMMA MatchStep ==
  ASSUME NEW s, IsCompressed(s), Progress(s), match
  PROVE  Progress(s)' /\ stage' \in Loop
<1>1. /\ stage = "match" /\ input = s.stored /\ outputSize = Len(s.content)
      /\ stage' = "token" /\ input' = input /\ outputSize' = outputSize /\ ipos' = ipos
  BY DEF match, Looping, Progress
<1>2. PICK k \in 1 .. Len(s.tokens) : AtMatch(s, k)
  BY <1>1 DEF Progress
<1>3. /\ HasMatch(s, k) /\ ipos = TokenIn(s, k + 1) /\ clen = s.tokens[k].match
      /\ back = s.tokens[k].distance /\ Written(s, Match(s, k))
  BY <1>2 DEF AtMatch
<1>4. PICK n, c, b : n = Match(s, k) /\ c = s.tokens[k].match /\ b = s.tokens[k].distance
  OBVIOUS
<1>5. /\ k \in 1 .. Len(s.tokens) + 1 /\ k + 1 \in 1 .. Len(s.tokens) + 1
      /\ Len(s.content) \in Nat /\ s.content \in Seq(Nat)
  <2>1. s.content \in Seq(Nat) /\ Len(s.tokens) \in Nat
    BY TokensLie
  <2> QED BY <2>1
<1>6. /\ c \in Nat /\ n \in Nat /\ n + c = TokenOut(s, k + 1) /\ n + c <= Len(s.content)
      /\ b \in 1 .. n /\ \A i \in n + 1 .. n + c : s.content[i] = s.content[i - b]
  <2>1. c \in Nat /\ TokenOut(s, k) \in Nat /\ s.tokens[k].plains \in Nat
    BY <1>4, <1>5, TokensLie
  <2>2. n = TokenOut(s, k) + s.tokens[k].plains
    BY <1>4, TokenShape
  <2>3. n + c = TokenOut(s, k + 1) /\ n + c <= Len(s.content)
    BY <1>4, TokenShape
  <2>4. b \in 1 .. n /\ \A i \in n + 1 .. n + c : s.content[i] = s.content[i - b]
    BY <1>3, <1>4, TokenShape DEF HasMatch
  <2>5. n \in Nat
    BY <2>1, <2>2
  <2> QED BY <2>1, <2>3, <2>4, <2>5
<1>7. PICK old : old = output
  OBVIOUS
<1>8. old \in Seq(Nat) /\ Len(old) = n /\ \A i \in 1 .. n : old[i] = s.content[i]
  BY <1>3, <1>4, <1>7 DEF Written
<1>9. PICK h : h = [i \in 1 .. c |-> s.content[n + i]]
  OBVIOUS
<1>10. h \in [1 .. c -> Nat] /\ h \in Seq(Nat) /\ Len(h) = c /\ \A i \in 1 .. c : h[i] = s.content[n + i]
  <2>1. \A j \in 1 .. Len(s.content) : s.content[j] \in Nat
    BY <1>5
  <2>2. \A i \in 1 .. c : n + i \in 1 .. Len(s.content)
    BY <1>5, <1>6
  <2>3. \A i \in 1 .. c : s.content[n + i] \in Nat
    BY <2>1, <2>2
  <2>4. h \in [1 .. c -> Nat]
    BY <1>9, <2>3
  <2>5. c \in Nat
    BY <1>6
  <2>6. h \in Seq(Nat) /\ Len(h) = c
    BY <2>4, <2>5
  <2> QED BY <1>9, <2>4, <2>6
<1>11. ASSUME NEW i \in 1 .. c
       PROVE  h[i] = IF i <= b THEN old[Len(old) - b + i] ELSE h[i - b]
  <2>4. n + i \in n + 1 .. n + c
    BY <1>6
  <2>1. /\ n + i \in n + 1 .. n + c /\ s.content[n + i] = s.content[n + i - b] /\ h[i] = s.content[n + i]
    BY <1>6, <1>10, <2>4
  <2>2. CASE i <= b
    <3>1. n - b + i \in 1 .. n /\ n - b + i = n + i - b
      BY <1>6, <2>2
    <3> QED BY <1>8, <2>1, <2>2, <3>1
  <2>3. CASE ~ (i <= b)
    <3>1. i - b \in 1 .. c /\ n + (i - b) = n + i - b
      BY <1>6, <2>3
    <3> QED BY <1>10, <2>1, <2>3, <3>1
  <2> QED BY <2>2, <2>3
<1>12. b \in Nat /\ 1 <= b /\ b <= Len(old)
  BY <1>6, <1>8
<1>13. MatchLoop(h, old, b, c) /\ \A f : MatchLoop(f, old, b, c) => f = h
  BY <1>6, <1>8, <1>10, <1>11, <1>12, MatchRepeats, ZenonT(60)
<1>14. output' = output \o h
  <2>1. MatchLoop(h, output, back, clen) /\ \A f : MatchLoop(f, output, back, clen) => f = h
    BY <1>3, <1>4, <1>7, <1>13
  <2>2. PICK g : MatchLoop(g, output, back, clen) /\ output' = output \o g
    BY <2>1, MatchChooses
  <2> QED BY <2>1, <2>2
<1>15. Written(s, n + c)'
  <2>1. Written(s, n)
    BY <1>3, <1>4
  <2> QED BY <1>6, <1>10, <1>14, <2>1, WrittenGrows
<1>16. AtToken(s, k + 1)'
  <2>1. Written(s, TokenOut(s, k + 1))'
    BY <1>6, <1>15
  <2> QED BY <1>1, <1>3, <1>5, <2>1 DEF AtToken
<1> QED BY <1>1, <1>5, <1>16 DEF Progress, Loop

-------------------------------------------------------------------------------
(* Where the sections of a fat binary start. *)

LEMMA PaddingIs ==
  ASSUME NEW n \in Nat
  PROVE  /\ Padding(n) \in Nat /\ Padding(n) < Align
         /\ \E q \in Nat : n + Padding(n) = q * Align
<1>1. PICK a \in Nat, d \in {(-n) \div Align}, r \in {(-n) % Align} :
       a = Align /\ a >= 1 /\ d = (-n) \div a /\ r = (-n) % a
  BY Sizes
<1>2. d \in Int /\ r \in 0 .. a - 1 /\ -n = a * d + r
  BY <1>1
<1>3. PICK q \in Int : q = -d
  BY <1>2
<1>4. n + r = q * a
  BY <1>1, <1>2, <1>3
<1>5. q \in Nat
  <2>1. ASSUME q < 0 PROVE FALSE
    <3>1. q * a < 0
      BY <1>1, <2>1
    <3> QED BY <1>2, <1>4, <3>1
  <2> QED BY <2>1
<1>6. Padding(n) = r
  BY <1>1 DEF Padding
<1>7. n + Padding(n) = q * Align
  BY <1>1, <1>4, <1>6
<1>8. Padding(n) \in Nat /\ Padding(n) < Align
  BY <1>1, <1>2, <1>6
<1> QED BY <1>5, <1>7, <1>8

LEMMA PaddingFromAligned ==
  ASSUME NEW n \in Nat, NEW q \in Nat
  PROVE  Padding(q * Align + n) = Padding(n)
<1>1. PICK a \in Nat, x \in Nat, m \in Nat : a = Align /\ x = q * a /\ m = x + n
  <2>1. Align \in Nat
    BY Sizes
  <2> QED BY <2>1
<1>2. PICK d, e : d = Padding(n) /\ e = Padding(m)
  OBVIOUS
<1>3. d \in Nat /\ d < a /\ e \in Nat /\ e < a
  BY <1>1, <1>2, PaddingIs
<1>4. PICK i \in Nat : n + d = i * a
  BY <1>1, <1>2, PaddingIs
<1>5. PICK j \in Nat : m + e = j * a
  BY <1>1, <1>2, PaddingIs
<1>6. (q + i) * a = x + i * a
  BY <1>1
<1>7. Row(q + i, a, e) = Row(j, a, d)
  <2>1. i * a \in Nat /\ j * a \in Nat
    BY <1>4, <1>5
  <2>2. x + i * a + e = j * a + d
    BY <1>1, <1>3, <1>4, <1>5, <2>1
  <2> QED BY <1>6, <2>2 DEF Row
<1>8. q + i \in Nat
  OBVIOUS
<1>9. d = e
  BY <1>3, <1>7, <1>8, RowsDiffer
<1> QED BY <1>1, <1>2, <1>9

StartLoop(f, F) ==
  f = [n \in 1 .. Len(F) + 1 |-> IF n = 1 THEN Align ELSE f[n - 1] + Align + Size(F[n - 1])]

LEMMA StartChooses ==
  ASSUME NEW f, StartLoop(f, fat)
  PROVE  StartLoop(Start, fat)
<1> DEFINE g == CHOOSE h : StartLoop(h, fat)
<1>1. StartLoop(g, fat)
  BY Zenon
<1>2. Start = g
  BY Zenon DEF Start, StartLoop
<1> QED BY <1>1, <1>2, Zenon

LEMMA SectionSizes ==
  ASSUME NEW F, IsFatBinary(F), NEW n \in 1 .. Len(F)
  PROVE  /\ Len(F) \in Nat /\ n \in DOMAIN F /\ IsSection(F[n])
         /\ F[n].stored \in Seq(Nat) /\ F[n].content \in Seq(Nat)
         /\ Len(F[n].stored) \in Nat /\ Len(F[n].content) \in Nat
         /\ Size(F[n]) = Len(F[n].stored) + Padding(Len(F[n].stored))
         /\ Size(F[n]) \in Nat
<1>1. Len(F) \in Nat /\ F = [i \in 1 .. Len(F) |-> F[i]] /\ \A i \in DOMAIN F : IsSection(F[i])
  BY DEF IsFatBinary
<1>2. n \in DOMAIN F
  BY <1>1
<1>3. IsSection(F[n])
  BY <1>1, <1>2
<1>4. ASSUME NEW q \in Seq(0 .. Byte - 1) PROVE q \in Seq(Nat) /\ Len(q) \in Nat
  <2>1. 0 .. Byte - 1 \subseteq Nat
    BY Sizes
  <2>2. Len(q) \in Nat /\ q \in [1 .. Len(q) -> 0 .. Byte - 1]
    BY LenProperties
  <2>3. q \in [1 .. Len(q) -> Nat]
    BY <2>1, <2>2
  <2> QED BY <2>2, <2>3
<1>5. F[n].stored \in Seq(0 .. Byte - 1) /\ F[n].content \in Seq(0 .. Byte - 1)
  BY <1>3 DEF IsSection
<1>6. /\ F[n].stored \in Seq(Nat) /\ F[n].content \in Seq(Nat)
      /\ Len(F[n].stored) \in Nat /\ Len(F[n].content) \in Nat
  BY <1>4, <1>5
<1>7. Size(F[n]) = Len(F[n].stored) + Padding(Len(F[n].stored))
  BY DEF Size
<1>8. Padding(Len(F[n].stored)) \in Nat
  BY <1>6, PaddingIs
<1> QED BY <1>1, <1>2, <1>3, <1>6, <1>7, <1>8

LEMMA StartExists ==
  ASSUME NEW F, IsFatBinary(F)
  PROVE  \E f : StartLoop(f, F)
<1>1. PICK n \in Nat : n = Len(F)
  BY DEF IsFatBinary
<1> DEFINE w(j) == Align + Size(F[n + 1 - j])
           step == [j \in 1 .. n |-> [x \in Nat |-> x + w(j)]]
<1>2. ASSUME NEW j \in 1 .. n PROVE w(j) \in Nat
  <2>1. n + 1 - j \in 1 .. n
    OBVIOUS
  <2> QED BY <1>1, <2>1, SectionSizes, Sizes
<1> HIDE DEF w
<1>3. step \in [1 .. n -> [Nat -> Nat]]
  <2>1. \A j \in 1 .. n, x \in Nat : x + w(j) \in Nat
    BY <1>2
  <2>2. \A j \in 1 .. n : [x \in Nat |-> x + w(j)] \in [Nat -> Nat]
    BY <2>1
  <2> QED BY <2>2
<1>4. PICK f : Steps(f, n, step, Align)
  <2> HIDE DEF step
  <2>1. Align \in Nat
    BY Sizes
  <2> QED BY <1>3, <2>1, StepsExist, Zenon
<1>5. f \in [1 .. n + 1 -> Nat] /\ f[n + 1] = Align
  BY <1>4 DEF Steps
<1>6. ASSUME NEW j \in 1 .. n PROVE f[j] = f[j + 1] + w(j)
  <2>1. f[j] = step[j][f[j + 1]] /\ f[j + 1] \in Nat
    <3>1. j + 1 \in 1 .. n + 1
      OBVIOUS
    <3> HIDE DEF step
    <3> QED BY <1>4, <1>5, <3>1 DEF Steps
  <2>2. step[j] = [x \in Nat |-> x + w(j)]
    OBVIOUS
  <2> HIDE DEF step
  <2> QED BY <2>1, <2>2
<1> DEFINE g == [i \in 1 .. n + 1 |-> f[n + 2 - i]]
<1>7. ASSUME NEW i \in 1 .. n + 1
      PROVE  g[i] = IF i = 1 THEN Align ELSE g[i - 1] + Align + Size(F[i - 1])
  <2>1. CASE i = 1
    <3>1. n + 2 - i = n + 1
      BY <2>1
    <3> QED BY <1>5, <2>1, <3>1
  <2>2. CASE i # 1
    <3>1. /\ n + 2 - i \in 1 .. n /\ n + 2 - i + 1 = n + 2 - (i - 1) /\ i - 1 \in 1 .. n + 1
          /\ n + 1 - (n + 2 - i) = i - 1 /\ i - 1 \in 1 .. n
      BY <2>2
    <3>2. w(n + 2 - i) = Align + Size(F[i - 1])
      BY <3>1 DEF w
    <3>3. f[n + 2 - i] = f[n + 2 - (i - 1)] + w(n + 2 - i)
      BY <1>6, <3>1
    <3>4. f[n + 2 - (i - 1)] \in Nat
      <4>1. n + 2 - (i - 1) \in 1 .. n + 1
        BY <3>1
      <4> QED BY <1>5, <4>1
    <3>5. Size(F[i - 1]) \in Nat /\ Align \in Nat
      BY <1>1, <3>1, SectionSizes, Sizes
    <3>6. g[i] = f[n + 2 - i] /\ g[i - 1] = f[n + 2 - (i - 1)]
      BY <3>1
    <3> HIDE DEF g
    <3> QED BY <2>2, <3>2, <3>3, <3>4, <3>5, <3>6
  <2> QED BY <2>1, <2>2
<1>8. g = [i \in 1 .. n + 1 |-> g[i]]
  OBVIOUS
<1> HIDE DEF g
<1>9. g = [i \in 1 .. n + 1 |-> IF i = 1 THEN Align ELSE g[i - 1] + Align + Size(F[i - 1])]
  BY <1>7, <1>8
<1>10. StartLoop(g, F)
  BY <1>1, <1>9 DEF StartLoop
<1> QED BY <1>10

LEMMA StartIs ==
  ASSUME IsFatBinary(fat)
  PROVE  /\ Len(fat) \in Nat \ {0} /\ DOMAIN fat = 1 .. Len(fat)
         /\ Start \in [1 .. Len(fat) + 1 -> Nat] /\ Start[1] = Align
         /\ \A n \in 1 .. Len(fat) : Start[n + 1] = Start[n] + Align + Size(fat[n])
<1>1. PICK n \in Nat \ {0}, F \in {fat} : n = Len(fat) /\ F = fat /\ DOMAIN F = 1 .. n
  BY DEF IsFatBinary
<1>2. StartLoop(Start, fat)
  BY StartExists, StartChooses
<1>3. PICK f : f = Start
  OBVIOUS
<1>4. f = [i \in 1 .. n + 1 |-> IF i = 1 THEN Align ELSE f[i - 1] + Align + Size(F[i - 1])]
  BY <1>1, <1>2, <1>3 DEF StartLoop
<1>5. DOMAIN f = 1 .. n + 1 /\ f[1] = Align
  <2>1. 1 \in 1 .. n + 1
    OBVIOUS
  <2> QED BY <1>4, <2>1
<1>6. ASSUME NEW i \in 1 .. n PROVE f[i + 1] = f[i] + Align + Size(F[i])
  <2>1. i + 1 \in 1 .. n + 1 /\ i + 1 # 1 /\ i + 1 - 1 = i
    OBVIOUS
  <2> QED BY <1>4, <2>1
<1>7. \A i \in 1 .. n + 1 : f[i] \in Nat
  <2> DEFINE T == {i \in 1 .. n + 1 : f[i] \in Nat}
  <2>1. 1 \in T
    BY <1>5, Sizes
  <2>2. ASSUME NEW i \in 1 .. n, i \in T PROVE i + 1 \in T
    <3>1. Size(F[i]) \in Nat
      BY <1>1, SectionSizes
    <3>2. f[i + 1] \in Nat
      BY <1>6, <2>2, <3>1, Sizes
    <3> QED BY <3>2
  <2> HIDE DEF T
  <2>3. \A i \in 1 .. n + 1 : i \in T
    BY <2>1, <2>2, Upwards
  <2> QED BY <2>3 DEF T
<1>8. f \in [1 .. n + 1 -> Nat]
  <2>1. f = [i \in 1 .. n + 1 |-> f[i]]
    BY <1>4
  <2> QED BY <1>7, <2>1
<1> QED BY <1>1, <1>3, <1>5, <1>6, <1>8

LEMMA StartGrows ==
  ASSUME IsFatBinary(fat)
  PROVE  /\ \A m \in 1 .. Len(fat), n \in 1 .. Len(fat) + 1 :
              m < n => Start[m] < Start[m + 1] /\ Start[m + 1] <= Start[n]
         /\ \A n \in 1 .. Len(fat) + 1 : \E q \in Nat : Start[n] = q * Align
<1>1. PICK l \in Nat, f \in {Start}, F \in {fat} : l = Len(fat) /\ f = Start /\ F = fat
  BY StartIs
<1>2. /\ f \in [1 .. l + 1 -> Nat] /\ f[1] = Align
      /\ \A n \in 1 .. l : f[n + 1] = f[n] + Align + Size(F[n])
  BY <1>1, StartIs
<1>3. \A n \in 1 .. l : Size(F[n]) \in Nat /\ \E q \in Nat : Size(F[n]) = q * Align
  <2>1. ASSUME NEW n \in 1 .. l PROVE Size(F[n]) \in Nat /\ \E q \in Nat : Size(F[n]) = q * Align
    <3>1. /\ Size(F[n]) \in Nat /\ Len(F[n].stored) \in Nat
          /\ Size(F[n]) = Len(F[n].stored) + Padding(Len(F[n].stored))
      BY <1>1, SectionSizes
    <3> QED BY <3>1, PaddingIs
  <2> QED BY <2>1
<1>4. \A n \in 1 .. l : f[n] \in Nat /\ f[n + 1] \in Nat /\ f[n] < f[n + 1]
  <2>1. ASSUME NEW n \in 1 .. l PROVE f[n] \in Nat /\ f[n + 1] \in Nat /\ f[n] < f[n + 1]
    <3>1. n \in 1 .. l + 1 /\ n + 1 \in 1 .. l + 1
      OBVIOUS
    <3>2. f[n] \in Nat /\ f[n + 1] \in Nat
      BY <1>2, <3>1
    <3>3. f[n + 1] = f[n] + Align + Size(F[n]) /\ Size(F[n]) \in Nat
      BY <1>2, <1>3
    <3>4. PICK x \in Nat, y \in Nat, z \in Nat : x = f[n] /\ y = Size(F[n]) /\ z = Align /\ z >= 1
      BY <3>2, <3>3, Sizes
    <3>5. f[n + 1] = x + z + y
      BY <3>3, <3>4
    <3> QED BY <3>2, <3>4, <3>5
  <2> QED BY <2>1
<1>5. ASSUME NEW m \in 1 .. l PROVE \A n \in 1 .. l + 1 : m < n => f[m + 1] <= f[n]
  <2> DEFINE T == {n \in 1 .. l + 1 : m < n => f[m + 1] <= f[n]}
  <2>1. 1 \in T
    OBVIOUS
  <2>2. ASSUME NEW n \in 1 .. l, n \in T PROVE n + 1 \in T
    <3>1. CASE m < n
      <4>1. f[m + 1] <= f[n] /\ f[m + 1] \in Nat
        BY <1>4, <2>2, <3>1
      <4>2. f[m + 1] <= f[n + 1]
        BY <1>4, <4>1
      <4> QED BY <4>2
    <3>2. CASE m = n
      <4>1. f[m + 1] <= f[n + 1]
        BY <1>4, <3>2
      <4> QED BY <4>1
    <3>3. CASE m > n
      BY <3>3
    <3> QED BY <3>1, <3>2, <3>3
  <2> HIDE DEF T
  <2>3. \A n \in 1 .. l + 1 : n \in T
    BY <2>1, <2>2, Upwards
  <2> QED BY <2>3 DEF T
<1>6. \A n \in 1 .. l + 1 : \E q \in Nat : f[n] = q * Align
  <2> DEFINE T == {n \in 1 .. l + 1 : \E q \in Nat : f[n] = q * Align}
  <2>1. 1 \in T
    <3>1. f[1] = 1 * Align
      BY <1>2, Sizes
    <3> QED BY <3>1
  <2>2. ASSUME NEW n \in 1 .. l, n \in T PROVE n + 1 \in T
    <3>1. PICK q \in Nat : f[n] = q * Align
      BY <2>2
    <3>2. PICK r \in Nat : Size(F[n]) = r * Align
      BY <1>3
    <3>3. q * Align + Align + r * Align = (q + 1 + r) * Align
      BY Sizes
    <3>4. f[n + 1] = (q + 1 + r) * Align /\ q + 1 + r \in Nat
      BY <1>2, <3>1, <3>2, <3>3
    <3>5. n + 1 \in 1 .. l + 1
      OBVIOUS
    <3> QED BY <3>4, <3>5
  <2> HIDE DEF T
  <2>3. \A n \in 1 .. l + 1 : n \in T
    BY <2>1, <2>2, Upwards
  <2> QED BY <2>3 DEF T
<1>7. \A m \in 1 .. l, n \in 1 .. l + 1 : m < n => f[m] < f[m + 1] /\ f[m + 1] <= f[n]
  BY <1>4, <1>5
<1> QED BY <1>1, <1>6, <1>7

-------------------------------------------------------------------------------
(* The walk over the sections. *)

LEMMA FatIs ==
  ASSUME fat \in FatBinaries
  PROVE  IsFatBinary(fat)
BY FatBinariesAssumption

LEMMA StartStays ==
  ASSUME fat' = fat
  PROVE  Start' = Start
<1>1. PICK F : F = fat
  OBVIOUS
<1>2. F = fat'
  BY <1>1
<1>3. \A x : Size(x)' = Size(x)
  BY DEF Size
<1> QED BY <1>1, <1>2 DEF Start, Size

LEMMA KnownStays ==
  ASSUME fat' = fat, kernel_infos' = kernel_infos
  PROVE  \A n : KnownBelow(n) => KnownBelow(n)'
BY DEF KnownBelow, Known

LEMMA ThIs ==
  ASSUME fat \in FatBinaries, NEW n \in DOMAIN fat, pos = Start[n]
  PROVE  th = fat[n]
<1>1. IsFatBinary(fat)
  BY FatIs
<1>2. PICK l \in Nat, f \in {Start} : l = Len(fat) /\ f = Start
  BY <1>1, StartIs
<1>3. /\ n \in 1 .. l /\ DOMAIN fat = 1 .. l /\ f \in [1 .. l + 1 -> Nat]
      /\ \A m \in 1 .. l : f[m + 1] = f[m] + Align + Size(fat[m])
      /\ \A m \in 1 .. l, k \in 1 .. l + 1 : m < k => f[m] < f[m + 1] /\ f[m + 1] <= f[k]
  BY <1>1, <1>2, StartIs, StartGrows
<1> DEFINE Here(m) == Start[m] <= pos /\ pos < Start[m] + Align + Size(fat[m])
<1>4. ASSUME NEW m \in 1 .. l PROVE Here(m) <=> m = n
  <2>1. Here(m) <=> f[m] <= f[n] /\ f[n] < f[m + 1]
    BY <1>2, <1>3
  <2>2. f[m] \in Nat /\ f[n] \in Nat /\ f[m + 1] \in Nat /\ n \in 1 .. l + 1 /\ m \in 1 .. l + 1
    BY <1>3
  <2>3. CASE m < n
    BY <1>3, <2>1, <2>2, <2>3, SMTT(30)
  <2>4. CASE n < m
    <3>1. f[n] < f[n + 1] /\ f[n + 1] <= f[m] /\ f[n + 1] \in Nat
      <4>1. n < m /\ n \in 1 .. l /\ m \in 1 .. l + 1
        BY <1>3, <2>2, <2>4
      <4>2. n + 1 \in 1 .. l + 1
        BY <1>3
      <4> QED BY <1>3, <4>1, <4>2
    <3> QED BY <2>1, <2>2, <2>4, <3>1
  <2>5. CASE m = n
    <3>1. n < n + 1 /\ n + 1 \in 1 .. l + 1
      BY <1>3
    <3>2. f[n] < f[n + 1]
      BY <1>3, <3>1
    <3> QED BY <2>1, <2>2, <2>5, <3>2
  <2> QED BY <1>3, <2>3, <2>4, <2>5
<1>5. \A m \in DOMAIN fat : Here(m) <=> m = n
  BY <1>3, <1>4
<1>6. th = fat[CHOOSE m \in DOMAIN fat : Here(m)]
  BY DEF th
<1> HIDE DEF Here
<1>7. (CHOOSE m \in DOMAIN fat : Here(m)) = n
  BY <1>5
<1> QED BY <1>6, <1>7

LEMMA ParsedIs ==
  ASSUME fat \in FatBinaries, NEW n \in DOMAIN fat, pos = Start[n + 1]
  PROVE  Parsed = fat[n]
<1>1. IsFatBinary(fat)
  BY FatIs
<1>2. PICK l \in Nat, f \in {Start} : l = Len(fat) /\ f = Start
  BY <1>1, StartIs
<1>3. /\ n \in 1 .. l /\ DOMAIN fat = 1 .. l /\ f \in [1 .. l + 1 -> Nat]
      /\ \A m \in 1 .. l, k \in 1 .. l + 1 : m < k => f[m] < f[m + 1] /\ f[m + 1] <= f[k]
  BY <1>1, <1>2, StartIs, StartGrows
<1> DEFINE Here(m) == Start[m + 1] = pos
<1>4. ASSUME NEW m \in 1 .. l PROVE Here(m) <=> m = n
  <2>1. Here(m) <=> f[m + 1] = f[n + 1]
    BY <1>2
  <2>2. /\ n + 1 \in 1 .. l + 1 /\ m + 1 \in 1 .. l + 1
        /\ f[m + 1] \in Nat /\ f[n + 1] \in Nat
    <3>1. n + 1 \in 1 .. l + 1 /\ m + 1 \in 1 .. l + 1
      BY <1>3
    <3> QED BY <1>3, <3>1
  <2>3. CASE m < n
    <3>1. m + 1 \in 1 .. l /\ m + 1 < n + 1
      BY <1>3, <2>3
    <3>2. f[m + 1] < f[m + 1 + 1] /\ f[m + 1 + 1] <= f[n + 1]
      BY <1>3, <2>2, <3>1
    <3>3. f[m + 1 + 1] \in Nat
      <4>1. m + 1 + 1 \in 1 .. l + 1
        BY <3>1
      <4> QED BY <1>3, <4>1
    <3> QED BY <2>1, <2>2, <2>3, <3>2, <3>3
  <2>4. CASE n < m
    <3>1. n + 1 \in 1 .. l /\ n + 1 < m + 1
      BY <1>3, <2>4, SMTT(30)
    <3>2. f[n + 1] < f[n + 1 + 1] /\ f[n + 1 + 1] <= f[m + 1]
      BY <1>3, <2>2, <3>1
    <3>3. f[n + 1 + 1] \in Nat
      <4>1. n + 1 + 1 \in 1 .. l + 1
        BY <3>1
      <4> QED BY <1>3, <4>1
    <3> QED BY <2>1, <2>2, <2>4, <3>2, <3>3
  <2>5. CASE m = n
    BY <2>1, <2>5
  <2> QED BY <1>3, <2>3, <2>4, <2>5
<1>5. \A m \in DOMAIN fat : Here(m) <=> m = n
  BY <1>3, <1>4
<1>6. Parsed = fat[CHOOSE m \in DOMAIN fat : Here(m)]
  BY DEF Parsed
<1> HIDE DEF Here
<1>7. (CHOOSE m \in DOMAIN fat : Here(m)) = n
  BY <1>5
<1> QED BY <1>6, <1>7

LEMMA Continues ==
  ASSUME fat \in FatBinaries, fat' = fat, NEW n \in DOMAIN fat, Continue(Start[n + 1]),
         KnownBelow(n + 1)'
  PROVE  /\ stage' \in {"section", "read"}
         /\ stage' = "section" => \E m \in DOMAIN fat' : pos' = Start'[m] /\ KnownBelow(m)'
         /\ stage' = "read" => KnownBelow(Len(fat) + 1)'
<1>1. IsFatBinary(fat)
  BY FatIs
<1>2. PICK l \in Nat, f \in {Start} : l = Len(fat) /\ f = Start
  BY <1>1, StartIs
<1>3. /\ n \in 1 .. l /\ DOMAIN fat = 1 .. l /\ f \in [1 .. l + 1 -> Nat]
      /\ \A m \in 1 .. l, k \in 1 .. l + 1 : m < k => f[m] < f[m + 1] /\ f[m + 1] <= f[k]
  BY <1>1, <1>2, StartIs, StartGrows
<1>4. End = f[l + 1]
  BY <1>2 DEF End
<1>5. pos' = f[n + 1] /\ stage' = IF f[n + 1] < f[l + 1] THEN "section" ELSE "read"
  BY <1>2, <1>4 DEF Continue
<1>6. CASE n = l
  <2>1. f[l + 1] \in Nat
    <3>1. l + 1 \in 1 .. l + 1
      BY <1>3
    <3> QED BY <1>3, <3>1
  <2>2. stage' = "read"
    BY <1>5, <1>6, <2>1
  <2>3. KnownBelow(l + 1)'
    BY <1>6
  <2>4. Len(fat') + 1 = l + 1
    BY <1>2
  <2> QED BY <1>2, <2>2, <2>3
<1>7. CASE n # l
  <2>1. n + 1 \in 1 .. l /\ l + 1 \in 1 .. l + 1 /\ n + 1 < l + 1 /\ n + 1 \in 1 .. l + 1
        /\ n + 1 + 1 \in 1 .. l + 1
    BY <1>3, <1>7, SMTT(30)
  <2>2. f[n + 1] < f[n + 1 + 1] /\ f[n + 1 + 1] <= f[l + 1]
    BY <1>3, <2>1
  <2>3. f[n + 1] \in Nat /\ f[n + 1 + 1] \in Nat /\ f[l + 1] \in Nat
    BY <1>3, <2>1
  <2>4. stage' = "section"
    BY <1>5, <2>2, <2>3
  <2>5. Start' = f
    BY <1>2, StartStays
  <2>6. n + 1 \in DOMAIN fat' /\ pos' = Start'[n + 1]
    BY <1>3, <1>5, <2>1, <2>5
  <2> QED BY <2>4, <2>6
<1> QED BY <1>6, <1>7

LEMMA LoopSteps ==
  ASSUME Walk, todo' = todo,
         \/ token \/ input_ends \/ plain_length \/ plain \/ offset \/ match_length \/ match
  PROVE  Walk'
<1>1. ASSUME NEW s, IsCompressed(s), Progress(s) PROVE Progress(s)' /\ stage' \in Loop
  BY <1>1, TokenStep, InputEndsStep, PlainLengthStep, PlainStep, OffsetStep, MatchLengthStep,
     MatchStep
<1>2. /\ stage \in Loop /\ stage \in Reading
      /\ fat' = fat /\ pos' = pos /\ kernel_infos' = kernel_infos
  BY DEF token, input_ends, plain_length, plain, offset, match_length, match, Looping, Loop, Reading
<1>3. /\ fat \in FatBinaries /\ todo = {fat[i].kernel : i \in DOMAIN fat} /\ todo \subseteq Kernels
  BY <1>2 DEF Walk
<1>4. PICK n \in DOMAIN fat : \E s \in {fat[n]} :
         /\ pos = Start[n] + Align /\ KnownBelow(n)
         /\ s.kind = "elf" /\ IsCompressed(s) /\ Progress(s)
  BY <1>2 DEF Walk
<1>5. PICK s : /\ s = fat[n] /\ pos = Start[n] + Align /\ KnownBelow(n)
               /\ s.kind = "elf" /\ IsCompressed(s) /\ Progress(s)
  BY <1>4
<1>6. Progress(s)' /\ stage' \in Loop
  BY <1>1, <1>5
<1>7. KnownBelow(n)' /\ Start' = Start
  BY <1>2, <1>5, KnownStays, StartStays
<1>8. n \in DOMAIN fat' /\ s \in {fat'[n]} /\ pos' = Start'[n] + Align
  BY <1>2, <1>5, <1>7
<1>9. \E m \in DOMAIN fat' : \E x \in {fat'[m]} :
         /\ pos' = Start'[m] + Align /\ KnownBelow(m)'
         /\ x.kind = "elf" /\ IsCompressed(x) /\ Progress(x)'
  BY <1>5, <1>6, <1>7, <1>8
<1>10. stage' \notin {"section", "text", "read"}
  BY <1>6 DEF Loop
<1> QED BY <1>2, <1>3, <1>9, <1>10 DEF Walk

LEMMA HeaderFailsStep ==
  ASSUME Walk, todo' = todo, get_text_header_fails
  PROVE  Walk'
BY DEF Walk, get_text_header_fails, Reading, Loop

LEMMA SkipStep ==
  ASSUME Walk, todo' = todo, skip_section
  PROVE  Walk'
<1>1. /\ stage = "section" /\ th.kind # "elf" /\ Continue(pos + Align + Size(th))
      /\ fat' = fat /\ kernel_infos' = kernel_infos
  BY DEF skip_section
<1>2. /\ fat \in FatBinaries /\ todo = {fat[i].kernel : i \in DOMAIN fat} /\ todo \subseteq Kernels
  BY <1>1 DEF Walk, Reading
<1>3. PICK n \in DOMAIN fat : pos = Start[n] /\ KnownBelow(n)
  BY <1>1 DEF Walk
<1>4. th = fat[n]
  BY <1>2, <1>3, ThIs
<1>5. IsFatBinary(fat)
  BY <1>2, FatIs
<1>6. DOMAIN fat = 1 .. Len(fat) /\ Len(fat) \in Nat
  BY <1>5, StartIs
<1>7. Start[n + 1] = pos + Align + Size(th)
  BY <1>3, <1>4, <1>5, <1>6, StartIs
<1>8. KnownBelow(n + 1)'
  <2>1. ASSUME NEW m \in DOMAIN fat, m < n + 1, fat[m].kind = "elf"
        PROVE  Known(kernel_infos, fat[m].kernel)
    <3>1. m # n
      BY <1>1, <1>4, <2>1
    <3>2. m < n
      BY <1>6, <2>1, <3>1
    <3> QED BY <1>3, <2>1, <3>2 DEF KnownBelow
  <2> QED BY <1>1, <2>1 DEF KnownBelow, Known
<1>9. Continue(Start[n + 1])
  BY <1>1, <1>7
<1>10. /\ stage' \in {"section", "read"}
       /\ stage' = "section" => \E m \in DOMAIN fat' : pos' = Start'[m] /\ KnownBelow(m)'
       /\ stage' = "read" => KnownBelow(Len(fat) + 1)'
  BY <1>1, <1>2, <1>8, <1>9, Continues
<1>11. stage' \notin Loop /\ stage' # "text"
  BY <1>10 DEF Loop
<1> QED BY <1>1, <1>2, <1>10, <1>11 DEF Walk

LEMMA ZerosAre ==
  ASSUME NEW n \in Nat
  PROVE  Zeros(n) \in Seq(Nat) /\ Len(Zeros(n)) = n /\ \A i \in 1 .. n : Zeros(n)[i] = 0
BY DEF Zeros

LEMMA TakeStep ==
  ASSUME Walk, todo' = todo, take_section
  PROVE  Walk'
<1>1. /\ stage = "section" /\ th.kind = "elf" /\ ~ th.compressed
      /\ text' = th.stored \o Zeros(Padding(Len(th.stored)))
      /\ pos' = pos + Align + Size(th) /\ stage' = "text"
      /\ fat' = fat /\ kernel_infos' = kernel_infos
  BY DEF take_section
<1>2. /\ fat \in FatBinaries /\ todo = {fat[i].kernel : i \in DOMAIN fat} /\ todo \subseteq Kernels
  BY <1>1 DEF Walk, Reading
<1>3. PICK n \in DOMAIN fat : pos = Start[n] /\ KnownBelow(n)
  BY <1>1 DEF Walk
<1>4. PICK s : s = fat[n] /\ s = th
  BY <1>2, <1>3, ThIs
<1>5. IsFatBinary(fat)
  BY <1>2, FatIs
<1>6. DOMAIN fat = 1 .. Len(fat)
  BY <1>5, StartIs
<1>7. pos' = Start'[n + 1] /\ KnownBelow(n)'
  <2>1. Start[n + 1] = pos + Align + Size(th)
    BY <1>3, <1>4, <1>5, <1>6, StartIs
  <2>2. Start' = Start /\ KnownBelow(n)'
    BY <1>1, <1>3, StartStays, KnownStays
  <2> QED BY <1>1, <2>1, <2>2
<1>8. IsSection(s) /\ s.stored \in Seq(Nat) /\ Len(s.stored) \in Nat
  BY <1>4, <1>5, <1>6, SectionSizes
<1>9. s.stored = s.content /\ s.compressed = FALSE
  BY <1>1, <1>4, <1>8 DEF IsSection
<1>10. PICK c, l, p, z, t : /\ c = s.content /\ l = Len(c) /\ p = Padding(l) /\ z = Zeros(p)
                            /\ t = text'
  OBVIOUS
<1>11. l \in Nat /\ p \in Nat /\ c \in Seq(Nat)
  BY <1>8, <1>9, <1>10, PaddingIs
<1>12. /\ t \in Seq(Nat) /\ Len(t) = l + p
       /\ \A i \in 1 .. l : t[i] = c[i]
       /\ \A i \in 1 .. p : t[l + i] = 0
  <2>1. z \in Seq(Nat) /\ Len(z) = p /\ \A i \in 1 .. p : z[i] = 0
    BY <1>10, <1>11, ZerosAre
  <2>2. t = c \o z
    BY <1>1, <1>4, <1>9, <1>10
  <2>3. /\ t \in Seq(Nat) /\ Len(t) = Len(c) + Len(z)
        /\ \A i \in 1 .. Len(c) : t[i] = c[i]
        /\ \A i \in 1 .. Len(z) : t[Len(c) + i] = z[i]
    BY <1>11, <2>1, <2>2, Joined
  <2>4. Len(c) = l
    BY <1>10
  <2> QED BY <2>1, <2>3, <2>4
<1>13. ASSUME NEW i \in 1 .. l + p
       PROVE  t[i] = IF i \in 0 + 1 .. l THEN c[i] ELSE 0
  <2>1. CASE i <= l
    <3>1. i \in 1 .. l /\ i \in 0 + 1 .. l
      BY <1>11, <2>1
    <3> QED BY <1>12, <3>1
  <2>2. CASE ~ (i <= l)
    <3>1. i - l \in 1 .. p /\ l + (i - l) = i /\ i \notin 0 + 1 .. l
      BY <1>11, <2>2
    <3> QED BY <1>12, <3>1
  <2> QED BY <2>1, <2>2
<1>14. TextOf(s)'
  BY <1>9, <1>10, <1>12, <1>13 DEF TextOf
<1>15. \E m \in DOMAIN fat' : \E x \in {fat'[m]} :
         pos' = Start'[m + 1] /\ KnownBelow(m)' /\ x.kind = "elf" /\ TextOf(x)'
  BY <1>1, <1>4, <1>7, <1>14
<1>16. stage' \notin Loop /\ stage' \notin {"section", "read"}
  BY <1>1 DEF Loop
<1> QED BY <1>1, <1>2, <1>15, <1>16 DEF Walk

LEMMA DecompressStep ==
  ASSUME Walk, todo' = todo, decompress
  PROVE  Walk'
<1>1. /\ stage = "section" /\ th.kind = "elf" /\ th.compressed
      /\ pos' = pos + Align /\ input' = th.stored /\ outputSize' = Len(th.content)
      /\ output' = <<>> /\ ipos' = 0 /\ stage' = "token"
      /\ fat' = fat /\ kernel_infos' = kernel_infos
  BY DEF decompress
<1>2. /\ fat \in FatBinaries /\ todo = {fat[i].kernel : i \in DOMAIN fat} /\ todo \subseteq Kernels
  BY <1>1 DEF Walk, Reading
<1>3. PICK n \in DOMAIN fat : pos = Start[n] /\ KnownBelow(n)
  BY <1>1 DEF Walk
<1>4. PICK s : s = fat[n] /\ s = th
  BY <1>2, <1>3, ThIs
<1>5. IsFatBinary(fat)
  BY <1>2, FatIs
<1>6. IsCompressed(s)
  <2>1. DOMAIN fat = 1 .. Len(fat)
    BY <1>5, StartIs
  <2>2. IsSection(s)
    BY <1>4, <1>5, <2>1, SectionSizes
  <2> QED BY <1>1, <1>4, <2>2 DEF IsCompressed
<1>7. pos' = Start'[n] + Align /\ KnownBelow(n)'
  BY <1>1, <1>3, StartStays, KnownStays
<1>8. Written(s, 0)'
  <2>1. <<>> \in Seq(Nat) /\ Len(<<>>) = 0
    OBVIOUS
  <2> QED BY <1>1, <2>1 DEF Written
<1>9. AtToken(s, 1)'
  <2>1. TokenIn(s, 1) = 0 /\ TokenOut(s, 1) = 0 /\ 1 \in 1 .. Len(s.tokens) + 1
    BY <1>6, TokensLie
  <2> QED BY <1>1, <1>8, <2>1 DEF AtToken
<1>10. Progress(s)'
  <2>1. 1 \in 1 .. Len(s.tokens) + 1
    BY <1>6, TokensLie
  <2> QED BY <1>1, <1>4, <1>9, <2>1 DEF Progress
<1>11. \E m \in DOMAIN fat' : \E x \in {fat'[m]} :
         /\ pos' = Start'[m] + Align /\ KnownBelow(m)'
         /\ x.kind = "elf" /\ IsCompressed(x) /\ Progress(x)'
  BY <1>1, <1>4, <1>6, <1>7, <1>10
<1>12. stage' \in Loop /\ stage' \notin {"section", "text", "read"}
  BY <1>1 DEF Loop
<1> QED BY <1>2, <1>1, <1>11, <1>12 DEF Walk

LEMMA DecompressedStep ==
  ASSUME Walk, todo' = todo, decompressed
  PROVE  Walk' /\ stage' = "text"
<1>1. /\ stage = "returned"
      /\ stage' = IF Len(output) = outputSize THEN "text" ELSE "failed"
      /\ pos' = pos + Len(input) + Padding(pos + Len(input))
      /\ text' = Zeros(Padding(outputSize)) \o SubSeq(output, Padding(outputSize) + 1, outputSize)
      /\ fat' = fat /\ kernel_infos' = kernel_infos
  BY DEF decompressed
<1>2. stage \in Loop /\ stage \in Reading
  BY <1>1 DEF Loop, Reading
<1>3. /\ fat \in FatBinaries /\ todo = {fat[i].kernel : i \in DOMAIN fat} /\ todo \subseteq Kernels
  BY <1>2 DEF Walk
<1>4. PICK n \in DOMAIN fat : \E s \in {fat[n]} :
         /\ pos = Start[n] + Align /\ KnownBelow(n)
         /\ s.kind = "elf" /\ IsCompressed(s) /\ Progress(s)
  BY <1>2 DEF Walk
<1>5. PICK s : /\ s = fat[n] /\ pos = Start[n] + Align /\ KnownBelow(n)
               /\ s.kind = "elf" /\ IsCompressed(s) /\ Progress(s)
  BY <1>4
<1>6. input = s.stored /\ outputSize = Len(s.content) /\ Written(s, Len(s.content))
  BY <1>1, <1>5 DEF Progress
<1>7. PICK c, l, p, w, t, z :
        /\ c = s.content /\ l = Len(c) /\ p = Padding(l) /\ w = output /\ t = text'
        /\ z = Zeros(p)
  OBVIOUS
<1>8. w \in Seq(Nat) /\ Len(w) = l /\ l \in Nat /\ \A i \in 1 .. l : w[i] = c[i]
  <2>1. w \in Seq(Nat) /\ Len(w) = l /\ \A i \in 1 .. l : w[i] = c[i]
    BY <1>6, <1>7 DEF Written
  <2>2. l \in Nat
    BY <2>1
  <2> QED BY <2>1, <2>2
<1>9. stage' = "text"
  BY <1>1, <1>6, <1>7, <1>8
<1>10. IsFatBinary(fat)
  BY <1>3, FatIs
<1>11. DOMAIN fat = 1 .. Len(fat) /\ Len(fat) \in Nat
  BY <1>10, StartIs
<1>12. pos' = Start'[n + 1] /\ KnownBelow(n)'
  <2>1. PICK q \in Nat : Start[n] = q * Align
    <3>1. n \in 1 .. Len(fat) + 1
      BY <1>11
    <3> QED BY <1>10, <3>1, StartGrows
  <2>2. PICK m \in Nat, a \in Nat : m = Len(s.stored) /\ a = Align
    BY <1>5, <1>10, <1>11, SectionSizes, Sizes
  <2>3. (q + 1) * a = q * a + a /\ q * a \in Nat
    BY <2>2
  <2>4. pos = (q + 1) * a
    BY <1>5, <2>1, <2>2, <2>3
  <2>5. Padding((q + 1) * a + m) = Padding(m)
    <3>1. q + 1 \in Nat
      OBVIOUS
    <3> QED BY <2>2, <3>1, PaddingFromAligned
  <2>6. pos' = pos + m + Padding(m)
    BY <1>1, <1>6, <2>2, <2>4, <2>5
  <2>7. Size(s) = m + Padding(m) /\ Padding(m) \in Nat
    BY <1>5, <1>10, <1>11, <2>2, SectionSizes, PaddingIs
  <2>8. Start[n + 1] = pos + Size(s)
    <3>1. Start[n + 1] = Start[n] + Align + Size(fat[n])
      BY <1>10, <1>11, StartIs
    <3> QED BY <1>5, <3>1
  <2>9. pos \in Nat
    BY <2>2, <2>3, <2>4
  <2>10. pos' = Start[n + 1]
    BY <2>2, <2>6, <2>7, <2>8, <2>9
  <2> QED BY <1>1, <1>5, <2>10, StartStays, KnownStays
<1>13. p \in Nat /\ z \in Seq(Nat) /\ Len(z) = p /\ \A i \in 1 .. p : z[i] = 0
  <2>1. p \in Nat
    BY <1>7, <1>8, PaddingIs
  <2> QED BY <1>7, <2>1, ZerosAre
<1>14. PICK r : r = SubSeq(w, p + 1, l)
  OBVIOUS
<1>15. /\ r \in Seq(Nat) /\ Len(r) = IF p > l THEN 0 ELSE l - p
       /\ \A i \in 1 .. l - p : r[i] = c[p + i]
  <2>1. \A i \in p + 1 .. l : w[i] \in Nat
    <3>1. \A i \in 1 .. Len(w) : w[i] \in Nat
      BY <1>8, LenProperties
    <3>2. \A i \in p + 1 .. l : i \in 1 .. Len(w)
      BY <1>8, <1>13
    <3> QED BY <3>1, <3>2
  <2>2. /\ r \in Seq(Nat)
        /\ Len(r) = IF p + 1 <= l THEN l - (p + 1) + 1 ELSE 0
        /\ \A i \in 1 .. l - (p + 1) + 1 : r[i] = w[p + 1 + i - 1]
    <3>1. p + 1 \in Int /\ l \in Int
      BY <1>8, <1>13
    <3> QED BY <1>14, <2>1, <3>1, SubSeqProperties
  <2>3. Len(r) = IF p > l THEN 0 ELSE l - p
    <3>1. l \in Nat /\ p \in Nat
      BY <1>8, <1>13
    <3>2. Len(r) = IF p + 1 <= l THEN l - (p + 1) + 1 ELSE 0
      BY <2>2
    <3> QED BY <3>1, <3>2
  <2>4. ASSUME NEW i \in 1 .. l - p PROVE r[i] = c[p + i]
    <3>1. i \in 1 .. l - (p + 1) + 1 /\ p + 1 + i - 1 = p + i /\ p + i \in 1 .. l
      BY <1>8, <1>13
    <3> QED BY <1>8, <2>2, <3>1
  <2> QED BY <2>2, <2>3, <2>4
<1>16. t = z \o r
  BY <1>1, <1>6, <1>7, <1>14
<1>17. PICK u : u = IF p > l THEN p ELSE l
  OBVIOUS
<1>18. /\ t \in Seq(Nat) /\ Len(t) = u /\ u \in Nat
       /\ \A i \in 1 .. p : t[i] = 0
       /\ \A i \in 1 .. l - p : t[p + i] = c[p + i]
  <2>1. /\ t \in Seq(Nat) /\ Len(t) = Len(z) + Len(r)
        /\ \A i \in 1 .. Len(z) : t[i] = z[i]
        /\ \A i \in 1 .. Len(r) : t[Len(z) + i] = r[i]
    BY <1>13, <1>15, <1>16, Joined
  <2>2. Len(t) = u /\ u \in Nat
    BY <1>8, <1>13, <1>15, <1>17, <2>1
  <2>3. ASSUME NEW i \in 1 .. l - p PROVE t[p + i] = c[p + i]
    <3>1. i \in 1 .. Len(r)
      BY <1>8, <1>13, <1>15
    <3> QED BY <1>13, <1>15, <2>1, <3>1
  <2> QED BY <1>13, <2>1, <2>2, <2>3
<1>19. ASSUME NEW i \in 1 .. u
       PROVE  t[i] = IF i \in p + 1 .. l THEN c[i] ELSE 0
  <2>1. CASE i <= p
    <3>1. i \in 1 .. p /\ i \notin p + 1 .. l
      BY <1>13, <1>18, <2>1
    <3> QED BY <1>18, <3>1
  <2>2. CASE ~ (i <= p)
    <3>1. i - p \in 1 .. l - p /\ p + (i - p) = i /\ i \in p + 1 .. l
      BY <1>8, <1>13, <1>17, <1>18, <2>2
    <3> QED BY <1>18, <3>1
  <2> QED BY <2>1, <2>2
<1>20. TextOf(s)'
  <2>1. s.compressed
    BY <1>5 DEF IsCompressed
  <2> QED BY <1>7, <1>17, <1>18, <1>19, <2>1 DEF TextOf
<1>21. \E m \in DOMAIN fat' : \E x \in {fat'[m]} :
         pos' = Start'[m + 1] /\ KnownBelow(m)' /\ x.kind = "elf" /\ TextOf(x)'
  BY <1>1, <1>5, <1>12, <1>20
<1>22. stage' \notin Loop /\ stage' \notin {"section", "read"}
  BY <1>9 DEF Loop
<1> QED BY <1>1, <1>3, <1>9, <1>21, <1>22 DEF Walk

LEMMA CheckFailsStep ==
  ASSUME Walk, todo' = todo, check_elf_fails
  PROVE  Walk'
BY DEF Walk, check_elf_fails, Reading, Loop

(* What the walk learns from a cubin.                                      *)

LEMMA TextTells ==
  ASSUME NEW s, IsSection(s), s.kind = "elf", TextOf(s), text[1] = Magic
  PROVE  get_parm_for_kernel(s.kernel, text) =
           [name |-> s.kernel, host_fun |-> Unset, params |-> Layout[s.kernel], sized |-> TRUE]
<1>1. PICK c, t, l, k, p, e :
        /\ c = s.content /\ t = text /\ l = Len(c) /\ k = s.kernel /\ p = Padding(l)
        /\ e = DOMAIN Layout[k]
  OBVIOUS
<1>2. /\ k \in Kernels /\ c \in Seq(0 .. Byte - 1) /\ c # <<>> /\ Sized(c)
      /\ Ordinals(k, c) = e
  BY <1>1 DEF IsSection
<1>3. l \in Nat /\ l >= 1 /\ p \in Nat
  <2>1. l \in Nat /\ l # 0
    BY <1>1, <1>2, EmptySeq, LenProperties
  <2> QED BY <1>1, <2>1, PaddingIs
<1>4. PICK lost, width :
        /\ lost = IF s.compressed THEN p ELSE 0
        /\ width = IF s.compressed /\ lost > l THEN lost ELSE IF s.compressed THEN l ELSE l + p
  OBVIOUS
<1>5. /\ Len(t) = width
      /\ \A i \in 1 .. width : t[i] = IF i \in lost + 1 .. l THEN c[i] ELSE 0
  BY <1>1, <1>4 DEF TextOf
<1>6. lost \in Nat /\ width \in Nat /\ width >= l
  BY <1>3, <1>4
<1>7. lost = 0
  <2>1. 1 \in 1 .. width
    BY <1>3, <1>6
  <2>2. t[1] # 0
    BY <1>1, Sizes DEF Magic
  <2>3. 1 \in lost + 1 .. l
    BY <1>5, <2>1, <2>2
  <2> QED BY <1>6, <2>3
<1>8. \A i \in 1 .. width : t[i] = IF i <= l THEN c[i] ELSE 0
  BY <1>3, <1>5, <1>6, <1>7
<1>9. \A i \in 2 .. l : i \in 2 .. width /\ t[i] = c[i]
  <2>1. ASSUME NEW i \in 2 .. l PROVE i \in 2 .. width /\ t[i] = c[i]
    <3>1. i \in 2 .. width /\ i \in 1 .. width /\ i <= l
      BY <1>3, <1>6
    <3> QED BY <1>8, <3>1
  <2> QED BY <2>1
<1>10. Sized(t)
  <2>1. PICK i \in 2 .. l : c[i] = SizeAttribute
    BY <1>1, <1>2 DEF Sized
  <2> QED BY <1>5, <1>9, <2>1 DEF Sized
<1>11. Ordinals(k, t) = e
  <2>1. Ordinals(k, c) = {c[i] : i \in 2 .. l} \cap e
    BY <1>1 DEF Ordinals
  <2>2. Ordinals(k, t) = {t[i] : i \in 2 .. width} \cap e
    BY <1>1, <1>5 DEF Ordinals
  <2>3. ASSUME NEW o \in e PROVE o \in {t[i] : i \in 2 .. width}
    <3>1. o \in {c[i] : i \in 2 .. l}
      BY <1>2, <2>1
    <3>2. PICK i \in 2 .. l : o = c[i]
      BY <3>1
    <3> QED BY <1>9, <3>2
  <2> QED BY <2>2, <2>3
<1>12. [o \in e |-> Layout[k][o]] = Layout[k]
  <2>1. Layout[k] \in Seq([offset : Nat, size : Nat \ {0}, pointer : BOOLEAN])
    BY <1>2, LayoutAssumption
  <2>2. PICK q, R : q = Layout[k] /\ R = [offset : Nat, size : Nat \ {0}, pointer : BOOLEAN]
    OBVIOUS
  <2>3. q \in [1 .. Len(q) -> R]
    BY <2>1, <2>2, LenProperties
  <2> QED BY <1>1, <2>2, <2>3
<1>13. Sized(t) = TRUE
  <2>1. Sized(t) \in BOOLEAN
    BY DEF Sized
  <2> QED BY <1>10, <2>1
<1>14. get_parm_for_kernel(k, t) =
         [name |-> k, host_fun |-> Unset, params |-> Layout[k], sized |-> TRUE]
  BY <1>11, <1>12, <1>13, Zenon DEF get_parm_for_kernel
<1> QED BY <1>1, <1>14

LEMMA ImageTells ==
  ASSUME NEW s, IsSection(s), s.kind = "elf"
  PROVE  /\ get_parm_for_kernel(s.kernel, s.content) =
              [name |-> s.kernel, host_fun |-> Unset, params |-> Layout[s.kernel], sized |-> TRUE]
         /\ s.kernel \in Kernels
<1>1. PICK k, c : k = s.kernel /\ c = s.content
  OBVIOUS
<1>2. k \in Kernels /\ Sized(c) /\ Ordinals(k, c) = DOMAIN Layout[k]
  BY <1>1 DEF IsSection
<1>3. [o \in DOMAIN Layout[k] |-> Layout[k][o]] = Layout[k]
  <2>1. Layout[k] \in Seq([offset : Nat, size : Nat \ {0}, pointer : BOOLEAN])
    BY <1>2, LayoutAssumption
  <2>2. PICK q, R : q = Layout[k] /\ R = [offset : Nat, size : Nat \ {0}, pointer : BOOLEAN]
    OBVIOUS
  <2>3. q \in [1 .. Len(q) -> R]
    BY <2>1, <2>2, LenProperties
  <2> QED BY <2>2, <2>3
<1>4. Sized(c) = TRUE
  <2>1. Sized(c) \in BOOLEAN
    BY DEF Sized
  <2> QED BY <1>2, <2>1
<1>5. get_parm_for_kernel(k, c) =
        [name |-> k, host_fun |-> Unset, params |-> Layout[k], sized |-> TRUE]
  BY <1>2, <1>3, <1>4, Zenon DEF get_parm_for_kernel
<1> QED BY <1>1, <1>2, <1>5

LEMMA InfosStay ==
  ASSUME InfosOK, kernel_infos' = kernel_infos, modules \subseteq modules'
  PROVE  InfosOK'
BY DEF InfosOK

(* What is learnt keeps what is known of each kernel, once.                *)
LEMMA LearntOK ==
  ASSUME InfosOK, NEW k \in Kernels, modules \subseteq modules', NEW bytes,
         get_parm_for_kernel(k, bytes) =
           [name |-> k, host_fun |-> Unset, params |-> Layout[k], sized |-> TRUE],
         kernel_infos' = Learnt(kernel_infos, k, bytes)
  PROVE  /\ InfosOK'
         /\ \A x : Known(kernel_infos, x) => Known(kernel_infos', x)
         /\ Known(kernel_infos', k)
<1>1. PICK info : info = [name |-> k, host_fun |-> Unset, params |-> Layout[k], sized |-> TRUE]
  OBVIOUS
<1>2. kernel_infos' = IF Known(kernel_infos, k) THEN kernel_infos ELSE Append(kernel_infos, info)
  BY <1>1 DEF Learnt
<1>3. PICK T : T = [name : Kernels, host_fun : {Unset} \cup {Stub(q) : q \in Kernels}
                                                \cup {CUfunction(q) : q \in Kernels},
                     params : {Layout[q] : q \in Kernels}, sized : {TRUE}]
  OBVIOUS
<1>4. PICK old, new : old = kernel_infos /\ new = kernel_infos'
  OBVIOUS
<1>5. /\ old \in Seq(T)
      /\ \A i, j \in DOMAIN old :
           /\ old[i].params = Layout[old[i].name]
           /\ old[i].name = old[j].name => i = j
           /\ old[i].host_fun # Unset =>
                old[i].host_fun.kernel = old[i].name /\ old[i].name \in modules
  BY <1>3, <1>4 DEF InfosOK
<1>6. CASE Known(old, k)
  <2>1. kernel_infos' = kernel_infos
    BY <1>2, <1>4, <1>6
  <2>2. InfosOK'
    BY <2>1, InfosStay
  <2> QED BY <1>4, <1>6, <2>1, <2>2
<1>7. CASE ~ Known(old, k)
  <2>1. new = Append(old, info)
    BY <1>2, <1>4, <1>7
  <2>2. info \in T
    BY <1>1, <1>3
  <2>3. /\ new \in Seq(T) /\ Len(old) \in Nat /\ DOMAIN old = 1 .. Len(old)
        /\ DOMAIN new = 1 .. Len(old) + 1
        /\ \A i \in 1 .. Len(old) : new[i] = old[i]
        /\ new[Len(old) + 1] = info
    BY <1>5, <2>1, <2>2, AppendProperties
  <2>4. \A i \in DOMAIN old : old[i].name # k
    BY <1>7 DEF Known
  <2>5. info.name = k /\ info.params = Layout[k] /\ info.host_fun = Unset
    BY <1>1
  <2>6. \A i \in DOMAIN new : i \in DOMAIN old \/ i = Len(old) + 1
    BY <2>3
  <2>7. \A i, j \in DOMAIN new :
            /\ new[i].params = Layout[new[i].name]
            /\ new[i].name = new[j].name => i = j
            /\ new[i].host_fun # Unset =>
                 new[i].host_fun.kernel = new[i].name /\ new[i].name \in modules
    BY <1>5, <2>3, <2>4, <2>5, <2>6
  <2>8. InfosOK'
    BY <1>3, <1>4, <2>3, <2>7 DEF InfosOK
  <2>9. \A x : Known(kernel_infos, x) => Known(kernel_infos', x)
    <3>1. ASSUME NEW x, Known(old, x) PROVE Known(new, x)
      <4>1. PICK i \in DOMAIN old : old[i].name = x
        BY <3>1 DEF Known
      <4>2. i \in DOMAIN new /\ new[i] = old[i]
        BY <2>3
      <4> QED BY <4>1, <4>2 DEF Known
    <3> QED BY <1>4, <3>1
  <2>10. Known(kernel_infos', k)
    <3>1. Len(old) + 1 \in DOMAIN new /\ new[Len(old) + 1].name = k
      BY <2>3, <2>5
    <3> QED BY <1>4, <3>1 DEF Known
  <2> QED BY <2>8, <2>9, <2>10
<1> QED BY <1>6, <1>7

LEMMA ParameterStep ==
  ASSUME Walk, InfosOK, todo' = todo, modules' = modules, elf2_parameter_info
  PROVE  Walk' /\ InfosOK'
<1>1. /\ stage = "text" /\ text[1] = Magic /\ Continue(pos)
      /\ kernel_infos' = Learnt(kernel_infos, Parsed.kernel, text)
      /\ fat' = fat
  BY DEF elf2_parameter_info
<1>2. /\ fat \in FatBinaries /\ todo = {fat[i].kernel : i \in DOMAIN fat} /\ todo \subseteq Kernels
  BY <1>1 DEF Walk, Reading
<1>3. PICK n \in DOMAIN fat : \E s \in {fat[n]} :
         pos = Start[n + 1] /\ KnownBelow(n) /\ s.kind = "elf" /\ TextOf(s)
  BY <1>1 DEF Walk
<1>4. PICK s : s = fat[n] /\ pos = Start[n + 1] /\ KnownBelow(n) /\ s.kind = "elf" /\ TextOf(s)
  BY <1>3
<1>5. Parsed = s
  BY <1>2, <1>4, ParsedIs
<1>6. IsFatBinary(fat)
  BY <1>2, FatIs
<1>7. DOMAIN fat = 1 .. Len(fat) /\ Len(fat) \in Nat
  BY <1>6, StartIs
<1>8. IsSection(s)
  BY <1>4, <1>6, <1>7, SectionSizes
<1>9. PICK k : k = s.kernel
  OBVIOUS
<1>10. /\ k \in Kernels /\ kernel_infos' = Learnt(kernel_infos, k, text)
       /\ get_parm_for_kernel(k, text) =
            [name |-> k, host_fun |-> Unset, params |-> Layout[k], sized |-> TRUE]
  <2>1. k \in Kernels
    BY <1>8, <1>9 DEF IsSection
  <2> QED BY <1>1, <1>4, <1>5, <1>8, <1>9, <2>1, TextTells
<1>11. /\ InfosOK'
       /\ \A x : Known(kernel_infos, x) => Known(kernel_infos', x)
       /\ Known(kernel_infos', k)
  BY <1>10, LearntOK
<1>12. KnownBelow(n + 1)'
  <2>1. ASSUME NEW m \in DOMAIN fat, m < n + 1, fat[m].kind = "elf"
        PROVE  Known(kernel_infos', fat[m].kernel)
    <3>1. CASE m = n
      BY <1>4, <1>9, <1>11, <3>1
    <3>2. CASE m # n
      <4>1. m < n
        BY <1>7, <2>1, <3>2
      <4> QED BY <1>4, <1>11, <2>1, <4>1 DEF KnownBelow
    <3> QED BY <3>1, <3>2
  <2> QED BY <1>1, <2>1 DEF KnownBelow
<1> QED BY <1>1, <1>2, <1>4, <1>11, <1>12, Continues DEF Walk, Loop

LEMMA ReadSteps ==
  ASSUME Walk, InfosOK, elf2_get_fatbin_info, UNCHANGED launchVars
  PROVE  Walk' /\ InfosOK'
<1>1. todo' = todo /\ modules' = modules
  BY DEF launchVars
<1>2. CASE elf2_parameter_info
  BY <1>1, <1>2, ParameterStep
<1>3. CASE ~ elf2_parameter_info
  <2>1. kernel_infos' = kernel_infos
    BY <1>3 DEF elf2_get_fatbin_info, get_text_header_fails, skip_section, take_section, decompress,
      token, input_ends, plain_length, plain, offset, match_length, match, decompressed,
      check_elf_fails, Looping
  <2>2. InfosOK'
    BY <1>1, <2>1, InfosStay
  <2>3. Walk'
    BY <1>1, <1>3, HeaderFailsStep, SkipStep, TakeStep, DecompressStep, LoopSteps, DecompressedStep,
       CheckFailsStep DEF elf2_get_fatbin_info
  <2> QED BY <2>2, <2>3
<1> QED BY <1>2, <1>3

-------------------------------------------------------------------------------
(* What the walk and the loop promise. *)

LEMMA TokenFits ==
  ASSUME NEW s, IsCompressed(s), NEW k \in 1 .. Len(s.tokens)
  PROVE  /\ TokenIn(s, k) \in Nat /\ TokenOut(s, k) \in Nat /\ Match(s, k) \in Nat
         /\ Len(Long(s.tokens[k].plains)) \in Nat /\ s.tokens[k].plains \in Nat
         /\ Stop(s, k) = TokenIn(s, k) + 1 + Len(Long(s.tokens[k].plains)) + s.tokens[k].plains
         /\ Stop(s, k) \in Nat /\ Len(s.stored) \in Nat /\ Len(s.content) \in Nat
         /\ Stop(s, k) <= Len(s.stored)
         /\ HasMatch(s, k) => Stop(s, k) + 2 <= Len(s.stored)
         /\ Match(s, k) = TokenOut(s, k) + s.tokens[k].plains
         /\ s.tokens[k].match \in Nat /\ Match(s, k) + s.tokens[k].match <= Len(s.content)
<1>1. /\ s.stored \in Seq(Nat) /\ s.content \in Seq(Nat) /\ Len(s.tokens) \in Nat
      /\ s.tokens[k].plains \in Nat /\ s.tokens[k].match \in Nat
      /\ k \in 1 .. Len(s.tokens) + 1
  BY TokensLie
<1>2. Len(s.stored) \in Nat /\ Len(s.content) \in Nat
  BY <1>1
<1>3. TokenIn(s, k) \in Nat /\ TokenOut(s, k) \in Nat
  BY <1>1, TokensLie
<1>4. Len(Long(s.tokens[k].plains)) \in Nat
  BY <1>1, LongEnds
<1>5. Stop(s, k) = TokenIn(s, k) + 1 + Len(Long(s.tokens[k].plains)) + s.tokens[k].plains
  BY DEF Stop
<1>6. Stop(s, k) \in Nat
  BY <1>1, <1>3, <1>4, <1>5, SMTT(30)
<1>7. /\ TokenIn(s, k + 1) <= Len(s.stored) /\ TokenOut(s, k + 1) <= Len(s.content)
      /\ Match(s, k) = TokenOut(s, k) + s.tokens[k].plains
      /\ Match(s, k) + s.tokens[k].match = TokenOut(s, k + 1)
  BY TokenShape
<1>10. Match(s, k) \in Nat /\ Match(s, k) + s.tokens[k].match <= Len(s.content)
  BY <1>1, <1>3, <1>7, SMTT(30)
<1>8. ASSUME s.tokens[k].match = 0
      PROVE  Stop(s, k) <= Len(s.stored) /\ (HasMatch(s, k) => Stop(s, k) + 2 <= Len(s.stored))
  <2>1. TokenIn(s, k + 1) = Stop(s, k)
    BY <1>8, TokenShape
  <2>2. Stop(s, k) <= Len(s.stored) /\ ~ HasMatch(s, k)
    BY <1>7, <1>8, <2>1 DEF HasMatch
  <2> QED BY <2>2
<1>9. ASSUME s.tokens[k].match # 0
      PROVE  Stop(s, k) <= Len(s.stored) /\ (HasMatch(s, k) => Stop(s, k) + 2 <= Len(s.stored))
  <2>1. TokenIn(s, k + 1) = Stop(s, k) + 2 + Len(Long(Excess(s, k))) /\ Excess(s, k) \in Nat
    BY <1>9, TokenShape
  <2>2. Len(Long(Excess(s, k))) \in Nat
    BY <2>1, LongEnds
  <2>3. Stop(s, k) + 2 <= Len(s.stored)
    BY <1>2, <1>6, <1>7, <2>1, <2>2
  <2>4. Stop(s, k) <= Len(s.stored)
    BY <1>2, <1>6, <2>3
  <2> QED BY <2>3, <2>4
<1>11. Stop(s, k) <= Len(s.stored) /\ (HasMatch(s, k) => Stop(s, k) + 2 <= Len(s.stored))
  BY <1>8, <1>9
<1> QED BY <1>1, <1>2, <1>3, <1>4, <1>5, <1>6, <1>7, <1>10, <1>11

InsideLoop ==
  /\ stage = "token" => Len(output) <= outputSize
  /\ stage = "plain_length" => ipos + 1 < Len(input)
  /\ stage = "plain" => ipos + 1 + nclen <= Len(input) /\ Len(output) + nclen <= outputSize
  /\ stage = "offset" => ipos + 1 < Len(input)
  /\ stage = "match_length" => ipos < Len(input)
  /\ stage = "match" => back \in 1 .. Len(output) /\ Len(output) + clen <= outputSize
  /\ stage = "returned" => Len(output) = outputSize

LEMMA LoopStaysInside ==
  ASSUME NEW s, IsCompressed(s), Progress(s)
  PROVE  InsideLoop
<1>1. input = s.stored /\ outputSize = Len(s.content)
  BY DEF Progress
<1>2. ASSUME stage = "token" PROVE Len(output) <= outputSize
  <2>1. PICK k \in 1 .. Len(s.tokens) + 1 : AtToken(s, k)
    BY <1>2 DEF Progress
  <2>2. Len(output) = TokenOut(s, k)
    BY <2>1 DEF AtToken, Written
  <2> QED BY <1>1, <2>1, <2>2, TokensLie
<1>3. ASSUME stage = "plain_length" PROVE ipos + 1 < Len(input)
  <2>0. PICK k \in 1 .. Len(s.tokens) :
          \E j \in 0 .. Full(s.tokens[k].plains) : AtPlainLength(s, k, j)
    BY <1>3 DEF Progress
  <2>1. PICK j \in 0 .. Full(s.tokens[k].plains) : AtPlainLength(s, k, j)
    BY <2>0
  <2>2. PICK n, p : n = s.tokens[k].plains /\ p = TokenIn(s, k)
    OBVIOUS
  <2>3. n >= Nibble - 1 /\ ipos = p + j /\ j \in 0 .. Full(n)
    BY <2>1, <2>2 DEF AtPlainLength
  <2>4. n \in Nat /\ p \in Nat /\ p + 1 + Len(Long(n)) + n <= Len(s.stored) /\ Len(s.stored) \in Nat
    BY <2>2, TokenFits
  <2>5. Full(n) \in Nat /\ Len(Long(n)) = Full(n) + 1
    BY <2>3, <2>4, LongIs
  <2> QED BY <1>1, <2>3, <2>4, <2>5
<1>4. ASSUME stage = "plain"
      PROVE  ipos + 1 + nclen <= Len(input) /\ Len(output) + nclen <= outputSize
  <2>1. PICK k \in 1 .. Len(s.tokens) : AtPlain(s, k)
    BY <1>4 DEF Progress
  <2>2. /\ ipos = TokenIn(s, k) + Len(Long(s.tokens[k].plains)) /\ nclen = s.tokens[k].plains
        /\ Len(output) = TokenOut(s, k)
    BY <2>1 DEF AtPlain, Written
  <2>3. PICK p, l, n, o :
          /\ p = TokenIn(s, k) /\ n = s.tokens[k].plains /\ l = Len(Long(n)) /\ o = TokenOut(s, k)
    OBVIOUS
  <2>4. /\ p \in Nat /\ l \in Nat /\ n \in Nat /\ o \in Nat
        /\ p + 1 + l + n <= Len(s.stored) /\ Match(s, k) = o + n
        /\ s.tokens[k].match \in Nat /\ Match(s, k) + s.tokens[k].match <= Len(s.content)
        /\ Len(s.content) \in Nat /\ Len(s.stored) \in Nat
    BY <2>3, TokenFits
  <2>5. ipos = p + l /\ nclen = n /\ Len(output) = o
    BY <2>2, <2>3
  <2> QED BY <1>1, <2>4, <2>5
<1>5. ASSUME stage = "offset" PROVE ipos + 1 < Len(input)
  <2>1. PICK k \in 1 .. Len(s.tokens) : AtOffset(s, k)
    BY <1>5 DEF Progress
  <2>2. HasMatch(s, k) /\ ipos = Stop(s, k)
    BY <2>1 DEF AtOffset
  <2>3. Stop(s, k) + 2 <= Len(s.stored) /\ Stop(s, k) \in Nat /\ Len(s.stored) \in Nat
    BY <2>2, TokenFits
  <2> QED BY <1>1, <2>2, <2>3
<1>6. ASSUME stage = "match_length" PROVE ipos < Len(input)
  <2>0. PICK k \in 1 .. Len(s.tokens) : \E j \in 0 .. Full(Excess(s, k)) : AtMatchLength(s, k, j)
    BY <1>6 DEF Progress
  <2>1. PICK j \in 0 .. Full(Excess(s, k)) : AtMatchLength(s, k, j)
    BY <2>0
  <2>2. PICK e : e = Excess(s, k)
    OBVIOUS
  <2>3. HasMatch(s, k) /\ ipos = Stop(s, k) + 2 + j /\ e >= Nibble - 1 /\ j \in 0 .. Full(e)
    BY <2>1, <2>2 DEF AtMatchLength
  <2>4. /\ e \in Nat /\ TokenIn(s, k + 1) = Stop(s, k) + 2 + Len(Long(e))
        /\ TokenIn(s, k + 1) <= Len(s.stored)
    BY <2>2, <2>3, TokenShape DEF HasMatch
  <2>5. Full(e) \in Nat /\ Len(Long(e)) = Full(e) + 1
    BY <2>3, <2>4, LongIs
  <2>6. Stop(s, k) \in Nat /\ Len(s.stored) \in Nat
    BY TokenFits
  <2> QED BY <1>1, <2>3, <2>4, <2>5, <2>6
<1>7. ASSUME stage = "match"
      PROVE  back \in 1 .. Len(output) /\ Len(output) + clen <= outputSize
  <2>1. PICK k \in 1 .. Len(s.tokens) : AtMatch(s, k)
    BY <1>7 DEF Progress
  <2>2. /\ HasMatch(s, k) /\ clen = s.tokens[k].match /\ back = s.tokens[k].distance
        /\ Len(output) = Match(s, k)
    BY <2>1 DEF AtMatch, Written
  <2>3. s.tokens[k].distance \in 1 .. Match(s, k)
    BY <2>2, TokenShape DEF HasMatch
  <2> QED BY <1>1, <2>2, <2>3, TokenFits
<1>8. ASSUME stage = "returned" PROVE Len(output) = outputSize
  BY <1>1, <1>8 DEF Progress, Written
<1> QED BY <1>2, <1>3, <1>4, <1>5, <1>6, <1>7, <1>8 DEF InsideLoop

LEMMA WalkStaysInside ==
  ASSUME Walk
  PROVE  StaysInside
<1>1. ASSUME stage = "section" PROVE pos \in Starts
  BY <1>1 DEF Walk, Starts
<1>2. ASSUME stage = "text" PROVE pos \in Starts \cup {End}
  <2>1. fat \in FatBinaries
    BY <1>2 DEF Walk, Reading
  <2>2. DOMAIN fat = 1 .. Len(fat) /\ Len(fat) \in Nat
    BY <2>1, FatIs, StartIs
  <2>3. PICK n \in DOMAIN fat : pos = Start[n + 1]
    BY <1>2 DEF Walk
  <2>4. n + 1 \in DOMAIN fat \/ n + 1 = Len(fat) + 1
    BY <2>2
  <2> QED BY <2>3, <2>4 DEF Starts, End
<1>3. InsideLoop
  <2>1. CASE stage \in Loop
    <3>1. PICK n \in DOMAIN fat : \E s \in {fat[n]} : IsCompressed(s) /\ Progress(s)
      BY <2>1 DEF Walk
    <3>2. PICK s : IsCompressed(s) /\ Progress(s)
      BY <3>1
    <3> QED BY <3>2, LoopStaysInside
  <2>2. CASE stage \notin Loop
    BY <2>2 DEF Loop, InsideLoop
  <2> QED BY <2>1, <2>2
<1> QED BY <1>1, <1>2, <1>3 DEF InsideLoop, StaysInside

LEMMA WalkDelivers ==
  ASSUME Walk
  PROVE  SectionArrives
<1> SUFFICES ASSUME stage = "text"
             PROVE  LET n == Len(Parsed.content)
                        lost == IF Parsed.compressed THEN Padding(n) ELSE 0
                    IN  SubSeq(text, lost + 1, n) = SubSeq(Parsed.content, lost + 1, n)
  BY DEF SectionArrives
<1>1. fat \in FatBinaries
  BY DEF Walk, Reading
<1>2. PICK n \in DOMAIN fat : \E s \in {fat[n]} : pos = Start[n + 1] /\ TextOf(s)
  BY DEF Walk
<1>3. PICK s : s = fat[n] /\ pos = Start[n + 1] /\ TextOf(s) /\ s = Parsed
  BY <1>1, <1>2, ParsedIs
<1>4. s.content \in Seq(Nat) /\ Len(s.content) \in Nat
  <2>1. IsFatBinary(fat) /\ DOMAIN fat = 1 .. Len(fat)
    BY <1>1, FatIs, StartIs
  <2> QED BY <1>3, <2>1, SectionSizes
<1>5. PICK c, l, t, lost, width :
        /\ c = s.content /\ l = Len(c) /\ t = text
        /\ lost = IF s.compressed THEN Padding(l) ELSE 0
        /\ width = IF s.compressed /\ lost > l THEN lost
                   ELSE IF s.compressed THEN l ELSE l + Padding(l)
  OBVIOUS
<1>6. /\ t \in Seq(Nat) /\ Len(t) = width
      /\ \A i \in 1 .. width : t[i] = IF i \in lost + 1 .. l THEN c[i] ELSE 0
  BY <1>3, <1>5 DEF TextOf
<1>7. l \in Nat /\ lost \in Nat /\ c \in Seq(Nat) /\ width \in Nat /\ width >= l
  <2>1. l \in Nat /\ c \in Seq(Nat) /\ Padding(l) \in Nat
    BY <1>4, <1>5, PaddingIs
  <2> QED BY <1>5, <2>1
<1>8. \A i \in lost + 1 .. l : t[i] = c[i]
  BY <1>6, <1>7
<1>9. SubSeq(t, lost + 1, l) = SubSeq(c, lost + 1, l)
  <2>1. \A i \in 1 .. l - (lost + 1) + 1 : t[lost + 1 + i - 1] = c[lost + 1 + i - 1]
    BY <1>7, <1>8
  <2>2. SubSeq(t, lost + 1, l) = [i \in 1 .. l - (lost + 1) + 1 |-> t[lost + 1 + i - 1]]
    BY <1>6, <1>7
  <2>3. SubSeq(c, lost + 1, l) = [i \in 1 .. l - (lost + 1) + 1 |-> c[lost + 1 + i - 1]]
    BY <1>7
  <2> QED BY <2>1, <2>2, <2>3
<1> QED BY <1>3, <1>5, <1>9

LEMMA WalkLearns ==
  ASSUME Walk, InfosOK
  PROVE  KernelsAreKnown
<1>1. ASSUME stage = "read", NEW n \in DOMAIN fat, fat[n].kind = "elf"
      PROVE  Known(kernel_infos, fat[n].kernel)
  <2>1. fat \in FatBinaries
    BY <1>1 DEF Walk, Reading
  <2>2. DOMAIN fat = 1 .. Len(fat) /\ Len(fat) \in Nat
    BY <2>1, FatIs, StartIs
  <2>3. n < Len(fat) + 1
    BY <2>2
  <2> QED BY <1>1, <2>3 DEF Walk, KnownBelow
<1>2. ASSUME NEW i \in DOMAIN kernel_infos
      PROVE  kernel_infos[i].sized = TRUE /\ kernel_infos[i].params = Layout[kernel_infos[i].name]
  <2>1. PICK T : T = [name : Kernels, host_fun : {Unset} \cup {Stub(q) : q \in Kernels}
                                                \cup {CUfunction(q) : q \in Kernels},
                     params : {Layout[q] : q \in Kernels}, sized : {TRUE}]
    OBVIOUS
  <2>2. kernel_infos \in Seq(T)
    BY <2>1 DEF InfosOK
  <2>3. kernel_infos[i] \in T
    <3>1. Len(kernel_infos) \in Nat /\ DOMAIN kernel_infos = 1 .. Len(kernel_infos)
      BY <2>2, LenProperties
    <3> QED BY <2>2, <3>1, ElementOfSeq
  <2> QED BY <2>1, <2>3 DEF InfosOK
<1>3. \A i \in DOMAIN kernel_infos : kernel_infos[i].sized
  BY <1>2
<1> QED BY <1>1, <1>2, <1>3 DEF KernelsAreKnown

-------------------------------------------------------------------------------
(* Numbers of several bytes. *)

LEMMA Digital ==
  Digits \in Nat /\ Digits >= 2 /\ Word \in Nat /\ Word >= 1 /\ Bytes \subseteq Nat
  /\ \A b \in Bytes : b < Digits
BY WordAssumption DEF Bytes

ValuedLoop(f, bytes) ==
  f = [j \in 1 .. Len(bytes) + 1 |->
         IF j > Len(bytes) THEN 0 ELSE bytes[j] + Digits * f[j + 1]]

LEMMA ValuedChooses ==
  ASSUME NEW bytes, NEW f, ValuedLoop(f, bytes)
  PROVE  \E g : ValuedLoop(g, bytes) /\ Valued(bytes) = g[1]
<1> DEFINE g == CHOOSE h : ValuedLoop(h, bytes)
<1>1. ValuedLoop(g, bytes)
  BY Zenon
<1>2. Valued(bytes) = g[1]
  BY Zenon DEF Valued, ValuedLoop
<1> QED BY <1>1, <1>2, Zenon

(* The value of the bytes from each on.                                    *)
ValueSums(f, n, bytes) ==
  /\ f \in [1 .. n + 1 -> Nat] /\ f[n + 1] = 0 /\ Valued(bytes) = f[1]
  /\ \A j \in 1 .. n : f[j] = Row(f[j + 1], Digits, bytes[j])

LEMMA ValuedIs ==
  ASSUME NEW n \in Nat, NEW bytes \in [1 .. n -> Bytes]
  PROVE  \E f : ValueSums(f, n, bytes)
<1>1. PICK d \in Nat : d = Digits
  BY Digital
<1>2. \A j \in 1 .. n : bytes[j] \in Nat
  BY Digital
<1>3. Len(bytes) = n
  OBVIOUS
<1> DEFINE step == [j \in 1 .. n |-> [x \in Nat |-> bytes[j] + d * x]]
<1>4. step \in [1 .. n -> [Nat -> Nat]]
  <2>1. \A j \in 1 .. n, x \in Nat : bytes[j] + d * x \in Nat
    <3>1. \A x \in Nat : d * x \in Nat
      OBVIOUS
    <3> QED BY <1>2, <3>1
  <2>2. \A j \in 1 .. n : [x \in Nat |-> bytes[j] + d * x] \in [Nat -> Nat]
    BY <2>1
  <2> QED BY <2>2
<1>5. PICK f : Steps(f, n, step, 0)
  <2> HIDE DEF step
  <2>1. 0 \in Nat
    OBVIOUS
  <2> QED BY <1>4, <2>1, StepsExist, Zenon
<1>6. f \in [1 .. n + 1 -> Nat] /\ f[n + 1] = 0
  BY <1>5 DEF Steps
<1>7. ASSUME NEW j \in 1 .. n PROVE f[j] = bytes[j] + d * f[j + 1]
  <2>1. f[j] = step[j][f[j + 1]] /\ f[j + 1] \in Nat
    <3>1. j + 1 \in 1 .. n + 1
      OBVIOUS
    <3> HIDE DEF step
    <3> QED BY <1>5, <1>6, <3>1 DEF Steps
  <2>2. step[j] = [x \in Nat |-> bytes[j] + d * x]
    OBVIOUS
  <2> HIDE DEF step
  <2> QED BY <2>1, <2>2
<1>8. ValuedLoop(f, bytes)
  <2>1. ASSUME NEW j \in 1 .. n + 1
        PROVE  f[j] = IF j > n THEN 0 ELSE bytes[j] + d * f[j + 1]
    <3>1. CASE j > n
      <4>1. j = n + 1
        BY <3>1
      <4> QED BY <1>6, <3>1, <4>1
    <3>2. CASE ~ (j > n)
      <4>1. j \in 1 .. n
        BY <3>2
      <4> QED BY <1>7, <3>2, <4>1
    <3> QED BY <3>1, <3>2
  <2>2. f = [j \in 1 .. n + 1 |-> f[j]]
    BY <1>6
  <2>3. f = [j \in 1 .. n + 1 |-> IF j > n THEN 0 ELSE bytes[j] + d * f[j + 1]]
    BY <2>1, <2>2
  <2> QED BY <1>1, <1>3, <2>3 DEF ValuedLoop
<1>9. PICK g : ValuedLoop(g, bytes) /\ Valued(bytes) = g[1]
  BY <1>8, ValuedChooses
<1>10. g = [j \in 1 .. n + 1 |-> IF j > n THEN 0 ELSE bytes[j] + d * g[j + 1]]
  BY <1>1, <1>3, <1>9 DEF ValuedLoop
<1>11. \A j \in 1 .. n + 1 : g[j] = IF j > n THEN 0 ELSE bytes[j] + d * g[j + 1]
  BY <1>10
<1>12. g[n + 1] = 0
  <2>1. n + 1 \in 1 .. n + 1 /\ n + 1 > n
    OBVIOUS
  <2> QED BY <1>11, <2>1
<1>13. ASSUME NEW j \in 1 .. n PROVE g[j] = bytes[j] + d * g[j + 1]
  <2>1. j \in 1 .. n + 1 /\ ~ (j > n)
    OBVIOUS
  <2> QED BY <1>11, <2>1
<1>14. \A j \in 1 .. n + 1 : g[j] \in Nat
  <2> DEFINE T == {j \in 1 .. n + 1 : g[j] \in Nat}
  <2>1. n + 1 \in T
    BY <1>12
  <2>2. ASSUME NEW j \in 1 .. n, j + 1 \in T PROVE j \in T
    <3>1. PICK x \in Nat : x = g[j + 1]
      BY <2>2
    <3>2. d * x \in Nat
      OBVIOUS
    <3> QED BY <1>2, <1>13, <3>1, <3>2, SMTT(30)
  <2> HIDE DEF T
  <2>3. \A j \in 1 .. n + 1 : j \in T
    BY <2>1, <2>2, Downwards
  <2> QED BY <2>3 DEF T
<1>15. g \in [1 .. n + 1 -> Nat]
  <2>1. DOMAIN g = 1 .. n + 1 /\ g = [j \in 1 .. n + 1 |-> g[j]]
    BY <1>10
  <2> QED BY <1>14, <2>1
<1>16. ASSUME NEW j \in 1 .. n PROVE g[j] = Row(g[j + 1], Digits, bytes[j])
  <2>1. PICK x \in Nat, b \in Nat : x = g[j + 1] /\ b = bytes[j]
    <3>1. j + 1 \in 1 .. n + 1
      OBVIOUS
    <3> QED BY <1>2, <1>14, <3>1
  <2>2. b + d * x = x * d + b
    OBVIOUS
  <2> QED BY <1>1, <1>13, <2>1, <2>2 DEF Row
<1> QED BY <1>9, <1>12, <1>15, <1>16 DEF ValueSums

LEMMA ValuedDiffers ==
  ASSUME NEW n \in Nat, NEW a \in [1 .. n -> Bytes], NEW b \in [1 .. n -> Bytes],
         Valued(a) = Valued(b)
  PROVE  a = b
<1>8. PICK f : ValueSums(f, n, a)
  BY ValuedIs
<1>9. PICK g : ValueSums(g, n, b)
  BY ValuedIs
<1>1. /\ f \in [1 .. n + 1 -> Nat] /\ Valued(a) = f[1]
      /\ \A j \in 1 .. n : f[j] = Row(f[j + 1], Digits, a[j])
  BY <1>8 DEF ValueSums
<1>2. /\ g \in [1 .. n + 1 -> Nat] /\ Valued(b) = g[1]
      /\ \A j \in 1 .. n : g[j] = Row(g[j + 1], Digits, b[j])
  BY <1>9 DEF ValueSums
<1>3. ASSUME NEW j \in 1 .. n, f[j] = g[j] PROVE f[j + 1] = g[j + 1] /\ a[j] = b[j]
  <2>1. j + 1 \in 1 .. n + 1 /\ f[j + 1] \in Nat /\ g[j + 1] \in Nat
    <3>1. j + 1 \in 1 .. n + 1
      OBVIOUS
    <3> QED BY <1>1, <1>2, <3>1
  <2>2. a[j] \in Nat /\ b[j] \in Nat /\ a[j] < Digits /\ b[j] < Digits /\ Digits \in Nat
    BY Digital
  <2>3. Row(f[j + 1], Digits, a[j]) = Row(g[j + 1], Digits, b[j])
    BY <1>1, <1>2, <1>3
  <2> QED BY <2>1, <2>2, <2>3, RowsDiffer, SMTT(30)
<1> DEFINE T == {j \in 1 .. n + 1 : f[j] = g[j]}
<1>4. 1 \in T
  <2>1. 1 \in 1 .. n + 1
    OBVIOUS
  <2> QED BY <1>1, <1>2, <2>1
<1>5. ASSUME NEW j \in 1 .. n, j \in T PROVE j + 1 \in T
  <2>1. j + 1 \in 1 .. n + 1
    OBVIOUS
  <2> QED BY <1>3, <1>5, <2>1
<1> HIDE DEF T
<1>6. \A j \in 1 .. n + 1 : j \in T
  BY <1>4, <1>5, Upwards
<1>7. \A j \in 1 .. n : a[j] = b[j]
  <2>1. ASSUME NEW j \in 1 .. n PROVE a[j] = b[j]
    <3>1. j \in 1 .. n + 1
      OBVIOUS
    <3>2. f[j] = g[j]
      BY <1>6, <3>1 DEF T
    <3> QED BY <1>3, <3>2
  <2> QED BY <2>1
<1> QED BY <1>7

LEMMA BytewiseIs ==
  ASSUME NEW n \in Nat, NEW v \in Numbers(n)
  PROVE  Bytewise(n, v) \in [1 .. n -> Bytes] /\ Valued(Bytewise(n, v)) = v
BY DEF Numbers, Bytewise

LEMMA BytewiseReturns ==
  ASSUME NEW n \in Nat, NEW a \in [1 .. n -> Bytes]
  PROVE  Valued(a) \in Numbers(n) /\ Bytewise(n, Valued(a)) = a
<1>1. Valued(a) \in Numbers(n)
  BY DEF Numbers
<1> QED BY <1>1, BytewiseIs, ValuedDiffers

LEMMA NumbersAreNaturals ==
  ASSUME NEW n \in Nat
  PROVE  Numbers(n) \subseteq Nat
<1>1. ASSUME NEW a \in [1 .. n -> Bytes] PROVE Valued(a) \in Nat
  <2>1. PICK f : f \in [1 .. n + 1 -> Nat] /\ Valued(a) = f[1]
    BY ValuedIs DEF ValueSums
  <2>2. 1 \in 1 .. n + 1
    OBVIOUS
  <2> QED BY <2>1, <2>2
<1> QED BY <1>1 DEF Numbers

LEMMA TranslationIs ==
  ASSUME NEW a \in Numbers(Word), restored \in BOOLEAN
  PROVE  /\ memory_mg_get(a) \in Numbers(Word)
         /\ ~ restored => memory_mg_get(a) = a
<1>1. CASE restored /\ Blocks!Covering(a) # {}
  <2>1. PICK b : b = CHOOSE x \in Blocks!Covering(a) : TRUE
    OBVIOUS
  <2>2. b \in Blocks!Covering(a)
    BY <1>1, <2>1
  <2>3. b \in DOMAIN Restored /\ (a = b \/ (b < a /\ a < b + Restored[b].size))
    BY <2>2 DEF Blocks!Covering, Blocks!Covers
  <2>4. memory_mg_get(a) = Restored[b].cuda + (a - b)
    BY <1>1, <2>1 DEF memory_mg_get, Blocks!Translation
  <2>5. a \in Nat /\ b \in Nat /\ Restored[b].size \in Nat
    BY <2>3, NumbersAreNaturals, Digital, RestoredAssumption
  <2>6. a - b \in 0 .. Restored[b].size /\ (a - b = 0 \/ a - b < Restored[b].size)
    BY <2>3, <2>5
  <2>7. Restored[b].cuda + (a - b) \in Numbers(Word)
    BY <2>3, <2>6, RestoredAssumption
  <2> QED BY <1>1, <2>4, <2>7
<1>2. CASE ~ (restored /\ Blocks!Covering(a) # {})
  BY <1>2 DEF memory_mg_get, Blocks!Translation
<1> QED BY <1>1, <1>2

-------------------------------------------------------------------------------
(* The buffer of a launch. *)

LEMMA ParamsLie ==
  ASSUME NEW k \in Kernels
  PROVE  /\ Layout[k] \in Seq([offset : Nat, size : Nat \ {0}, pointer : BOOLEAN])
         /\ Len(Layout[k]) \in Nat /\ DOMAIN Layout[k] = 1 .. Len(Layout[k])
         /\ ParamSize(k) \in Nat
         /\ \A o \in DOMAIN Layout[k] :
              LET p == Layout[k][o]
              IN  /\ p.offset \in Nat /\ p.size \in Nat /\ p.size >= 1 /\ p.pointer \in BOOLEAN
                  /\ p.offset + p.size <= ParamSize(k)
                  /\ p.pointer => p.size = Word
                  /\ \A q \in DOMAIN Layout[k] :
                       o < q => p.offset + p.size <= Layout[k][q].offset
<1>1. PICK P, R, l : /\ P = Layout[k] /\ l = Len(P)
                     /\ R = [offset : Nat, size : Nat \ {0}, pointer : BOOLEAN]
  OBVIOUS
<1>2. /\ P \in Seq(R)
      /\ \A o \in DOMAIN P : P[o].pointer => P[o].size = Word
      /\ \A o, q \in DOMAIN P : o < q => P[o].offset + P[o].size <= P[q].offset
  BY <1>1, LayoutAssumption
<1>3. l \in Nat /\ DOMAIN P = 1 .. l /\ P \in [1 .. l -> R]
  BY <1>1, <1>2, LenProperties
<1>4. \A o \in DOMAIN P :
        P[o].offset \in Nat /\ P[o].size \in Nat /\ P[o].size >= 1 /\ P[o].pointer \in BOOLEAN
  <2>1. \A o \in DOMAIN P : P[o] \in R
    BY <1>3
  <2> QED BY <1>1, <2>1
<1>5. CASE P = <<>>
  <2>1. ParamSize(k) = 0
    BY <1>1, <1>5 DEF ParamSize
  <2>2. DOMAIN P = {}
    BY <1>5
  <2> QED BY <1>1, <1>2, <1>3, <2>1, <2>2
<1>6. CASE P # <<>>
  <2>1. ParamSize(k) = P[l].offset + P[l].size
    BY <1>1, <1>6 DEF ParamSize
  <2>2. l \in DOMAIN P
    <3>1. l # 0
      BY <1>1, <1>2, <1>6, EmptySeq
    <3> QED BY <1>3, <3>1
  <2>3. ParamSize(k) \in Nat
    BY <1>4, <2>1, <2>2
  <2>4. ASSUME NEW o \in DOMAIN P PROVE P[o].offset + P[o].size <= ParamSize(k)
    <3>1. CASE o = l
      BY <1>4, <2>1, <2>2, <3>1
    <3>2. CASE o # l
      <4>1. o < l
        BY <1>3, <3>2
      <4>2. P[o].offset + P[o].size <= P[l].offset
        BY <1>2, <2>2, <4>1
      <4>3. PICK x \in Nat, y \in Nat, u \in Nat, v \in Nat :
              x = P[o].offset /\ y = P[o].size /\ u = P[l].offset /\ v = P[l].size
        BY <1>4, <2>2
      <4> QED BY <2>1, <4>2, <4>3
    <3> QED BY <3>1, <3>2
  <2> QED BY <1>1, <1>2, <1>3, <1>4, <2>3, <2>4
<1> QED BY <1>5, <1>6

LEMMA WindowIs ==
  ASSUME NEW N \in Nat, NEW buffer \in [1 .. N -> Bytes], NEW p, p.offset \in Nat,
         NEW n \in Nat, p.offset + n <= N
  PROVE  /\ Window(buffer, p, n) \in [1 .. n -> Bytes]
         /\ \A i \in 1 .. n : Window(buffer, p, n)[i] = buffer[p.offset + i]
<1>1. PICK m \in Nat : m = p.offset
  OBVIOUS
<1>2. buffer \in Seq(Bytes) /\ Len(buffer) = N
  OBVIOUS
<1>3. Window(buffer, p, n) = SubSeq(buffer, m + 1, m + n)
  BY <1>1 DEF Window
<1>4. SubSeq(buffer, m + 1, m + n) = [i \in 1 .. n |-> buffer[m + i]]
  <2>1. SubSeq(buffer, m + 1, m + n) = [i \in 1 .. (m + n) - (m + 1) + 1 |-> buffer[m + 1 + i - 1]]
    BY <1>2
  <2>2. (m + n) - (m + 1) + 1 = n /\ \A i \in 1 .. n : m + 1 + i - 1 = m + i
    OBVIOUS
  <2> QED BY <2>1, <2>2
<1>5. \A i \in 1 .. n : buffer[m + i] \in Bytes
  <2>1. \A i \in 1 .. n : m + i \in 1 .. N
    BY <1>1
  <2> QED BY <2>1
<1> QED BY <1>1, <1>3, <1>4, <1>5

LEMMA SameBytes ==
  ASSUME NEW n \in Nat, NEW a \in [1 .. n -> Bytes], NEW b \in [1 .. n -> Bytes],
         \A i \in 1 .. n : a[i] = b[i]
  PROVE  a = b
OBVIOUS

LEMMA CountersStep ==
  ASSUME Walk, Counters, elf2_get_fatbin_info
  PROVE  Counters'
<1>1. CASE stage \in Loop
  <2>1. PICK n \in DOMAIN fat : \E s \in {fat[n]} : IsCompressed(s) /\ Progress(s)
    BY <1>1 DEF Walk
  <2>2. PICK s : IsCompressed(s) /\ Progress(s)
    BY <2>1
  <2>3. input = s.stored /\ s.stored \in Seq(Nat) /\ outputSize = Len(s.content) /\ InsideLoop
    BY <2>2, TokensLie, LoopStaysInside DEF Progress
  <2>4. Len(input) \in Nat /\ \A i \in Nat : i < Len(input) => In(i) \in Nat
    <3>1. Len(input) \in Nat /\ \A i \in 1 .. Len(input) : input[i] \in Nat
      BY <2>3, LenProperties
    <3>2. \A i \in Nat : i < Len(input) => i + 1 \in 1 .. Len(input)
      BY <3>1
    <3> QED BY <3>1, <3>2 DEF In
  <2>5. pos \in Nat /\ ipos \in Nat /\ nclen \in Nat /\ clen \in Nat /\ back \in Nat
    BY DEF Counters
  <2>6. CASE token
    <3>1. /\ ipos < Len(input) /\ pos' = pos /\ ipos' = ipos /\ back' = back
          /\ nclen' = In(ipos) \div Nibble /\ clen' = LeastMatch + (In(ipos) % Nibble)
      BY <2>6 DEF token, Looping
    <3>2. PICK x \in Nat, b \in Nat : x = In(ipos) /\ b = Nibble /\ b >= 2
      BY <2>4, <2>5, <3>1, Sizes
    <3>3. x \div b \in Nat /\ x % b \in Nat
      BY <3>2, Division
    <3> QED BY <2>5, <3>1, <3>2, <3>3, Sizes DEF Counters
  <2>7. CASE input_ends
    BY <2>5, <2>7 DEF input_ends, Looping, Counters
  <2>8. CASE plain_length
    <3>1. /\ stage = "plain_length" /\ pos' = pos /\ clen' = clen /\ back' = back
          /\ ipos' = ipos + 1 /\ nclen' = nclen + In(ipos + 1)
      BY <2>8 DEF plain_length, Looping
    <3>2. In(ipos + 1) \in Nat
      BY <2>3, <2>4, <2>5, <3>1 DEF InsideLoop
    <3> QED BY <2>5, <3>1, <3>2 DEF Counters
  <2>9. CASE plain
    <3>1. pos' = pos /\ clen' = clen /\ back' = back /\ ipos' = ipos + 1 + nclen /\ nclen' = nclen
      BY <2>9 DEF plain, Looping
    <3> QED BY <2>5, <3>1 DEF Counters
  <2>10. CASE offset
    <3>1. /\ stage = "offset" /\ pos' = pos /\ clen' = clen /\ nclen' = nclen
          /\ ipos' = ipos + 2 /\ back' = In(ipos) + In(ipos + 1) * Byte
      BY <2>10 DEF offset, Looping
    <3>2. In(ipos) \in Nat /\ In(ipos + 1) \in Nat
      BY <2>3, <2>4, <2>5, <3>1 DEF InsideLoop
    <3>3. PICK x \in Nat, y \in Nat, b \in Nat : x = In(ipos) /\ y = In(ipos + 1) /\ b = Byte
      BY <3>2, Sizes
    <3>4. x + y * b \in Nat
      OBVIOUS
    <3> QED BY <2>5, <3>1, <3>3, <3>4 DEF Counters
  <2>11. CASE match_length
    <3>1. /\ stage = "match_length" /\ pos' = pos /\ nclen' = nclen /\ back' = back
          /\ ipos' = ipos + 1 /\ clen' = clen + In(ipos)
      BY <2>11 DEF match_length, Looping
    <3>2. In(ipos) \in Nat
      BY <2>3, <2>4, <2>5, <3>1 DEF InsideLoop
    <3> QED BY <2>5, <3>1, <3>2 DEF Counters
  <2>12. CASE match
    <3>1. pos' = pos /\ clen' = clen /\ back' = back /\ ipos' = ipos /\ nclen' = nclen
      BY <2>12 DEF match, Looping
    <3> QED BY <2>5, <3>1 DEF Counters
  <2>13. CASE decompressed
    <3>1. /\ pos' = pos + Len(input) + Padding(pos + Len(input))
          /\ clen' = clen /\ back' = back /\ ipos' = ipos /\ nclen' = nclen
      BY <2>13 DEF decompressed, decompressVars
    <3>2. PICK m \in Nat : m = pos + Len(input)
      BY <2>4, <2>5
    <3>3. Padding(m) \in Nat
      BY PaddingIs
    <3> QED BY <2>4, <2>5, <3>1, <3>2, <3>3 DEF Counters
  <2> QED BY <1>1, <2>6, <2>7, <2>8, <2>9, <2>10, <2>11, <2>12, <2>13 DEF elf2_get_fatbin_info,
             Loop, get_text_header_fails, skip_section, take_section, decompress,
             elf2_parameter_info, check_elf_fails
<1>2. CASE stage \notin Loop
  <2>1. pos \in Nat /\ ipos \in Nat /\ nclen \in Nat /\ clen \in Nat /\ back \in Nat
    BY DEF Counters
  <2>2. ASSUME stage = "section" PROVE Size(th) \in Nat
    <3>1. fat \in FatBinaries
      BY <2>2 DEF Walk, Reading
    <3>2. PICK n \in DOMAIN fat : pos = Start[n]
      BY <2>2 DEF Walk
    <3>3. th = fat[n] /\ IsFatBinary(fat) /\ DOMAIN fat = 1 .. Len(fat)
      BY <3>1, <3>2, ThIs, FatIs, StartIs
    <3> QED BY <3>3, SectionSizes
  <2>3. CASE get_text_header_fails
    BY <2>1, <2>3 DEF get_text_header_fails, decompressVars, Counters
  <2>4. CASE skip_section
    <3>1. Size(th) \in Nat
      BY <2>2, <2>4 DEF skip_section
    <3>2. pos' = pos + Align + Size(th)
      BY <2>4 DEF skip_section, Continue
    <3> QED BY <2>1, <2>4, <3>1, <3>2, Sizes DEF skip_section, decompressVars, Counters
  <2>5. CASE take_section
    <3>1. Size(th) \in Nat
      BY <2>2, <2>5 DEF take_section
    <3> QED BY <2>1, <2>5, <3>1, Sizes DEF take_section, decompressVars, Counters
  <2>6. CASE decompress
    BY <2>1, <2>6, Sizes DEF decompress, Counters
  <2>7. CASE elf2_parameter_info
    BY <2>1, <2>7 DEF elf2_parameter_info, Continue, decompressVars, Counters
  <2>8. CASE check_elf_fails
    BY <2>1, <2>8 DEF check_elf_fails, decompressVars, Counters
  <2> QED BY <1>2, <2>3, <2>4, <2>5, <2>6, <2>7, <2>8 DEF elf2_get_fatbin_info, Loop,
             token, input_ends, plain_length, plain, offset, match_length, match, decompressed
<1> QED BY <1>1, <1>2

-------------------------------------------------------------------------------
(* Registration. *)

LEMMA RegisterStep ==
  ASSUME LaunchInv, NEW f \in FatBinaries, cudaRegisterFatBinary(f)
  PROVE  Walk' /\ Counters' /\ InfosOK' /\ Registration' /\ LaunchOK'
<1>1. /\ launch = NoLaunch /\ loads < MaxFatBinaries
      /\ fat' = f /\ pos' = Align /\ stage' = "section" /\ loads' = loads + 1
      /\ todo' = {f[i].kernel : i \in DOMAIN f}
      /\ kernel_infos' = kernel_infos /\ handle' = handle /\ modules' = modules
      /\ restored' = restored /\ launch' = launch
      /\ ipos' = ipos /\ nclen' = nclen /\ clen' = clen /\ back' = back
  BY DEF cudaRegisterFatBinary, decompressVars
<1>2. IsFatBinary(f)
  BY FatBinariesAssumption
<1>3. Len(f) \in Nat \ {0} /\ DOMAIN f = 1 .. Len(f) /\ 1 \in DOMAIN f
  BY <1>2 DEF IsFatBinary
<1>4. {f[i].kernel : i \in DOMAIN f} \subseteq Kernels
  BY <1>2 DEF IsFatBinary, IsSection
<1>5. Start'[1] = Align
  <2>1. PICK g : StartLoop(g, f)
    BY <1>2, StartExists
  <2> DEFINE h == CHOOSE x : StartLoop(x, fat')
  <2>2. StartLoop(h, f)
    BY <1>1, <2>1, Zenon
  <2>3. Start' = h
    BY Zenon DEF Start, StartLoop
  <2> HIDE DEF h
  <2>4. h = [n \in 1 .. Len(f) + 1 |-> IF n = 1 THEN Align ELSE h[n - 1] + Align + Size(f[n - 1])]
    BY <2>2 DEF StartLoop
  <2>5. 1 \in 1 .. Len(f) + 1
    BY <1>3
  <2>6. h[1] = Align
    BY <2>4, <2>5
  <2> QED BY <2>3, <2>6
<1>6. KnownBelow(1)'
  <2>1. \A m \in DOMAIN fat' : ~ (m < 1)
    BY <1>1, <1>3
  <2> QED BY <2>1 DEF KnownBelow
<1>7. Walk'
  <2>1. stage' \notin Loop /\ stage' \notin {"text", "read"}
    BY <1>1 DEF Loop
  <2>2. \E m \in DOMAIN fat' : pos' = Start'[m] /\ KnownBelow(m)'
    BY <1>1, <1>3, <1>5, <1>6
  <2>3. /\ fat' \in FatBinaries /\ todo' = {fat'[i].kernel : i \in DOMAIN fat'}
        /\ todo' \subseteq Kernels
    BY <1>1, <1>4
  <2> QED BY <2>1, <2>2, <2>3 DEF Walk
<1>8. Counters'
  BY <1>1, Sizes DEF LaunchInv, Counters
<1>9. InfosOK'
  BY <1>1, InfosStay DEF LaunchInv
<1>10. Registration'
  BY <1>1, <1>4, BoundAssumption DEF LaunchInv, Registration, Stages
<1>11. LaunchOK'
  BY <1>1 DEF LaunchOK, NoLaunch
<1> QED BY <1>7, <1>8, <1>9, <1>10, <1>11

LEMMA LaunchStays ==
  ASSUME LaunchOK, launch' = launch, restored' = restored, modules \subseteq modules'
  PROVE  LaunchOK'
BY DEF LaunchOK, Translated, memory_mg_get, Blocks!Translation, Blocks!Covering, Blocks!Covers

LEMMA OutsideReading ==
  ASSUME stage' \notin Reading
  PROVE  Walk'
BY DEF Walk, Reading, Loop

LEMMA LoadStep ==
  ASSUME LaunchInv, rpc_elf_load
  PROVE  Walk' /\ Counters' /\ InfosOK' /\ Registration' /\ LaunchOK'
<1>1. /\ stage = "read" /\ modules' = modules \cup {fat[i].kernel : i \in DOMAIN fat}
      /\ handle' = TRUE /\ stage' = "registering"
      /\ pos' = 0 /\ ipos' = 0 /\ nclen' = 0 /\ clen' = 0 /\ back' = 0
      /\ kernel_infos' = kernel_infos /\ todo' = todo /\ loads' = loads
      /\ restored' = restored /\ launch' = launch
  BY DEF rpc_elf_load, Reset
<1>2. todo = {fat[i].kernel : i \in DOMAIN fat} /\ todo \subseteq Kernels
  BY <1>1 DEF LaunchInv, Walk, Reading
<1>3. stage' \notin Reading
  BY <1>1 DEF Reading, Loop
<1>4. Registration'
  BY <1>1, <1>2 DEF LaunchInv, Registration, Stages
<1>5. Counters'
  BY <1>1 DEF Counters
<1> QED BY <1>1, <1>3, <1>4, <1>5, OutsideReading, InfosStay, LaunchStays DEF LaunchInv

LEMMA RegisterFailsStep ==
  ASSUME LaunchInv, cudaRegisterFatBinary_fails
  PROVE  Walk' /\ Counters' /\ InfosOK' /\ Registration' /\ LaunchOK'
<1>1. /\ stage' = "registering" /\ handle' = FALSE
      /\ pos' = 0 /\ ipos' = 0 /\ nclen' = 0 /\ clen' = 0 /\ back' = 0
      /\ kernel_infos' = kernel_infos /\ todo' = todo /\ loads' = loads /\ modules' = modules
      /\ restored' = restored /\ launch' = launch
  BY DEF cudaRegisterFatBinary_fails, Reset
<1>3. stage' \notin Reading
  BY <1>1 DEF Reading, Loop
<1>4. Registration'
  BY <1>1 DEF LaunchInv, Registration, Stages
<1>5. Counters'
  BY <1>1 DEF Counters
<1> QED BY <1>1, <1>3, <1>4, <1>5, OutsideReading, InfosStay, LaunchStays DEF LaunchInv

LEMMA HostFunStep ==
  ASSUME InfosOK, NEW k \in Kernels, NEW f \in {Unset, Stub(k), CUfunction(k)},
         f # Unset => k \in modules, modules' = modules, kernel_infos' = HostFun(k, f)
  PROVE  InfosOK'
<1>1. PICK T : T = [name : Kernels, host_fun : {Unset} \cup {Stub(q) : q \in Kernels}
                                                \cup {CUfunction(q) : q \in Kernels},
                    params : {Layout[q] : q \in Kernels}, sized : {TRUE}]
  OBVIOUS
<1>2. PICK old, new : old = kernel_infos /\ new = kernel_infos'
  OBVIOUS
<1>3. /\ old \in Seq(T)
      /\ \A i, j \in DOMAIN old :
           /\ old[i].params = Layout[old[i].name]
           /\ old[i].name = old[j].name => i = j
           /\ old[i].host_fun # Unset =>
                old[i].host_fun.kernel = old[i].name /\ old[i].name \in modules
  BY <1>1, <1>2 DEF InfosOK
<1>4. PICK l \in Nat : l = Len(old) /\ DOMAIN old = 1 .. l /\ old \in [1 .. l -> T]
  BY <1>3, LenProperties
<1>5. new = [i \in 1 .. l |-> IF old[i].name = k THEN [old[i] EXCEPT !.host_fun = f] ELSE old[i]]
  BY <1>2, <1>4 DEF HostFun
<1>6. f \in {Unset} \cup {Stub(q) : q \in Kernels} \cup {CUfunction(q) : q \in Kernels}
  OBVIOUS
<1>7. f # Unset => f.kernel = k /\ k \in modules
  BY DEF Stub, CUfunction
<1>8. ASSUME NEW i \in 1 .. l
      PROVE  /\ new[i] \in T /\ new[i].name = old[i].name /\ new[i].params = old[i].params
             /\ new[i].host_fun = IF old[i].name = k THEN f ELSE old[i].host_fun
  <2>1. old[i] \in T
    BY <1>4
  <2>2. CASE old[i].name = k
    <3>1. new[i] = [old[i] EXCEPT !.host_fun = f]
      BY <1>5, <2>2
    <3> QED BY <1>1, <1>6, <2>1, <2>2, <3>1
  <2>3. CASE old[i].name # k
    <3>1. new[i] = old[i]
      BY <1>5, <2>3
    <3> QED BY <2>1, <2>3, <3>1
  <2> QED BY <2>2, <2>3
<1>9. new \in Seq(T) /\ DOMAIN new = 1 .. l
  <2>1. DOMAIN new = 1 .. l /\ new = [i \in 1 .. l |-> new[i]]
    BY <1>5
  <2>2. new \in [1 .. l -> T]
    BY <1>8, <2>1
  <2> QED BY <2>1, <2>2
<1>10. \A i, j \in DOMAIN new :
           /\ new[i].params = Layout[new[i].name]
           /\ new[i].name = new[j].name => i = j
           /\ new[i].host_fun # Unset =>
                new[i].host_fun.kernel = new[i].name /\ new[i].name \in modules
  BY <1>3, <1>4, <1>7, <1>8, <1>9
<1> QED BY <1>1, <1>2, <1>9, <1>10 DEF InfosOK

LEMMA FunctionStep ==
  ASSUME LaunchInv, NEW k \in Kernels, cudaRegisterFunction(k)
  PROVE  Walk' /\ Counters' /\ InfosOK' /\ Registration' /\ LaunchOK'
<1>1. /\ stage = "registering" /\ k \in todo /\ todo' = todo \ {k}
      /\ stage' \in {"registering", "exited"}
      /\ pos' = pos /\ ipos' = ipos /\ nclen' = nclen /\ clen' = clen /\ back' = back
      /\ handle' = handle /\ loads' = loads /\ modules' = modules
      /\ restored' = restored /\ launch' = launch
      /\ kernel_infos' = kernel_infos \/ (handle /\ kernel_infos' = HostFun(k, Stub(k)))
  BY DEF cudaRegisterFunction, decompressVars
<1>2. stage' \notin Reading
  BY <1>1 DEF Reading, Loop
<1>3. Registration'
  BY <1>1 DEF LaunchInv, Registration, Stages
<1>4. Counters'
  BY <1>1 DEF LaunchInv, Counters
<1>5. InfosOK'
  <2>1. CASE kernel_infos' = kernel_infos
    BY <1>1, <2>1, InfosStay DEF LaunchInv
  <2>2. CASE handle /\ kernel_infos' = HostFun(k, Stub(k))
    <3>1. k \in modules
      BY <1>1, <2>2 DEF LaunchInv, Registration
    <3>2. PICK f \in {Unset, Stub(k), CUfunction(k)} : f = Stub(k)
      OBVIOUS
    <3> QED BY <1>1, <2>2, <3>1, <3>2, HostFunStep DEF LaunchInv
  <2> QED BY <1>1, <2>1, <2>2
<1> QED BY <1>1, <1>2, <1>3, <1>4, <1>5, OutsideReading, LaunchStays DEF LaunchInv

LEMMA GetFunctionStep ==
  ASSUME LaunchInv, NEW k \in Kernels, cuModuleGetFunction(k)
  PROVE  Walk' /\ Counters' /\ InfosOK' /\ Registration' /\ LaunchOK'
<1>1. /\ stage = "running" /\ k \in modules /\ stage' = stage
      /\ kernel_infos' = HostFun(k, CUfunction(k))
      /\ pos' = pos /\ ipos' = ipos /\ nclen' = nclen /\ clen' = clen /\ back' = back
      /\ handle' = handle /\ todo' = todo /\ loads' = loads /\ modules' = modules
      /\ restored' = restored /\ launch' = launch
  BY DEF cuModuleGetFunction, decompressVars, launchVars
<1>2. stage' \notin Reading
  BY <1>1 DEF Reading, Loop
<1>3. Registration'
  BY <1>1 DEF LaunchInv, Registration, Stages
<1>4. Counters'
  BY <1>1 DEF LaunchInv, Counters
<1>5. PICK f \in {Unset, Stub(k), CUfunction(k)} : f = CUfunction(k)
  OBVIOUS
<1>6. InfosOK'
  BY <1>1, <1>5, HostFunStep DEF LaunchInv
<1> QED BY <1>1, <1>2, <1>3, <1>4, <1>6, OutsideReading, LaunchStays DEF LaunchInv

LEMMA GetFunctionFailsStep ==
  ASSUME LaunchInv, NEW k \in Kernels, cuModuleGetFunction_fails(k)
  PROVE  Walk' /\ Counters' /\ InfosOK' /\ Registration' /\ LaunchOK'
<1>1. /\ stage = "running" /\ stage' = stage
      /\ kernel_infos' = HostFun(k, Unset)
      /\ pos' = pos /\ ipos' = ipos /\ nclen' = nclen /\ clen' = clen /\ back' = back
      /\ handle' = handle /\ todo' = todo /\ loads' = loads /\ modules' = modules
      /\ restored' = restored /\ launch' = launch
  BY DEF cuModuleGetFunction_fails, decompressVars, launchVars
<1>2. stage' \notin Reading
  BY <1>1 DEF Reading, Loop
<1>3. Registration'
  BY <1>1 DEF LaunchInv, Registration, Stages
<1>4. Counters'
  BY <1>1 DEF LaunchInv, Counters
<1>5. PICK f \in {Unset, Stub(k), CUfunction(k)} : f = Unset
  OBVIOUS
<1>6. InfosOK'
  BY <1>1, <1>5, HostFunStep DEF LaunchInv
<1> QED BY <1>1, <1>2, <1>3, <1>4, <1>6, OutsideReading, LaunchStays DEF LaunchInv

LEMMA LoadDataStep ==
  ASSUME LaunchInv, NEW image \in Images, cuModuleLoadData(image)
  PROVE  Walk' /\ Counters' /\ InfosOK' /\ Registration' /\ LaunchOK'
<1>1. /\ stage = "running" /\ stage' = stage /\ loads < MaxFatBinaries /\ loads' = loads + 1
      /\ kernel_infos' = Learnt(kernel_infos, image.kernel, image.content)
      /\ modules' \in {modules, modules \cup {image.kernel}}
      /\ pos' = pos /\ ipos' = ipos /\ nclen' = nclen /\ clen' = clen /\ back' = back
      /\ handle' = handle /\ todo' = todo
      /\ restored' = restored /\ launch' = launch
  BY DEF cuModuleLoadData, decompressVars
<1>2. PICK f \in FatBinaries :
        image \in {[kernel |-> f[n].kernel, content |-> f[n].content] :
                      n \in {m \in DOMAIN f : f[m].kind = "elf"}}
  BY DEF Images
<1>3. PICK s : /\ \E n \in DOMAIN f : s = f[n]
               /\ s.kind = "elf" /\ image = [kernel |-> s.kernel, content |-> s.content]
  BY <1>2
<1>4. IsSection(s) /\ s.kind = "elf" /\ image.kernel = s.kernel /\ image.content = s.content
  BY <1>3, FatBinariesAssumption DEF IsFatBinary
<1>5. PICK k, bytes : k = image.kernel /\ bytes = image.content
  OBVIOUS
<1>6. k \in Kernels
      /\ get_parm_for_kernel(k, bytes) =
           [name |-> k, host_fun |-> Unset, params |-> Layout[k], sized |-> TRUE]
  BY <1>4, <1>5, ImageTells
<1>7. modules \subseteq modules' /\ modules' \subseteq modules \cup {k}
  BY <1>1, <1>5
<1>8. InfosOK'
  BY <1>1, <1>5, <1>6, <1>7, LearntOK DEF LaunchInv
<1>9. stage' \notin Reading
  BY <1>1 DEF Reading, Loop
<1>10. Registration'
  <2>1. loads' \in 0 .. MaxFatBinaries
    BY <1>1, BoundAssumption DEF LaunchInv, Registration
  <2>2. modules' \subseteq Kernels
    BY <1>6, <1>7 DEF LaunchInv, Registration
  <2> QED BY <1>1, <2>1, <2>2 DEF LaunchInv, Registration, Stages
<1>11. Counters'
  BY <1>1 DEF LaunchInv, Counters
<1> QED BY <1>1, <1>7, <1>8, <1>9, <1>10, <1>11, OutsideReading, LaunchStays DEF LaunchInv

LEMMA RegisteredStep ==
  ASSUME LaunchInv, registered
  PROVE  Walk' /\ Counters' /\ InfosOK' /\ Registration' /\ LaunchOK'
<1>1. /\ stage' = "running" /\ handle' = TRUE /\ kernel_infos' = kernel_infos
      /\ pos' = pos /\ ipos' = ipos /\ nclen' = nclen /\ clen' = clen /\ back' = back
      /\ todo' = todo /\ loads' = loads /\ modules' = modules
      /\ restored' = restored /\ launch' = launch
  BY DEF registered, decompressVars
<1>2. stage' \notin Reading
  BY <1>1 DEF Reading, Loop
<1>3. Registration'
  BY <1>1 DEF LaunchInv, Registration, Stages
<1>4. Counters'
  BY <1>1 DEF LaunchInv, Counters
<1> QED BY <1>1, <1>2, <1>3, <1>4, OutsideReading, InfosStay, LaunchStays DEF LaunchInv

LEMMA RestartStep ==
  ASSUME LaunchInv, restart
  PROVE  Walk' /\ Counters' /\ InfosOK' /\ Registration' /\ LaunchOK'
<1>1. /\ stage = "running" /\ stage' = stage /\ kernel_infos' = kernel_infos
      /\ pos' = pos /\ ipos' = ipos /\ nclen' = nclen /\ clen' = clen /\ back' = back
      /\ handle' = handle /\ todo' = todo /\ loads' = loads /\ modules' = modules
      /\ restored' = TRUE /\ launch = NoLaunch /\ launch' = launch
  BY DEF restart, elfVars, decompressVars
<1>2. stage' \notin Reading
  BY <1>1 DEF Reading, Loop
<1>3. Registration'
  BY <1>1 DEF LaunchInv, Registration, Stages
<1>4. Counters'
  BY <1>1 DEF LaunchInv, Counters
<1>5. LaunchOK'
  BY <1>1 DEF LaunchOK, NoLaunch
<1> QED BY <1>1, <1>2, <1>3, <1>4, <1>5, OutsideReading, InfosStay DEF LaunchInv

LEMMA ReadStep ==
  ASSUME LaunchInv, reads
  PROVE  Walk' /\ Counters' /\ InfosOK' /\ Registration' /\ LaunchOK'
<1>1. /\ elf2_get_fatbin_info /\ UNCHANGED launchVars
      /\ handle' = handle /\ todo' = todo /\ loads' = loads /\ modules' = modules
      /\ restored' = restored /\ launch' = launch
  BY DEF reads, launchVars
<1>2. Walk' /\ InfosOK' /\ Counters'
  BY <1>1, ReadSteps, CountersStep DEF LaunchInv
<1>3. stage' \in Stages /\ stage' # "registering"
  BY <1>1 DEF elf2_get_fatbin_info, get_text_header_fails, skip_section, take_section, decompress,
     token, input_ends, plain_length, plain, offset, match_length, match, decompressed,
     elf2_parameter_info, check_elf_fails, Continue, Stages
<1>4. Registration'
  BY <1>1, <1>3 DEF LaunchInv, Registration
<1> QED BY <1>1, <1>2, <1>4, LaunchStays DEF LaunchInv

LEMMA WriteIs ==
  ASSUME NEW N \in Nat, NEW buffer \in [1 .. N -> Bytes], NEW p, p.offset \in Nat,
         p.offset + Word <= N, NEW bytes \in [1 .. Word -> Bytes]
  PROVE  /\ Write(buffer, p, bytes) \in [1 .. N -> Bytes]
         /\ \A i \in 1 .. Word : Write(buffer, p, bytes)[p.offset + i] = bytes[i]
         /\ \A b \in 1 .. N : b <= p.offset \/ b > p.offset + Word =>
              Write(buffer, p, bytes)[b] = buffer[b]
<1>1. PICK m \in Nat : m = p.offset
  OBVIOUS
<1>2. PICK w \in Nat : w = Word
  BY Digital
<1>3. PICK new : new = Write(buffer, p, bytes)
  OBVIOUS
<1>4. new = [b \in 1 .. N |-> IF b - m \in 1 .. w THEN bytes[b - m] ELSE buffer[b]]
  BY <1>1, <1>2, <1>3 DEF Write
<1>5. \A b \in 1 .. N : new[b] = IF b - m \in 1 .. w THEN bytes[b - m] ELSE buffer[b]
  BY <1>4
<1>6. \A b \in 1 .. N : new[b] \in Bytes
  <2>1. \A i \in 1 .. w : bytes[i] \in Bytes
    BY <1>2
  <2> QED BY <1>5, <2>1
<1>7. new \in [1 .. N -> Bytes]
  <2>1. DOMAIN new = 1 .. N /\ new = [b \in 1 .. N |-> new[b]]
    BY <1>4
  <2> QED BY <1>6, <2>1
<1>8. ASSUME NEW i \in 1 .. w PROVE new[m + i] = bytes[i]
  <2>1. m + w <= N
    BY <1>1, <1>2
  <2>2. m + i \in 1 .. N /\ (m + i) - m = i
    BY <2>1
  <2> QED BY <1>5, <2>2
<1>9. ASSUME NEW b \in 1 .. N, b <= m \/ b > m + w PROVE new[b] = buffer[b]
  <2>1. b - m \notin 1 .. w
    BY <1>9
  <2> QED BY <1>5, <2>1
<1> QED BY <1>1, <1>2, <1>3, <1>7, <1>8, <1>9

(* An address that is written back where it was read changes nothing.      *)
LEMMA WrittenBack ==
  ASSUME NEW N \in Nat, NEW buffer \in [1 .. N -> Bytes], NEW p, p.offset \in Nat,
         p.offset + Word <= N
  PROVE  Write(buffer, p, Bytewise(Word, Valued(Window(buffer, p, Word)))) = buffer
<1>1. PICK m \in Nat : m = p.offset
  OBVIOUS
<1>2. PICK w \in Nat : w = Word
  BY Digital
<1>3. PICK a : a = Window(buffer, p, Word)
  OBVIOUS
<1>4. a \in [1 .. Word -> Bytes] /\ \A i \in 1 .. w : a[i] = buffer[m + i]
  BY <1>1, <1>2, <1>3, WindowIs, Digital, SMTT(30)
<1>5. Bytewise(Word, Valued(a)) = a
  BY <1>4, BytewiseReturns, Digital
<1>6. PICK new : new = Write(buffer, p, a)
  OBVIOUS
<1>7. /\ new \in [1 .. N -> Bytes]
      /\ \A i \in 1 .. w : new[m + i] = a[i]
      /\ \A b \in 1 .. N : b <= m \/ b > m + w => new[b] = buffer[b]
  BY <1>1, <1>2, <1>4, <1>6, WriteIs
<1>8. ASSUME NEW b \in 1 .. N PROVE new[b] = buffer[b]
  <2>1. CASE b <= m \/ b > m + w
    BY <1>7, <2>1
  <2>2. CASE ~ (b <= m \/ b > m + w)
    <3>1. PICK i \in 1 .. w : b = m + i
      <4>1. b - m \in 1 .. w /\ b = m + (b - m)
        BY <2>2
      <4> QED BY <4>1
    <3> QED BY <1>4, <1>7, <3>1
  <2> QED BY <2>1, <2>2
<1>9. new = buffer
  BY <1>7, <1>8
<1> QED BY <1>3, <1>5, <1>6, <1>9

Apart(p, q, n) == q.offset + n <= p.offset \/ p.offset + Word <= q.offset

LEMMA WriteElsewhere ==
  ASSUME NEW N \in Nat, NEW buffer \in [1 .. N -> Bytes],
         NEW q, q.offset \in Nat, NEW n \in Nat, q.offset + n <= N,
         NEW p, p.offset \in Nat, p.offset + Word <= N, NEW bytes \in [1 .. Word -> Bytes],
         Apart(p, q, n)
  PROVE  Window(Write(buffer, p, bytes), q, n) = Window(buffer, q, n)
<1>1. /\ Window(buffer, q, n) \in [1 .. n -> Bytes]
      /\ \A i \in 1 .. n : Window(buffer, q, n)[i] = buffer[q.offset + i]
  BY WindowIs
<1>2. PICK new : new = Write(buffer, p, bytes)
  OBVIOUS
<1>3. PICK m \in Nat, u \in Nat, w \in Nat : m = p.offset /\ u = q.offset /\ w = Word
  BY Digital
<1>4. /\ new \in [1 .. N -> Bytes]
      /\ \A b \in 1 .. N : b <= m \/ b > m + w => new[b] = buffer[b]
  BY <1>2, <1>3, WriteIs, SMTT(30)
<1>5. ASSUME NEW i \in 1 .. n PROVE new[u + i] = buffer[u + i]
  <2>1. u + n <= N /\ (u + n <= m \/ m + w <= u)
    BY <1>3 DEF Apart
  <2>2. u + i \in 1 .. N /\ (u + i <= m \/ u + i > m + w)
    BY <2>1
  <2> QED BY <1>4, <2>2
<1>6. PICK v, x : v = Window(new, q, n) /\ x = Window(buffer, q, n)
  OBVIOUS
<1>7. v \in [1 .. n -> Bytes] /\ \A i \in 1 .. n : v[i] = new[u + i]
  <2>1. new \in [1 .. N -> Bytes]
    BY <1>4
  <2>2. /\ Window(new, q, n) \in [1 .. n -> Bytes]
        /\ \A i \in 1 .. n : Window(new, q, n)[i] = new[q.offset + i]
    BY <2>1, WindowIs, SMTT(30)
  <2> QED BY <1>3, <1>6, <2>2
<1>8. x \in [1 .. n -> Bytes] /\ \A i \in 1 .. n : x[i] = buffer[u + i]
  BY <1>1, <1>3, <1>6
<1>9. \A i \in 1 .. n : v[i] = x[i]
  BY <1>5, <1>7, <1>8
<1>10. v = x
  BY <1>7, <1>8, <1>9, SameBytes
<1> QED BY <1>2, <1>6, <1>10

LEMMA WriteHere ==
  ASSUME NEW N \in Nat, NEW buffer \in [1 .. N -> Bytes], NEW p, p.offset \in Nat,
         p.offset + Word <= N, NEW bytes \in [1 .. Word -> Bytes]
  PROVE  Window(Write(buffer, p, bytes), p, Word) = bytes
<1>1. PICK new : new = Write(buffer, p, bytes)
  OBVIOUS
<1>2. PICK m \in Nat, w \in Nat : m = p.offset /\ w = Word
  BY Digital
<1>3. new \in [1 .. N -> Bytes] /\ \A i \in 1 .. w : new[m + i] = bytes[i]
  BY <1>1, <1>2, WriteIs
<1>4. PICK v : v = Window(new, p, w)
  OBVIOUS
<1>5. v \in [1 .. w -> Bytes] /\ \A i \in 1 .. w : v[i] = new[m + i]
  <2>1. new \in [1 .. N -> Bytes]
    BY <1>3
  <2>2. p.offset \in Nat /\ w \in Nat /\ p.offset + w <= N
    BY <1>2
  <2>3. /\ Window(new, p, w) \in [1 .. w -> Bytes]
        /\ \A i \in 1 .. w : Window(new, p, w)[i] = new[p.offset + i]
    BY <2>1, <2>2, WindowIs, SMTT(30)
  <2> QED BY <1>2, <1>4, <2>3
<1>6. \A i \in 1 .. w : v[i] = bytes[i]
  BY <1>3, <1>5
<1>7. bytes \in [1 .. w -> Bytes]
  BY <1>2
<1>8. v = bytes
  BY <1>5, <1>6, <1>7, SameBytes
<1> QED BY <1>1, <1>2, <1>4, <1>8

(* No two parameters share a byte.                                         *)
LEMMA PlacesDiffer ==
  ASSUME NEW k \in Kernels, NEW o \in DOMAIN Layout[k], NEW q \in DOMAIN Layout[k],
         NEW b, b \in Place(Layout[k][o]), b \in Place(Layout[k][q])
  PROVE  o = q
<1>1. DOMAIN Layout[k] = 1 .. Len(Layout[k]) /\ Len(Layout[k]) \in Nat
  BY ParamsLie
<1>2. ASSUME NEW x \in DOMAIN Layout[k], NEW y \in DOMAIN Layout[k], x < y,
             b \in Place(Layout[k][x]), b \in Place(Layout[k][y])
      PROVE  FALSE
  <2>1. PICK m \in Nat, s \in Nat, n \in Nat, t \in Nat :
          m = Layout[k][x].offset /\ s = Layout[k][x].size
          /\ n = Layout[k][y].offset /\ t = Layout[k][y].size
    BY ParamsLie
  <2>2. m + s <= n
    BY <1>2, <2>1, ParamsLie
  <2>3. b \in m + 1 .. m + s /\ b \in n + 1 .. n + t
    BY <1>2, <2>1 DEF Place
  <2> QED BY <2>2, <2>3
<1>3. o \in Nat /\ q \in Nat
  BY <1>1
<1>4. ~ (o < q)
  BY <1>2
<1>5. ~ (q < o)
  BY <1>2
<1> QED BY <1>3, <1>4, <1>5

LEMMA PackedIs ==
  ASSUME NEW k \in Kernels, NEW args \in Arguments(k), NEW junk \in [Gaps(k) -> Bytes],
         NEW N \in Nat, N = ParamSize(k) + Word - 1
  PROVE  /\ Packed(k, Layout[k], args, junk) \in [1 .. N -> Bytes]
         /\ \A o \in DOMAIN Layout[k] :
              Valued(Window(Packed(k, Layout[k], args, junk), Layout[k][o], Layout[k][o].size))
                = args[o]
<1>1. PICK P : P = Layout[k]
  OBVIOUS
<1>2. PICK new : new = Packed(k, Layout[k], args, junk)
  OBVIOUS
<1>3. \A o \in DOMAIN P :
        /\ P[o].offset \in Nat /\ P[o].size \in Nat
        /\ P[o].offset + P[o].size <= ParamSize(k)
  BY <1>1, ParamsLie
<1>4. \A o \in DOMAIN P : args[o] \in Numbers(P[o].size)
  BY <1>1 DEF Arguments
<1>5. \A o \in DOMAIN P :
        /\ Bytewise(P[o].size, args[o]) \in [1 .. P[o].size -> Bytes]
        /\ Valued(Bytewise(P[o].size, args[o])) = args[o]
  BY <1>3, <1>4, BytewiseIs
<1>6. /\ DOMAIN new = 1 .. N /\ new = [b \in 1 .. N |-> new[b]]
      /\ \A b \in 1 .. N : new[b] =
           IF \E o \in DOMAIN P : b \in Place(P[o])
           THEN LET o == CHOOSE o \in DOMAIN P : b \in Place(P[o])
                IN  Bytewise(P[o].size, args[o])[b - P[o].offset]
           ELSE junk[b]
  BY <1>1, <1>2 DEF Packed
<1>7. ASSUME NEW o \in DOMAIN P, NEW i \in 1 .. P[o].size
      PROVE  /\ P[o].offset + i \in 1 .. N
             /\ new[P[o].offset + i] = Bytewise(P[o].size, args[o])[i]
  <2>1. PICK m \in Nat, s \in Nat, z \in Nat, w \in Nat :
          m = P[o].offset /\ s = P[o].size /\ z = ParamSize(k) /\ w = Word
    BY <1>3, ParamsLie, Digital
  <2>2. i \in 1 .. s /\ m + s <= z /\ w >= 1 /\ N = z + w - 1
    BY <1>3, <2>1, Digital
  <2>3. PICK b \in 1 .. N : b = m + i
    BY <2>2
  <2>4. b \in Place(P[o]) /\ b - m = i
    BY <2>1, <2>2, <2>3 DEF Place
  <2>5. PICK q : q = CHOOSE x \in DOMAIN P : b \in Place(P[x])
    OBVIOUS
  <2>6. q \in DOMAIN P /\ b \in Place(P[q])
    BY <2>4, <2>5
  <2>7. q = o
    BY <1>1, <2>4, <2>6, PlacesDiffer
  <2>8. new[b] = Bytewise(P[q].size, args[q])[b - P[q].offset]
    BY <1>6, <2>4, <2>5
  <2> QED BY <2>1, <2>3, <2>4, <2>7, <2>8
<1>8. ASSUME NEW b \in 1 .. N PROVE new[b] \in Bytes
  <2>1. CASE \E o \in DOMAIN P : b \in Place(P[o])
    <3>1. PICK o \in DOMAIN P : b \in Place(P[o])
      BY <2>1
    <3>2. PICK m \in Nat, s \in Nat : m = P[o].offset /\ s = P[o].size
      BY <1>3
    <3>3. b \in m + 1 .. m + s
      BY <3>1, <3>2 DEF Place
    <3>4. PICK i \in 1 .. s : b = m + i
      <4>1. b - m \in 1 .. s /\ b = m + (b - m)
        BY <3>3
      <4> QED BY <4>1
    <3>5. new[b] = Bytewise(P[o].size, args[o])[i]
      BY <1>7, <3>2, <3>4
    <3> QED BY <1>5, <3>2, <3>5
  <2>2. CASE ~ \E o \in DOMAIN P : b \in Place(P[o])
    <3>1. b \in Gaps(k)
      BY <1>1, <2>2 DEF Gaps
    <3> QED BY <1>6, <2>2, <3>1
  <2> QED BY <2>1, <2>2
<1>9. new \in [1 .. N -> Bytes]
  BY <1>6, <1>8
<1>10. ASSUME NEW o \in DOMAIN P PROVE Valued(Window(new, P[o], P[o].size)) = args[o]
  <2>1. PICK n \in Nat : n = P[o].size
    BY <1>3
  <2>2. PICK p : p = P[o]
    OBVIOUS
  <2>3. p.offset \in Nat /\ p.offset + n <= N
    <3>1. PICK m \in Nat, z \in Nat, w \in Nat : m = P[o].offset /\ z = ParamSize(k) /\ w = Word
      BY <1>3, ParamsLie, Digital
    <3>2. m + n <= z /\ w >= 1 /\ N = z + w - 1
      BY <1>3, <2>1, <3>1, Digital
    <3>3. m + n <= N
      BY <3>2
    <3> QED BY <2>2, <3>1, <3>3
  <2>4. PICK v : v = Window(new, p, n)
    OBVIOUS
  <2>5. v \in [1 .. n -> Bytes] /\ \A i \in 1 .. n : v[i] = new[p.offset + i]
    <3>1. /\ Window(new, p, n) \in [1 .. n -> Bytes]
          /\ \A i \in 1 .. n : Window(new, p, n)[i] = new[p.offset + i]
      BY <1>9, <2>3, WindowIs, SMTT(30)
    <3> QED BY <2>4, <3>1
  <2>6. PICK a : a = Bytewise(n, args[o])
    OBVIOUS
  <2>7. a \in [1 .. n -> Bytes] /\ Valued(a) = args[o]
    BY <1>5, <2>1, <2>6
  <2>8. \A i \in 1 .. n : v[i] = a[i]
    BY <1>7, <2>1, <2>2, <2>5, <2>6
  <2>9. v = a
    BY <2>5, <2>7, <2>8
  <2> QED BY <2>1, <2>2, <2>4, <2>7, <2>9
<1> QED BY <1>1, <1>2, <1>9, <1>10


-------------------------------------------------------------------------------
(* Launches. *)

LEMMA WalkStays ==
  ASSUME Walk, UNCHANGED elfVars, todo' = todo
  PROVE  Walk'
<1>1. /\ fat' = fat /\ stage' = stage /\ pos' = pos /\ text' = text /\ kernel_infos' = kernel_infos
      /\ input' = input /\ output' = output /\ outputSize' = outputSize
      /\ ipos' = ipos /\ nclen' = nclen /\ clen' = clen /\ back' = back
  BY DEF elfVars, decompressVars
<1>2. Start' = Start
  BY <1>1, StartStays
<1>3. \A n : KnownBelow(n) => KnownBelow(n)'
  BY <1>1, KnownStays
<1>4. \A s : Progress(s) => Progress(s)'
  <2>1. \A s, n : Written(s, n)' <=> Written(s, n)
    BY <1>1 DEF Written
  <2> QED BY <1>1, <2>1 DEF Progress, AtToken, AtPlainLength, AtPlain, AtOffset, AtMatchLength, AtMatch
<1>5. \A s : TextOf(s) => TextOf(s)'
  BY <1>1 DEF TextOf
<1>6. stage \in Reading =>
        /\ fat' \in FatBinaries /\ todo' = {fat'[i].kernel : i \in DOMAIN fat'}
        /\ todo' \subseteq Kernels
  BY <1>1 DEF Walk
<1>7. stage = "section" => \E n \in DOMAIN fat' : pos' = Start'[n] /\ KnownBelow(n)'
  BY <1>1, <1>2, <1>3 DEF Walk
<1>8. stage \in Loop =>
        \E n \in DOMAIN fat' : \E s \in {fat'[n]} :
          /\ pos' = Start'[n] + Align /\ KnownBelow(n)'
          /\ s.kind = "elf" /\ IsCompressed(s) /\ Progress(s)'
  BY <1>1, <1>2, <1>3, <1>4 DEF Walk
<1>9. stage = "text" =>
        \E n \in DOMAIN fat' : \E s \in {fat'[n]} :
          pos' = Start'[n + 1] /\ KnownBelow(n)' /\ s.kind = "elf" /\ TextOf(s)'
  BY <1>1, <1>2, <1>3, <1>5 DEF Walk
<1>10. stage = "read" => KnownBelow(Len(fat) + 1)'
  BY <1>1 DEF Walk, KnownBelow, Known
<1> QED BY <1>1, <1>6, <1>7, <1>8, <1>9, <1>10 DEF Walk

LEMMA ReadingStays ==
  ASSUME Walk, Counters, InfosOK, Registration,
         UNCHANGED <<elfVars, handle, todo, loads, modules, restored>>
  PROVE  Walk' /\ Counters' /\ InfosOK' /\ Registration'
<1>1. /\ UNCHANGED elfVars /\ todo' = todo /\ modules' = modules /\ kernel_infos' = kernel_infos
      /\ handle' = handle /\ loads' = loads /\ restored' = restored /\ stage' = stage
      /\ pos' = pos /\ ipos' = ipos /\ nclen' = nclen /\ clen' = clen /\ back' = back
  BY DEF elfVars, decompressVars
<1>2. Counters' /\ Registration'
  BY <1>1 DEF Counters, Registration
<1> QED BY <1>1, <1>2, WalkStays, InfosStay

LEMMA UnknownStep ==
  ASSUME LaunchInv, NEW f, launch_unknown(f)
  PROVE  Walk' /\ Counters' /\ InfosOK' /\ Registration' /\ LaunchOK'
<1>1. launch' = [at |-> "unknown", f |-> f]
      /\ UNCHANGED <<elfVars, handle, todo, loads, modules, restored>>
  BY DEF launch_unknown
<1>2. LaunchOK'
  BY <1>1 DEF LaunchOK
<1> QED BY <1>1, <1>2, ReadingStays DEF LaunchInv

LEMMA AstrayStep ==
  ASSUME LaunchInv, NEW f, launch_astray(f)
  PROVE  Walk' /\ Counters' /\ InfosOK' /\ Registration' /\ LaunchOK'
<1>1. launch' = [at |-> "astray", f |-> f]
      /\ UNCHANGED <<elfVars, handle, todo, loads, modules, restored>>
  BY DEF launch_astray
<1>2. LaunchOK'
  BY <1>1 DEF LaunchOK
<1> QED BY <1>1, <1>2, ReadingStays DEF LaunchInv

LEMMA ReturnsStep ==
  ASSUME LaunchInv, launch_returns
  PROVE  Walk' /\ Counters' /\ InfosOK' /\ Registration' /\ LaunchOK'
<1>1. launch' = [at |-> "none"] /\ UNCHANGED <<elfVars, handle, todo, loads, modules, restored>>
  BY DEF launch_returns, NoLaunch
<1>2. LaunchOK'
  BY <1>1 DEF LaunchOK
<1> QED BY <1>1, <1>2, ReadingStays DEF LaunchInv

LEMMA LaunchStep ==
  ASSUME LaunchInv, NEW k \in Kernels, NEW f \in {Stub(k), CUfunction(k)},
         NEW args \in Arguments(k), NEW junk \in [Gaps(k) -> Bytes], launch_kernel(f, args, junk)
  PROVE  Walk' /\ Counters' /\ InfosOK' /\ Registration' /\ LaunchOK'
<1>1. UNCHANGED <<elfVars, handle, todo, loads, modules, restored>>
  BY DEF launch_kernel
<1>2. f.kernel = k /\ f # Unset
  BY DEF Stub, CUfunction, Unset
<1>3. PICK i \in Function(f) :
        launch' = [at |-> "params", f |-> f, args |-> args, param |-> 1,
                   params |-> kernel_infos[i].params,
                   buffer |-> Packed(f.kernel, kernel_infos[i].params, args, junk),
                   mistaken |-> {}]
  BY DEF launch_kernel
<1>4. i \in DOMAIN kernel_infos /\ kernel_infos[i].host_fun = f
  BY <1>3 DEF Function
<1>5. kernel_infos[i].name = k /\ k \in modules /\ kernel_infos[i].params = Layout[k]
  BY <1>2, <1>4 DEF LaunchInv, InfosOK
<1>6. PICK N \in Nat : N = ParamSize(k) + Word - 1
  <2>1. ParamSize(k) \in Nat /\ Word \in Nat /\ Word >= 1
    BY ParamsLie, Digital
  <2> QED BY <2>1
<1>7. PICK new : new = Packed(k, Layout[k], args, junk)
  OBVIOUS
<1>8. /\ new \in [1 .. N -> Bytes]
      /\ \A o \in DOMAIN Layout[k] :
           Valued(Window(new, Layout[k][o], Layout[k][o].size)) = args[o]
  BY <1>6, <1>7, PackedIs
<1>9. launch' = [at |-> "params", f |-> f, args |-> args, param |-> 1, params |-> Layout[k],
                 buffer |-> new, mistaken |-> {}]
  BY <1>2, <1>3, <1>5, <1>7
<1>10. /\ launch'.at = "params" /\ launch'.f = f /\ launch'.args = args /\ launch'.param = 1
       /\ launch'.params = Layout[k] /\ launch'.buffer = new /\ launch'.mistaken = {}
       /\ DOMAIN launch' = {"at", "f", "args", "param", "params", "buffer", "mistaken"}
  BY <1>9
<1>11. Len(Layout[k]) \in Nat /\ DOMAIN Layout[k] = 1 .. Len(Layout[k])
  BY ParamsLie
<1>12. \A o \in DOMAIN Layout[k] : Translated(k, o)' = args[o]
  <2>1. \A o \in DOMAIN Layout[k] : ~ (o < 1)
    BY <1>11
  <2> QED BY <1>10, <2>1 DEF Translated
<1>13. k \in modules'
  BY <1>1, <1>5
<1>14. 1 \in 1 .. Len(Layout[k]) + 1
  BY <1>11
<1>15. LaunchOK'
  BY <1>2, <1>6, <1>8, <1>10, <1>12, <1>13, <1>14 DEF LaunchOK
<1> QED BY <1>1, <1>15, ReadingStays DEF LaunchInv

LEMMA DeliverStep ==
  ASSUME LaunchInv, cuLaunchKernel
  PROVE  Walk' /\ Counters' /\ InfosOK' /\ Registration' /\ LaunchOK'
<1>1. /\ UNCHANGED <<elfVars, handle, todo, loads, modules, restored>>
      /\ modules' = modules /\ restored' = restored
  BY DEF cuLaunchKernel
<1>2. /\ launch.at = "params" /\ launch.param \notin DOMAIN launch.params
      /\ launch' = [launch EXCEPT !.at = "delivered"]
  BY DEF cuLaunchKernel
<1>3. PICK k : k = launch.f.kernel
  OBVIOUS
<1>4. /\ DOMAIN launch = {"at", "f", "args", "param", "params", "buffer", "mistaken"}
      /\ k \in Kernels /\ k \in modules /\ launch.params = Layout[k]
      /\ launch.args \in Arguments(k) /\ launch.param \in 1 .. Len(Layout[k]) + 1
      /\ launch.buffer \in [1 .. ParamSize(k) + Word - 1 -> Bytes]
      /\ restored \/ launch.mistaken = {}
      /\ launch.mistaken = {} =>
           \A o \in DOMAIN Layout[k] :
             Valued(Window(launch.buffer, Layout[k][o], Layout[k][o].size)) = Translated(k, o)
  BY <1>2, <1>3 DEF LaunchInv, LaunchOK
<1>5. /\ launch'.at = "delivered" /\ launch'.f = launch.f /\ launch'.args = launch.args
      /\ launch'.param = launch.param /\ launch'.params = launch.params
      /\ launch'.buffer = launch.buffer /\ launch'.mistaken = launch.mistaken
      /\ DOMAIN launch' = {"at", "f", "args", "param", "params", "buffer", "mistaken"}
  BY <1>2, <1>4
<1>6. launch.param = Len(Layout[k]) + 1
  <2>1. Len(Layout[k]) \in Nat /\ DOMAIN Layout[k] = 1 .. Len(Layout[k])
    BY <1>4, ParamsLie
  <2> QED BY <1>2, <1>4, <2>1
<1>7. \A o : Translated(k, o)' = Translated(k, o)
  BY <1>1, <1>5 DEF Translated, memory_mg_get, Blocks!Translation, Blocks!Covering, Blocks!Covers
<1>8. LaunchOK'
  BY <1>1, <1>3, <1>4, <1>5, <1>6, <1>7 DEF LaunchOK
<1> QED BY <1>1, <1>8, ReadingStays DEF LaunchInv

(* The parameter that is translated, if its bytes were not mistaken for an *)
(* address, and the others, which it does not touch.                       *)
LEMMA TranslationsLie ==
  ASSUME NEW k \in Kernels, NEW N \in Nat, N = ParamSize(k) + Word - 1,
         NEW buffer \in [1 .. N -> Bytes], NEW c \in DOMAIN Layout[k], NEW put \in Numbers(Word),
         NEW found, found = Valued(Window(buffer, Layout[k][c], Word)),
         put = found \/ Layout[k][c].pointer,
         NEW new, new = Write(buffer, Layout[k][c], Bytewise(Word, put))
  PROVE  \A o \in DOMAIN Layout[k] :
           Valued(Window(new, Layout[k][o], Layout[k][o].size)) =
             IF o = c /\ Layout[k][c].pointer THEN put
             ELSE Valued(Window(buffer, Layout[k][o], Layout[k][o].size))
<1> SUFFICES ASSUME NEW P, P = Layout[k], NEW w \in Nat, w = Word
             PROVE  \A o \in DOMAIN P :
                      Valued(Window(new, P[o], P[o].size)) =
                        IF o = c /\ P[c].pointer THEN put
                        ELSE Valued(Window(buffer, P[o], P[o].size))
  BY Digital
<1>1. P = Layout[k] /\ w = Word
  OBVIOUS
<1>2. /\ DOMAIN P = 1 .. Len(P) /\ Len(P) \in Nat
      /\ \A o \in DOMAIN P :
           /\ P[o].offset \in Nat /\ P[o].size \in Nat /\ P[o].size >= 1
           /\ P[o].offset + P[o].size <= ParamSize(k)
           /\ P[o].pointer => P[o].size = w
           /\ \A q \in DOMAIN P : o < q => P[o].offset + P[o].size <= P[q].offset
  BY <1>1, ParamsLie
<1>3. \A o \in DOMAIN P : P[o].offset + w <= N /\ P[o].offset + P[o].size <= N
  <2>1. ASSUME NEW o \in DOMAIN P PROVE P[o].offset + w <= N /\ P[o].offset + P[o].size <= N
    <3>1. PICK m \in Nat, s \in Nat, z \in Nat :
            m = P[o].offset /\ s = P[o].size /\ z = ParamSize(k)
      BY <1>2, ParamsLie
    <3>2. s >= 1 /\ m + s <= z /\ N = z + w - 1 /\ w >= 1
      BY <1>1, <1>2, <3>1, Digital
    <3>3. m + w <= N /\ m + s <= N
      BY <3>2
    <3> QED BY <3>1, <3>3
  <2> QED BY <2>1
<1>4. PICK p, bytes : p = P[c] /\ bytes = Bytewise(Word, put)
  OBVIOUS
<1>5. bytes \in [1 .. Word -> Bytes] /\ Valued(bytes) = put
  BY <1>4, BytewiseIs, Digital
<1>6. p.offset \in Nat /\ p.offset + Word <= N /\ new = Write(buffer, p, bytes)
  BY <1>1, <1>2, <1>3, <1>4
<1>7. CASE put = found
  <2>1. new = buffer
    BY <1>1, <1>4, <1>6, <1>7, WrittenBack
  <2>2. P[c].pointer => found = Valued(Window(buffer, P[c], P[c].size))
    BY <1>1, <1>2
  <2> QED BY <1>1, <1>7, <2>1, <2>2
<1>8. CASE put # found
  <2>1. P[c].pointer /\ P[c].size = w
    BY <1>1, <1>2, <1>8
  <2>2. Window(new, p, Word) = bytes
    BY <1>5, <1>6, WriteHere, SMTT(30)
  <2>3. Valued(Window(new, P[c], P[c].size)) = put
    BY <1>1, <1>4, <1>5, <2>1, <2>2
  <2>4. ASSUME NEW o \in DOMAIN P, o # c
        PROVE  Window(new, P[o], P[o].size) = Window(buffer, P[o], P[o].size)
    <3>5. PICK n \in Nat : n = P[o].size
      BY <1>2
    <3>6. PICK q : q = P[o]
      OBVIOUS
    <3>1. q = P[o] /\ n = P[o].size
      BY <3>5, <3>6
    <3>2. q.offset \in Nat /\ q.offset + n <= N
      BY <1>2, <1>3, <3>1
    <3>3. Apart(p, q, n)
      <4>1. o < c \/ c < o
        BY <1>1, <1>2, <2>4
      <4>2. P[o].offset + P[o].size <= P[c].offset \/ P[c].offset + w <= P[o].offset
        BY <1>1, <1>2, <2>1, <4>1
      <4> QED BY <1>1, <1>4, <3>1, <4>2 DEF Apart
    <3>4. Window(Write(buffer, p, bytes), q, n) = Window(buffer, q, n)
      BY <1>5, <1>6, <3>2, <3>3, WriteElsewhere, SMTT(30)
    <3> QED BY <1>6, <3>1, <3>4
  <2> QED BY <1>1, <2>1, <2>3, <2>4
<1> QED BY <1>7, <1>8

LEMMA TranslateStep ==
  ASSUME LaunchInv, translate_param
  PROVE  Walk' /\ Counters' /\ InfosOK' /\ Registration' /\ LaunchOK'
<1>1. /\ UNCHANGED <<elfVars, handle, todo, loads, modules, restored>>
      /\ modules' = modules /\ restored' = restored
  BY DEF translate_param
<1>2. PICK k, p, found, put :
        /\ k = launch.f.kernel /\ p = launch.params[launch.param]
        /\ found = Valued(Window(launch.buffer, p, Word)) /\ put = memory_mg_get(found)
  OBVIOUS
<1>3. /\ launch.at = "params" /\ launch.param \in DOMAIN launch.params
      /\ launch' = [launch EXCEPT
            !.param = @ + 1,
            !.buffer = Write(@, p, Bytewise(Word, put)),
            !.mistaken = IF ~p.pointer /\ put # found THEN @ \cup {launch.param} ELSE @]
  BY <1>2 DEF translate_param
<1>4. /\ DOMAIN launch = {"at", "f", "args", "param", "params", "buffer", "mistaken"}
      /\ k \in Kernels /\ k \in modules /\ launch.params = Layout[k]
      /\ launch.args \in Arguments(k) /\ launch.param \in 1 .. Len(Layout[k]) + 1
      /\ launch.buffer \in [1 .. ParamSize(k) + Word - 1 -> Bytes]
      /\ restored \/ launch.mistaken = {}
      /\ launch.mistaken = {} =>
           \A o \in DOMAIN Layout[k] :
             Valued(Window(launch.buffer, Layout[k][o], Layout[k][o].size)) = Translated(k, o)
  BY <1>2, <1>3 DEF LaunchInv, LaunchOK
<1>5. PICK c, buffer, new :
        c = launch.param /\ buffer = launch.buffer /\ new = Write(buffer, p, Bytewise(Word, put))
  OBVIOUS
<1>6. /\ launch'.at = "params" /\ launch'.f = launch.f /\ launch'.args = launch.args
      /\ launch'.param = c + 1 /\ launch'.params = Layout[k] /\ launch'.buffer = new
      /\ launch'.mistaken =
           IF ~p.pointer /\ put # found THEN launch.mistaken \cup {c} ELSE launch.mistaken
      /\ DOMAIN launch' = {"at", "f", "args", "param", "params", "buffer", "mistaken"}
  BY <1>3, <1>4, <1>5
<1>7. /\ Len(Layout[k]) \in Nat /\ DOMAIN Layout[k] = 1 .. Len(Layout[k])
      /\ c \in DOMAIN Layout[k] /\ p = Layout[k][c]
  BY <1>2, <1>3, <1>4, <1>5, ParamsLie
<1>8. PICK N \in Nat : N = ParamSize(k) + Word - 1
  <2>1. ParamSize(k) \in Nat /\ Word \in Nat /\ Word >= 1
    BY <1>4, ParamsLie, Digital
  <2> QED BY <2>1
<1>9. buffer \in [1 .. N -> Bytes]
  BY <1>4, <1>5, <1>8
<1>10. p.offset \in Nat /\ p.offset + Word <= N
  <2>1. p.offset \in Nat /\ p.size \in Nat /\ p.size >= 1 /\ p.offset + p.size <= ParamSize(k)
    BY <1>4, <1>7, ParamsLie
  <2>2. PICK m \in Nat, s \in Nat, z \in Nat, w \in Nat :
          m = p.offset /\ s = p.size /\ z = ParamSize(k) /\ w = Word
    BY <1>4, <2>1, ParamsLie, Digital
  <2>3. s >= 1 /\ m + s <= z /\ N = z + w - 1
    BY <1>8, <2>1, <2>2
  <2>4. m + w <= N
    BY <2>3
  <2> QED BY <2>2, <2>4
<1>11. found \in Numbers(Word)
  <2>1. PICK a : a = Window(buffer, p, Word)
    OBVIOUS
  <2>2. a \in [1 .. Word -> Bytes]
    BY <1>9, <1>10, <2>1, WindowIs, Digital
  <2> QED BY <1>2, <1>5, <2>1, <2>2, BytewiseReturns, Digital
<1>12. restored \in BOOLEAN
  BY DEF LaunchInv, Registration
<1>13. put \in Numbers(Word) /\ (~ restored => put = found)
  BY <1>2, <1>11, <1>12, TranslationIs
<1>14. new \in [1 .. N -> Bytes]
  <2>1. Bytewise(Word, put) \in [1 .. Word -> Bytes]
    BY <1>13, BytewiseIs, Digital
  <2> QED BY <1>5, <1>9, <1>10, <2>1, WriteIs
<1>15. restored \/ launch'.mistaken = {}
  BY <1>4, <1>6, <1>13
<1>16. \A o : memory_mg_get(o)' = memory_mg_get(o)
  BY <1>1 DEF memory_mg_get, Blocks!Translation, Blocks!Covering, Blocks!Covers
<1>17. ASSUME launch'.mistaken = {}, NEW o \in DOMAIN Layout[k]
       PROVE  Valued(Window(new, Layout[k][o], Layout[k][o].size)) = Translated(k, o)'
  <2>1. launch.mistaken = {} /\ (put = found \/ p.pointer)
    BY <1>6, <1>17
  <2>2. Valued(Window(new, Layout[k][o], Layout[k][o].size)) =
          IF o = c /\ Layout[k][c].pointer THEN put
          ELSE Valued(Window(buffer, Layout[k][o], Layout[k][o].size))
    <3>1. found = Valued(Window(buffer, Layout[k][c], Word))
      BY <1>2, <1>5, <1>7
    <3>2. new = Write(buffer, Layout[k][c], Bytewise(Word, put))
      BY <1>5, <1>7
    <3>3. put = found \/ Layout[k][c].pointer
      BY <1>7, <2>1
    <3> QED BY <1>4, <1>7, <1>8, <1>9, <1>13, <3>1, <3>2, <3>3, TranslationsLie, SMTT(30)
  <2>3. Valued(Window(buffer, Layout[k][o], Layout[k][o].size)) =
          IF Layout[k][o].pointer /\ o < c THEN memory_mg_get(launch.args[o]) ELSE launch.args[o]
    BY <1>4, <1>5, <1>17, <2>1 DEF Translated
  <2>4. Translated(k, o)' =
          IF Layout[k][o].pointer /\ o < c + 1 THEN memory_mg_get(launch.args[o])
          ELSE launch.args[o]
    BY <1>6, <1>16 DEF Translated
  <2>5. o \in Nat /\ c \in Nat
    BY <1>7
  <2>6. CASE o = c /\ Layout[k][c].pointer
    <3>1. Layout[k][c].size = Word
      BY <1>4, <1>7, <2>6, ParamsLie
    <3>2. found = launch.args[o]
      BY <1>2, <1>5, <1>7, <2>3, <2>5, <2>6, <3>1
    <3> QED BY <1>2, <2>2, <2>4, <2>5, <2>6, <3>2
  <2>7. CASE ~ (o = c /\ Layout[k][c].pointer)
    <3>1. Layout[k][o].pointer => (o < c + 1 <=> o < c)
      BY <2>5, <2>7
    <3> QED BY <2>2, <2>3, <2>4, <2>7, <3>1
  <2> QED BY <2>6, <2>7
<1>18. c + 1 \in 1 .. Len(Layout[k]) + 1
  BY <1>7
<1>19. LaunchOK'
  <2>1. k = launch'.f.kernel /\ launch'.at = "params"
    BY <1>2, <1>6
  <2>2. /\ k \in modules' /\ launch'.args \in Arguments(k)
        /\ launch'.param \in 1 .. Len(Layout[k]) + 1
        /\ launch'.buffer \in [1 .. ParamSize(k) + Word - 1 -> Bytes]
        /\ restored' \/ launch'.mistaken = {}
    BY <1>1, <1>4, <1>6, <1>8, <1>14, <1>15, <1>18
  <2>3. launch'.mistaken = {} =>
          \A o \in DOMAIN Layout[k] :
            Valued(Window(launch'.buffer, Layout[k][o], Layout[k][o].size)) = Translated(k, o)'
    BY <1>6, <1>17
  <2> QED BY <1>4, <1>6, <2>1, <2>2, <2>3 DEF LaunchOK
<1> QED BY <1>1, <1>19, ReadingStays DEF LaunchInv

-------------------------------------------------------------------------------
(* The invariant. *)

LEMMA LaunchStarts ==
  ASSUME LaunchInit
  PROVE  LaunchInv
<1>1. /\ stage = "running" /\ kernel_infos = <<>> /\ handle = TRUE /\ todo = {} /\ loads = 0
      /\ modules = {} /\ restored = FALSE /\ launch = [at |-> "none"]
      /\ pos = 0 /\ ipos = 0 /\ nclen = 0 /\ clen = 0 /\ back = 0
  BY DEF LaunchInit, NoLaunch
<1>2. Walk
  BY <1>1 DEF Walk, Reading, Loop
<1>3. Counters
  BY <1>1 DEF Counters
<1>4. InfosOK
  <2>1. DOMAIN kernel_infos = {}
    BY <1>1
  <2>3. \A T : kernel_infos \in Seq(T)
    BY <1>1
  <2> QED BY <2>1, <2>3 DEF InfosOK
<1>5. Registration
  <2>1. loads \in 0 .. MaxFatBinaries
    BY <1>1, BoundAssumption
  <2>2. stage \in Stages
    BY <1>1 DEF Stages
  <2> QED BY <1>1, <2>1, <2>2 DEF Registration
<1>6. LaunchOK
  BY <1>1 DEF LaunchOK
<1> QED BY <1>2, <1>3, <1>4, <1>5, <1>6 DEF LaunchInv

LEMMA LaunchInvStep ==
  ASSUME LaunchInv, [LaunchNext]_clientVars
  PROVE  LaunchInv'
<1>1. CASE \E f \in FatBinaries : cudaRegisterFatBinary(f)
  BY <1>1, RegisterStep DEF LaunchInv
<1>2. CASE reads
  BY <1>2, ReadStep DEF LaunchInv
<1>3. CASE rpc_elf_load
  BY <1>3, LoadStep DEF LaunchInv
<1>4. CASE cudaRegisterFatBinary_fails
  BY <1>4, RegisterFailsStep DEF LaunchInv
<1>5. CASE \E k \in Kernels : cudaRegisterFunction(k)
  BY <1>5, FunctionStep DEF LaunchInv
<1>6. CASE \E k \in Kernels : cuModuleGetFunction(k)
  BY <1>6, GetFunctionStep DEF LaunchInv
<1>7. CASE registered
  BY <1>7, RegisteredStep DEF LaunchInv
<1>8. CASE restart
  BY <1>8, RestartStep DEF LaunchInv
<1>9. CASE \E k \in Kernels : \E f \in {Stub(k), CUfunction(k)} : launch_unknown(f)
  BY <1>9, UnknownStep DEF LaunchInv
<1>10. CASE \E k \in Kernels : \E f \in {Stub(k), CUfunction(k)} :
              \E args \in Arguments(k), junk \in [Gaps(k) -> Bytes] : launch_kernel(f, args, junk)
  <2>1. PICK k \in Kernels : \E f \in {Stub(k), CUfunction(k)} :
              \E args \in Arguments(k), junk \in [Gaps(k) -> Bytes] : launch_kernel(f, args, junk)
    BY <1>10
  <2>2. PICK f \in {Stub(k), CUfunction(k)} :
              \E args \in Arguments(k), junk \in [Gaps(k) -> Bytes] : launch_kernel(f, args, junk)
    BY <2>1
  <2>3. PICK args \in Arguments(k), junk \in [Gaps(k) -> Bytes] : launch_kernel(f, args, junk)
    BY <2>2
  <2> QED BY <2>3, LaunchStep DEF LaunchInv
<1>11. CASE translate_param
  BY <1>11, TranslateStep DEF LaunchInv
<1>12. CASE cuLaunchKernel
  BY <1>12, DeliverStep DEF LaunchInv
<1>13. CASE launch_returns
  BY <1>13, ReturnsStep DEF LaunchInv
<1>14. CASE \E k \in Kernels : cuModuleGetFunction_fails(k)
  BY <1>14, GetFunctionFailsStep DEF LaunchInv
<1>15. CASE \E image \in Images : cuModuleLoadData(image)
  BY <1>15, LoadDataStep DEF LaunchInv
<1>16. CASE \E k \in Kernels : \E f \in {Stub(k), CUfunction(k)} : launch_astray(f)
  BY <1>16, AstrayStep DEF LaunchInv
<1>17. CASE UNCHANGED clientVars
  <2>1. /\ UNCHANGED <<elfVars, handle, todo, loads, modules, restored>> /\ launch' = launch
        /\ restored' = restored /\ modules' = modules
    BY <1>17 DEF clientVars, launchVars
  <2>2. LaunchOK'
    BY <2>1, LaunchStays DEF LaunchInv
  <2> QED BY <2>1, <2>2, ReadingStays DEF LaunchInv
<1> QED BY <1>1, <1>2, <1>3, <1>4, <1>5, <1>6, <1>7, <1>8, <1>9, <1>10, <1>11, <1>12, <1>13, <1>14,
       <1>15, <1>16, <1>17 DEF LaunchNext

LEMMA LaunchesTyped ==
  ASSUME LaunchInv
  PROVE  LaunchTypeOK
<1>1. PICK T : T = [name : Kernels, host_fun : {Unset} \cup {Stub(k) : k \in Kernels}
                                      \cup {CUfunction(k) : k \in Kernels},
                    params : {Layout[k] : k \in Kernels}, sized : {TRUE}]
  OBVIOUS
<1>2. \A i \in DOMAIN kernel_infos : kernel_infos[i].name \in Kernels
  <2>1. kernel_infos \in Seq(T)
    BY <1>1 DEF LaunchInv, InfosOK
  <2>2. kernel_infos \in [1 .. Len(kernel_infos) -> T] /\ DOMAIN kernel_infos = 1 .. Len(kernel_infos)
    BY <2>1, LenProperties
  <2>3. \A i \in DOMAIN kernel_infos : kernel_infos[i] \in T
    BY <2>2
  <2> QED BY <1>1, <2>3
<1>3. \A i, j \in DOMAIN kernel_infos :
        /\ kernel_infos[i].name = kernel_infos[j].name => i = j
        /\ kernel_infos[i].host_fun # Unset =>
             kernel_infos[i].host_fun.kernel = kernel_infos[i].name /\ kernel_infos[i].name \in modules
  BY DEF LaunchInv, InfosOK
<1> QED BY <1>2, <1>3 DEF LaunchInv, Counters, Registration, LaunchTypeOK

LEMMA LaunchesDeliver ==
  ASSUME LaunchInv
  PROVE  ArgumentsArrive
<1> SUFFICES ASSUME launch.at = "delivered"
             PROVE  /\ launch.f.kernel \in modules
                    /\ restored \/ launch.mistaken = {}
                    /\ launch.mistaken = {} =>
                         \A o \in DOMAIN Layout[launch.f.kernel] :
                           LET p == Layout[launch.f.kernel][o]
                               arrived == Valued(Window(launch.buffer, launch.params[o], p.size))
                           IN  arrived = IF p.pointer THEN memory_mg_get(launch.args[o])
                                         ELSE launch.args[o]
  BY DEF ArgumentsArrive
<1>1. PICK k : k = launch.f.kernel
  OBVIOUS
<1>2. /\ k \in Kernels /\ k \in modules /\ launch.params = Layout[k]
      /\ launch.param = Len(Layout[k]) + 1
      /\ restored \/ launch.mistaken = {}
      /\ launch.mistaken = {} =>
           \A o \in DOMAIN Layout[k] :
             Valued(Window(launch.buffer, Layout[k][o], Layout[k][o].size)) = Translated(k, o)
  BY <1>1 DEF LaunchInv, LaunchOK
<1>3. \A o \in DOMAIN Layout[k] : o < launch.param
  BY <1>2, ParamsLie
<1>4. \A o \in DOMAIN Layout[k] :
        Translated(k, o) = IF Layout[k][o].pointer THEN memory_mg_get(launch.args[o])
                           ELSE launch.args[o]
  BY <1>3 DEF Translated
<1> QED BY <1>1, <1>2, <1>4

LEMMA LaunchInvAlways == LaunchSpec => []LaunchInv
<1>1. LaunchInit => LaunchInv
  BY LaunchStarts
<1>2. LaunchInv /\ [LaunchNext]_clientVars => LaunchInv'
  BY LaunchInvStep
<1> QED BY <1>1, <1>2, PTL DEF LaunchSpec

(* Registration is at one of its places, what is known of a kernel is of   *)
(* that kernel, once, and a host_fun that was set is that of the entry's   *)
(* kernel, which a module of the server has (kernel_infos of cpu-client.c).*)
THEOREM LaunchTypeCorrect == LaunchSpec => []LaunchTypeOK
<1>1. LaunchInv => LaunchTypeOK
  BY LaunchesTyped
<1> QED BY <1>1, LaunchInvAlways, PTL

(* decompress stays inside its input and its output, and the walk on the   *)
(* starts of sections, for every fat binary in the format of nvcc          *)
(* (elf2_get_fatbin_info).                                                 *)
THEOREM ReadingStaysInside == LaunchSpec => []StaysInside
<1>1. LaunchInv => StaysInside
  BY WalkStaysInside DEF LaunchInv
<1> QED BY <1>1, LaunchInvAlways, PTL

(* What is parsed is what was compressed, up to the bytes the clearing of  *)
(* the padding takes from its beginning (decompress_single_section).       *)
THEOREM SectionsArrive == LaunchSpec => []SectionArrives
<1>1. LaunchInv => SectionArrives
  BY WalkDelivers DEF LaunchInv
<1> QED BY <1>1, LaunchInvAlways, PTL

(* Once the walk is over, the client has an entry for every kernel in the  *)
(* cubins of the fat binary, and at any time each entry, of a fat binary   *)
(* or of an image, has all parameters of its kernel (elf2_parameter_info,  *)
(* get_parm_for_kernel).                                                   *)
THEOREM KernelsBecomeKnown == LaunchSpec => []KernelsAreKnown
<1>1. LaunchInv => KernelsAreKnown
  BY WalkLearns DEF LaunchInv
<1> QED BY <1>1, LaunchInvAlways, PTL

(* A kernel gets the arguments its caller gave, whatever the layout of its *)
(* parameters and whatever lies between them, unless something that is no  *)
(* pointer was taken for one, which only happens in a restarted server     *)
(* (cuda_launch_kernel_1_svc).                                             *)
THEOREM ArgumentsAlwaysArrive == LaunchSpec => []ArgumentsArrive
<1>1. LaunchInv => ArgumentsArrive
  BY LaunchesDeliver
<1> QED BY <1>1, LaunchInvAlways, PTL

===============================================================================
