---------------------------- MODULE MemoryMgProofs -----------------------------
(***************************************************************************)
(* Theorems about MemoryMg for every set of blocks that do not overlap,    *)
(* any addresses and any bounds.                                           *)
(*                                                                         *)
(* The search compares with the starts of blocks only and yet has to find  *)
(* the block that a pointer is inside of.  It does because the blocks are  *)
(* apart: what lies left of an entry that starts before the key and does   *)
(* not cover it ends before that entry starts (LeftOnesEndBefore).         *)
(***************************************************************************)
EXTENDS MemoryMg, SequenceTheorems, TLAPS

IInv == TypeOK /\ Sorted /\ WindowHoldsKey

Ordered(s) == \A i, j \in 1 .. Len(s) : i < j => s[i].client < s[j].client

(* Inserting e at p moves the elements from there on up by one place.      *)
Shifted(s, t, p, e) ==
  \A j \in 1 .. Len(s) + 1 :
    t[j] = IF j < p THEN s[j] ELSE IF j = p THEN e ELSE s[j - 1]

LEMMA InsertAtIsShift ==
  ASSUME NEW S, NEW s \in Seq(S), NEW i \in 1 .. Len(s) + 1, NEW e \in S
  PROVE  /\ InsertAt(s, i, e) \in Seq(S)
         /\ Len(InsertAt(s, i, e)) = Len(s) + 1
         /\ Shifted(s, InsertAt(s, i, e), i, e)
<1> DEFINE lo == SubSeq(s, 1, i - 1)
           hi == SubSeq(s, i, Len(s))
<1>1. lo \in Seq(S) /\ Len(lo) = i - 1 /\ \A j \in 1 .. i - 1 : lo[j] = s[j]
  OBVIOUS
<1>2. /\ hi \in Seq(S) /\ Len(hi) = Len(s) - i + 1
      /\ \A j \in 1 .. Len(s) - i + 1 : hi[j] = s[i + j - 1]
  OBVIOUS
<1>3. <<e>> \in Seq(S) /\ Len(<<e>>) = 1 /\ <<e>>[1] = e
  OBVIOUS
<1> HIDE DEF lo, hi
<1>4. /\ (lo \o <<e>>) \in Seq(S) /\ Len(lo \o <<e>>) = i
      /\ \A j \in 1 .. i : (lo \o <<e>>)[j] = IF j < i THEN s[j] ELSE e
  BY <1>1, <1>3
<1> DEFINE left == lo \o <<e>>
<1> HIDE DEF left
<1>5. left \in Seq(S) /\ Len(left) = i
      /\ \A j \in 1 .. i : left[j] = IF j < i THEN s[j] ELSE e
  BY <1>4 DEF left
<1>6. /\ (left \o hi) \in Seq(S) /\ Len(left \o hi) = Len(s) + 1
      /\ \A j \in 1 .. Len(s) + 1 :
           (left \o hi)[j] = IF j <= i THEN left[j] ELSE hi[j - i]
  <2>1. Len(left) + Len(hi) = Len(s) + 1
    BY <1>2, <1>5
  <2>2. left \in Seq(S) /\ hi \in Seq(S)
    BY <1>2, <1>5
  <2>3. /\ left \o hi \in Seq(S) /\ Len(left \o hi) = Len(left) + Len(hi)
        /\ \A j \in 1 .. Len(left) + Len(hi) :
             (left \o hi)[j] = IF j <= Len(left) THEN left[j]
                                                ELSE hi[j - Len(left)]
    BY <2>2, ConcatProperties, Zenon
  <2>4. Len(left) = i
    BY <1>5
  <2> QED BY <2>1, <2>3, <2>4
<1>7. InsertAt(s, i, e) = left \o hi
  BY DEF InsertAt, left, lo, hi
<1> QED BY <1>2, <1>5, <1>6, <1>7 DEF Shifted

LEMMA EntryShape ==
  ASSUME NEW e \in Entry
  PROVE  /\ e.client \in Addresses /\ e.client \in Nat /\ e.size \in Nat
         /\ e.cuda \in Targets /\ e.cuda \in Nat
         /\ [client |-> e.client, size |-> e.size] \in Blocks
         /\ e = [client |-> e.client, cuda |-> e.cuda, size |-> e.size]
<1>1. PICK b \in Blocks, d \in Targets :
        e = [client |-> b.client, cuda |-> d, size |-> b.size]
  BY DEF Entry
<1>2. b \in [client : Addresses, size : Nat]
  BY BlocksAreSized
<1>3. b = [client |-> b.client, size |-> b.size]
  BY <1>2
<1> QED BY <1>1, <1>2, <1>3, AddressesAreNumbers

LEMMA EntriesAreTyped ==
  ASSUME NEW s \in Seq(Entry), NEW i \in 1 .. Len(s)
  PROVE  /\ s[i] \in Entry
         /\ s[i].client \in Nat /\ s[i].size \in Nat /\ s[i].cuda \in Nat
<1>1. s[i] \in Entry
  OBVIOUS
<1> QED BY <1>1, EntryShape

(* Of two entries one ends before the other starts.                        *)
LEMMA LeftOnesEndBefore ==
  ASSUME NEW s \in Seq(Entry), NEW i \in 1 .. Len(s), NEW j \in 1 .. Len(s),
         s[i].client < s[j].client
  PROVE  s[i].client + s[i].size <= s[j].client
<1> DEFINE b == [client |-> s[i].client, size |-> s[i].size]
           c == [client |-> s[j].client, size |-> s[j].size]
<1>1. s[i] \in Entry /\ s[j] \in Entry
  OBVIOUS
<1>2. b \in Blocks /\ c \in Blocks /\ s[i].client \in Nat /\ s[j].client \in Nat
      /\ s[i].size \in Nat /\ s[j].size \in Nat
  BY <1>1, EntryShape
<1>3. b # c
  BY <1>2
<1>4. \/ b.client + b.size <= c.client /\ b.client < c.client
      \/ c.client + c.size <= b.client /\ c.client < b.client
  BY <1>2, <1>3, BlocksAreApart
<1> QED BY <1>2, <1>4

(* Two entries never cover the same address.                               *)
LEMMA OneCovers ==
  ASSUME NEW s \in Seq(Entry), Ordered(s), NEW i \in 1 .. Len(s), NEW j \in 1 .. Len(s),
         NEW a \in Nat, Covers(s[i].client, s[i].size, a), Covers(s[j].client, s[j].size, a)
  PROVE  i = j
<1>1. /\ s[i].client \in Nat /\ s[j].client \in Nat
      /\ s[i].size \in Nat /\ s[j].size \in Nat
  BY EntriesAreTyped
<1>2. ~(i < j)
  <2> SUFFICES ASSUME i < j PROVE FALSE
    OBVIOUS
  <2>1. s[i].client < s[j].client
    BY DEF Ordered
  <2>2. s[i].client + s[i].size <= s[j].client
    BY <2>1, LeftOnesEndBefore
  <2> QED BY <1>1, <2>1, <2>2 DEF Covers
<1>3. ~(j < i)
  <2> SUFFICES ASSUME j < i PROVE FALSE
    OBVIOUS
  <2>1. s[j].client < s[i].client
    BY DEF Ordered
  <2>2. s[j].client + s[j].size <= s[i].client
    BY <2>1, LeftOnesEndBefore
  <2> QED BY <1>1, <2>1, <2>2 DEF Covers
<1> QED BY <1>2, <1>3

------------------------------------------------------------------------------
LEMMA CallShape ==
  ASSUME TypeOK, call # NoCall
  PROVE  /\ call \in Search /\ call.op \in {"get", "add"}
         /\ call.client \in Addresses /\ call.client \in Nat
         /\ call.start \in Nat /\ call.end \in Int
         /\ call.op = "add" => /\ call.cuda \in Targets /\ call.cuda \in Nat
                               /\ call.size \in Sizes
                               /\ [client |-> call.client, size |-> call.size] \in Blocks
<1>1. call \in Search
  BY DEF TypeOK
<1>2. CASE call \in [op : {"get"}, client : Addresses, start : Nat, end : Int]
  BY <1>1, <1>2, AddressesAreNumbers
<1>3. CASE call \in [op : {"add"}, client : Addresses, cuda : Targets, size : Sizes,
                     start : Nat, end : Int]
  BY <1>1, <1>3, AddressesAreNumbers DEF TypeOK
<1> QED BY <1>1, <1>2, <1>3 DEF Search

(* What a moved bound leaves of a search.                                  *)
LEMMA BoundMoves ==
  ASSUME TypeOK, call # NoCall, NEW s \in Nat, NEW e \in Int,
         \/ call' = [call EXCEPT !.start = s] /\ e = call.end
         \/ call' = [call EXCEPT !.end = e] /\ s = call.start
  PROVE  /\ call' \in Search /\ call' # NoCall
         /\ call'.op = call.op /\ call'.client = call.client
         /\ call'.start = s /\ call'.end = e
         /\ call.op = "add" => call'.size = call.size
<1>1. call \in Search
  BY DEF TypeOK
<1>2. CASE call \in [op : {"get"}, client : Addresses, start : Nat, end : Int]
  BY <1>2 DEF Search, NoCall
<1>3. CASE call \in [op : {"add"}, client : Addresses, cuda : Targets, size : Sizes,
                     start : Nat, end : Int]
  BY <1>3 DEF Search, NoCall
<1> QED BY <1>1, <1>2, <1>3 DEF Search

LEMMA MidIsInWindow ==
  ASSUME TypeOK, call # NoCall, ~Exhausted
  PROVE  /\ Mid \in call.start .. call.end
         /\ Mid \in 0 .. Len(map_res) - 1
         /\ Mid + 1 \in 1 .. Len(map_res) /\ At(Mid) = map_res[Mid + 1]
         /\ At(Mid) \in Entry
         /\ At(Mid).client \in Nat /\ At(Mid).size \in Nat /\ At(Mid).cuda \in Nat
<1>1. call.start \in Nat /\ call.end \in Int /\ call.start <= call.end
      /\ call.end <= Len(map_res) - 1 /\ Len(map_res) \in Nat /\ map_res \in Seq(Entry)
  BY CallShape DEF TypeOK, Exhausted
<1>2. Mid \in call.start .. call.end
  BY <1>1 DEF Mid
<1>3. Mid \in 0 .. Len(map_res) - 1 /\ Mid + 1 \in 1 .. Len(map_res)
  BY <1>1, <1>2
<1>4. At(Mid) = map_res[Mid + 1]
  BY DEF At
<1> QED BY <1>1, <1>2, <1>3, <1>4, EntriesAreTyped

(* A turn that only moves a bound discards entries that neither are nor    *)
(* cover the key.                                                          *)
LEMMA NarrowingKeepsIInv ==
  ASSUME IInv, call # NoCall, ~Exhausted,
         UNCHANGED <<bypass, map_res, new_res, last>>,
         \/ At(Mid).client > call.client /\ GoLeft
         \/ /\ At(Mid).client < call.client /\ GoRight
            /\ call.op = "get" => ~Covers(At(Mid).client, At(Mid).size, call.client)
  PROVE  IInv'
<1>1. TypeOK /\ map_res \in Seq(Entry) /\ Ordered(map_res)
  BY DEF IInv, TypeOK, Sorted, Ordered
<1>2. /\ Mid \in call.start .. call.end
      /\ Mid \in 0 .. Len(map_res) - 1 /\ Mid + 1 \in 1 .. Len(map_res)
      /\ At(Mid) = map_res[Mid + 1]
      /\ At(Mid).client \in Nat /\ At(Mid).size \in Nat
  BY <1>1, MidIsInWindow
<1>3. /\ call.start \in Nat /\ call.end \in Int /\ Len(map_res) \in Nat
      /\ call.end \in -1 .. Len(map_res) - 1 /\ call.client \in Nat
  BY <1>1, CallShape DEF TypeOK
<1>4. \A i \in 0 .. Len(map_res) - 1 :
        /\ i + 1 \in 1 .. Len(map_res)
        /\ map_res[i + 1].client \in Nat /\ map_res[i + 1].size \in Nat
  BY <1>1, <1>3, EntriesAreTyped
<1>5. \A i \in 0 .. Len(map_res) - 1 :
        /\ i < call.start => /\ map_res[i + 1].client < call.client
                             /\ call.op = "get" =>
                                  ~Covers(map_res[i + 1].client, map_res[i + 1].size, call.client)
        /\ i > call.end => map_res[i + 1].client > call.client
  BY DEF IInv, WindowHoldsKey, At
<1>6. CASE At(Mid).client > call.client /\ GoLeft
  <2>1. call' = [call EXCEPT !.end = Mid - 1] /\ Mid - 1 \in Int
    BY <1>2, <1>6 DEF GoLeft
  <2>2. /\ call' \in Search /\ call' # NoCall
        /\ call'.op = call.op /\ call'.client = call.client
        /\ call'.start = call.start /\ call'.end = Mid - 1
        /\ call.op = "add" => call'.size = call.size
    BY <1>1, <1>3, <2>1, BoundMoves
  <2>3. TypeOK'
    BY <1>1, <1>2, <1>3, <2>2, SMTT(30) DEF TypeOK
  <2>4. ASSUME NEW i \in 0 .. Len(map_res) - 1, i > Mid - 1
        PROVE  map_res[i + 1].client > call.client
    <3>1. i > Mid => map_res[Mid + 1].client < map_res[i + 1].client
      BY <1>1, <1>2, <1>3, <1>4 DEF Ordered
    <3>2. i = Mid \/ i > Mid
      BY <1>2, <2>4
    <3> QED BY <1>2, <1>3, <1>4, <1>6, <3>1, <3>2
  <2>5. WindowHoldsKey'
    BY <1>5, <2>2, <2>4 DEF WindowHoldsKey, At
  <2> QED BY <2>3, <2>5 DEF IInv, Sorted
<1>7. CASE /\ At(Mid).client < call.client /\ GoRight
           /\ call.op = "get" => ~Covers(At(Mid).client, At(Mid).size, call.client)
  <2>1. call' = [call EXCEPT !.start = Mid + 1] /\ Mid + 1 \in Nat
    BY <1>2, <1>7 DEF GoRight
  <2>2. /\ call' \in Search /\ call' # NoCall
        /\ call'.op = call.op /\ call'.client = call.client
        /\ call'.start = Mid + 1 /\ call'.end = call.end
        /\ call.op = "add" => call'.size = call.size
    BY <1>1, <1>3, <2>1, BoundMoves
  <2>3. TypeOK'
    BY <1>1, <1>2, <1>3, <2>2 DEF TypeOK
  <2>4. ASSUME NEW i \in 0 .. Len(map_res) - 1, i < Mid + 1
        PROVE  /\ map_res[i + 1].client < call.client
               /\ call.op = "get" =>
                    ~Covers(map_res[i + 1].client, map_res[i + 1].size, call.client)
    <3>1. CASE i = Mid
      BY <1>2, <1>7, <3>1
    <3>2. CASE i < Mid
      <4>1. map_res[i + 1].client < map_res[Mid + 1].client
        <5> DEFINE k == i + 1
                   m == Mid + 1
        <5>1. k \in 1 .. Len(map_res) /\ m \in 1 .. Len(map_res) /\ k < m
          BY <1>2, <1>3, <1>4, <3>2
        <5>2. map_res[k].client < map_res[m].client
          <6> HIDE DEF k, m
          <6> QED BY <1>1, <5>1 DEF Ordered
        <5> QED BY <5>2
      <4>2. map_res[i + 1].client + map_res[i + 1].size <= map_res[Mid + 1].client
        BY <1>1, <1>2, <1>4, <4>1, LeftOnesEndBefore
      <4> QED BY <1>2, <1>3, <1>4, <1>7, <4>1, <4>2, SMTT(30) DEF Covers
    <3> QED BY <1>2, <2>4, <3>1, <3>2
  <2>5. WindowHoldsKey'
    BY <1>5, <2>2, <2>4 DEF WindowHoldsKey, At
  <2> QED BY <2>3, <2>5 DEF IInv, Sorted
<1> QED BY <1>6, <1>7

------------------------------------------------------------------------------
LEMMA InitIInv == Init => IInv
<1> SUFFICES ASSUME Init PROVE IInv
  OBVIOUS
<1>1. call = NoCall /\ map_res = <<>>
  BY DEF Init
<1>2. last \in [op : {"none", "get", "add", "create"},
                client : Nat, cuda : Nat, status : {0, 1}]
  BY DEF Init, Done
<1> QED BY <1>1, <1>2 DEF Init, IInv, TypeOK, Sorted, WindowHoldsKey, NoCall

(* What every action that returns without touching map_res leaves.         *)
LEMMA ReturnKeepsIInv ==
  ASSUME IInv, UNCHANGED <<bypass, map_res>>, new_res' \subseteq [cuda : Targets, size : Sizes],
         NEW op \in {"get", "add", "create"},
         NEW c \in Nat, NEW d \in Nat, NEW s \in {0, 1}, Return(op, c, d, s)
  PROVE  IInv'
<1>1. call' = NoCall /\ last' = [op |-> op, client |-> c, cuda |-> d, status |-> s]
  BY DEF Return, Done
<1>2. TypeOK'
  BY <1>1 DEF IInv, TypeOK, NoCall
<1> QED BY <1>1, <1>2 DEF IInv, Sorted, WindowHoldsKey

(* The start of a search: nothing has been discarded yet.                  *)
LEMMA BeginKeepsIInv ==
  ASSUME IInv, UNCHANGED <<bypass, map_res, new_res, last>>,
         ~bypass, map_res # <<>>, call' \in Search, call' # NoCall,
         call'.start = 0, call'.end = Len(map_res) - 1,
         call'.op = "add" => [client |-> call'.client, size |-> call'.size] \in Blocks
  PROVE  IInv'
<1>1. Len(map_res) \in Nat \ {0}
  BY DEF IInv, TypeOK
<1>2. TypeOK'
  BY <1>1 DEF IInv, TypeOK
<1>3. WindowHoldsKey'
  BY <1>1 DEF WindowHoldsKey, At
<1> QED BY <1>2, <1>3 DEF IInv, Sorted

LEMMA CreateIInv ==
  ASSUME IInv, NEW d \in Targets, NEW s \in Sizes, Create(d, s) PROVE IInv'
<1>1. new_res' \subseteq [cuda : Targets, size : Sizes]
  BY DEF Create, IInv, TypeOK
<1>2. d \in Nat
  BY AddressesAreNumbers
<1> QED BY <1>1, <1>2, ReturnKeepsIInv DEF Create

LEMMA GetIInv == ASSUME IInv, NEW a \in Addresses, Get(a) PROVE IInv'
<1>1. new_res' \subseteq [cuda : Targets, size : Sizes] /\ a \in Nat
  BY AddressesAreNumbers DEF Get, IInv, TypeOK
<1>2. CASE bypass \/ map_res = <<>>
  BY <1>1, <1>2, ReturnKeepsIInv DEF Get
<1>3. CASE ~(bypass \/ map_res = <<>>)
  <2>1. /\ call' = [op |-> "get", client |-> a, start |-> 0, end |-> Len(map_res) - 1]
        /\ UNCHANGED <<bypass, map_res, new_res, last>>
    BY <1>3 DEF Get
  <2>2. Len(map_res) - 1 \in Int
    BY DEF IInv, TypeOK
  <2>3. /\ call' \in Search /\ call' # NoCall /\ call'.op = "get"
        /\ call'.start = 0 /\ call'.end = Len(map_res) - 1
    BY <2>1, <2>2 DEF Search, NoCall
  <2> QED BY <1>3, <2>1, <2>3, BeginKeepsIInv
<1> QED BY <1>2, <1>3

LEMMA SearchTurnIInv == ASSUME IInv, SearchTurn PROVE IInv'
<1>1. call # NoCall /\ ~Exhausted /\ call.op = "get"
  BY DEF SearchTurn, Running, NoCall
<1>2. /\ At(Mid).client \in Nat /\ At(Mid).size \in Nat /\ At(Mid).cuda \in Nat
      /\ call.client \in Nat /\ new_res' \subseteq [cuda : Targets, size : Sizes]
  BY <1>1, MidIsInWindow, CallShape DEF IInv, TypeOK, SearchTurn
<1>3. CASE GetLeft /\ Mid = 0
  BY <1>2, <1>3, ReturnKeepsIInv DEF GetLeft, SearchTurn
<1>4. CASE GetLeft /\ Mid # 0
  BY <1>1, <1>4, NarrowingKeepsIInv DEF GetLeft, SearchTurn
<1>5. CASE GetRight
  BY <1>1, <1>5, NarrowingKeepsIInv DEF GetRight, SearchTurn
<1>6. CASE GetHit
  <2>1. At(Mid).cuda + (call.client - At(Mid).client) \in Nat
    BY <1>2, <1>6 DEF GetHit, Covers
  <2> QED BY <1>2, <1>6, <2>1, ReturnKeepsIInv DEF GetHit, SearchTurn
<1> QED BY <1>3, <1>4, <1>5, <1>6 DEF SearchTurn

LEMMA GetMissIInv == ASSUME IInv, GetMiss PROVE IInv'
<1>1. call # NoCall
  BY DEF GetMiss, Running, NoCall
<1>2. call.client \in Nat /\ new_res' \subseteq [cuda : Targets, size : Sizes]
  BY <1>1, CallShape DEF GetMiss, IInv, TypeOK
<1> QED BY <1>2, ReturnKeepsIInv DEF GetMiss

LEMMA AddSortedIInv ==
  ASSUME IInv, NEW b \in Blocks, NEW d \in Targets, AddSorted(b, d)
  PROVE  IInv'
<1>1. /\ new_res' \subseteq [cuda : Targets, size : Sizes]
      /\ b \in [client : Addresses, size : Nat] /\ b.client \in Nat /\ d \in Nat
      /\ b.size \in Sizes
  BY BlocksAreSized, AddressesAreNumbers DEF AddSorted, IInv, TypeOK, Sizes
<1>2. CASE bypass
  BY <1>1, <1>2, ReturnKeepsIInv DEF AddSorted
<1>3. CASE ~bypass /\ map_res = <<>>
  <2> DEFINE e == [client |-> b.client, cuda |-> d, size |-> b.size]
  <2>1. /\ map_res' = <<e>> /\ call' = NoCall
        /\ last' = [op |-> "add", client |-> b.client, cuda |-> d, status |-> 0]
        /\ UNCHANGED <<bypass, new_res>>
    BY <1>3 DEF AddSorted, Return, Done
  <2>2. e \in Entry
    BY DEF Entry
  <2>3. map_res' \in Seq(Entry) /\ Len(map_res') = 1
    BY <2>1, <2>2
  <2>4. TypeOK'
    BY <1>1, <2>1, <2>3 DEF IInv, TypeOK, NoCall
  <2> QED BY <2>1, <2>3, <2>4 DEF IInv, Sorted, WindowHoldsKey
<1>4. CASE ~bypass /\ map_res # <<>>
  <2>1. /\ call' = [op |-> "add", client |-> b.client, cuda |-> d, size |-> b.size,
                    start |-> 0, end |-> Len(map_res) - 1]
        /\ UNCHANGED <<bypass, map_res, new_res, last>>
    BY <1>4 DEF AddSorted
  <2>2. Len(map_res) - 1 \in Int /\ b = [client |-> b.client, size |-> b.size]
    BY <1>1 DEF IInv, TypeOK
  <2>3. /\ call' \in Search /\ call' # NoCall
        /\ call'.start = 0 /\ call'.end = Len(map_res) - 1
        /\ [client |-> call'.client, size |-> call'.size] = b
    BY <1>1, <2>1, <2>2 DEF Search, NoCall
  <2> QED BY <1>4, <2>1, <2>3, BeginKeepsIInv
<1> QED BY <1>2, <1>3, <1>4

(* A block that is added again meets the entry of the same size.           *)
LEMMA SameBlock ==
  ASSUME NEW e \in Entry, NEW b \in Blocks, e.client = b.client
  PROVE  e.size = b.size
<1>1. [client |-> e.client, size |-> e.size] \in Blocks /\ e.client \in Nat /\ e.size \in Nat
  BY EntryShape
<1>2. b \in [client : Addresses, size : Nat]
  BY BlocksAreSized
<1> DEFINE c == [client |-> e.client, size |-> e.size]
<1>3. c = b
  <2>1. c \in Blocks /\ c.client = b.client /\ b.client \in Nat
    BY <1>1
  <2> HIDE DEF c
  <2> QED BY <2>1, BlocksAreApart
<1>4. c.size = e.size
  OBVIOUS
<1> QED BY <1>3, <1>4

LEMMA DuplicateChanges ==
  ASSUME IInv, AddTurn, AddDuplicate
  PROVE  /\ Mid + 1 \in 1 .. Len(map_res) /\ Len(map_res') = Len(map_res)
         /\ map_res' \in Seq(Entry)
         /\ map_res'[Mid + 1] = [client |-> call.client, cuda |-> call.cuda, size |-> call.size]
         /\ map_res[Mid + 1].client = call.client
         /\ \A i \in 1 .. Len(map_res) : i # Mid + 1 => map_res'[i] = map_res[i]
<1> DEFINE m == Mid + 1
<1>1. call # NoCall /\ ~Exhausted /\ call.op = "add"
  BY DEF AddTurn, Running, NoCall
<1>2. /\ call.cuda \in Targets /\ [client |-> call.client, size |-> call.size] \in Blocks
      /\ map_res \in Seq(Entry)
  BY <1>1, CallShape DEF IInv, TypeOK
<1>3. m \in 1 .. Len(map_res) /\ At(Mid) = map_res[m]
  BY <1>1, MidIsInWindow DEF IInv
<1>4. map_res' = [map_res EXCEPT ![m].cuda = call.cuda] /\ map_res[m].client = call.client
  BY <1>3 DEF AddDuplicate
<1> HIDE DEF m
<1>5. map_res[m] \in Entry
  BY <1>2, <1>3
<1>6. map_res[m] = [client |-> map_res[m].client, cuda |-> map_res[m].cuda,
                    size |-> map_res[m].size]
  BY <1>5, EntryShape
<1>7. map_res[m].size = call.size
  BY <1>2, <1>4, <1>5, SameBlock
<1>8. [map_res[m] EXCEPT !.cuda = call.cuda]
        = [client |-> call.client, cuda |-> call.cuda, size |-> call.size]
  BY <1>4, <1>6, <1>7
<1>9. [client |-> call.client, cuda |-> call.cuda, size |-> call.size] \in Entry
  <2> DEFINE b == [client |-> call.client, size |-> call.size]
  <2>1. b.client = call.client /\ b.size = call.size /\ b \in Blocks
    BY <1>2
  <2> HIDE DEF b
  <2> QED BY <1>2, <2>1 DEF Entry
<1>10. map_res' = [map_res EXCEPT ![m] = [client |-> call.client, cuda |-> call.cuda,
                                          size |-> call.size]]
  BY <1>4, <1>8
<1>11. /\ Len(map_res') = Len(map_res) /\ map_res' \in Seq(Entry)
       /\ map_res'[m] = [client |-> call.client, cuda |-> call.cuda, size |-> call.size]
       /\ \A i \in 1 .. Len(map_res) : i # m => map_res'[i] = map_res[i]
  BY <1>2, <1>3, <1>9, <1>10
<1> QED BY <1>3, <1>4, <1>11 DEF m

LEMMA AddTurnIInv == ASSUME IInv, AddTurn PROVE IInv'
<1>1. call # NoCall /\ ~Exhausted /\ call.op = "add"
  BY DEF AddTurn, Running, NoCall
<1>2. CASE AddLeft
  BY <1>1, <1>2, NarrowingKeepsIInv DEF AddLeft, AddTurn
<1>3. CASE AddRight
  BY <1>1, <1>3, NarrowingKeepsIInv DEF AddRight, AddTurn
<1>4. CASE AddDuplicate
  <2> DEFINE m == Mid + 1
  <2>1. /\ m \in 1 .. Len(map_res) /\ Len(map_res') = Len(map_res)
        /\ map_res' \in Seq(Entry)
        /\ map_res'[m] = [client |-> call.client, cuda |-> call.cuda, size |-> call.size]
        /\ map_res[m].client = call.client
        /\ \A i \in 1 .. Len(map_res) : i # m => map_res'[i] = map_res[i]
    BY <1>4, DuplicateChanges
  <2> HIDE DEF m
  <2>2. \A i \in 1 .. Len(map_res) : map_res'[i].client = map_res[i].client
    BY <2>1
  <2>3. /\ call' = NoCall /\ UNCHANGED <<bypass, new_res>>
        /\ last' = [op |-> "add", client |-> call.client,
                    cuda |-> call.cuda, status |-> 0]
    BY <1>4 DEF AddDuplicate, AddTurn, Return, Done
  <2>4. call.client \in Nat /\ call.cuda \in Nat
    BY <1>1, CallShape DEF IInv
  <2>5. TypeOK'
    BY <2>1, <2>3, <2>4 DEF IInv, TypeOK, NoCall
  <2>6. Sorted'
    BY <2>1, <2>2 DEF IInv, Sorted
  <2> QED BY <2>3, <2>5, <2>6 DEF IInv, WindowHoldsKey
<1> QED BY <1>2, <1>3, <1>4 DEF AddTurn

(* The bisection ends with an empty window whose border is where the key   *)
(* belongs; the code's last comparison finds that place.                   *)
LEMMA InsertPositionIsBorder ==
  ASSUME IInv, call # NoCall, Exhausted
  PROVE  /\ InsertPosition + 1 \in 1 .. Len(map_res) + 1
         /\ \A i \in 1 .. Len(map_res) :
              /\ i < InsertPosition + 1 => map_res[i].client < call.client
              /\ i >= InsertPosition + 1 => map_res[i].client > call.client
<1>1. /\ Len(map_res) \in Nat \ {0} /\ map_res \in Seq(Entry) /\ call.client \in Nat
      /\ call.start \in 0 .. Len(map_res) /\ call.end \in -1 .. Len(map_res) - 1
      /\ call.end < call.start
  BY CallShape DEF IInv, TypeOK, Exhausted
<1>2. \A i \in 1 .. Len(map_res) : map_res[i].client \in Nat
  BY <1>1, EntriesAreTyped
<1>3. \A i \in 1 .. Len(map_res) :
        /\ i <= call.start => map_res[i].client < call.client
        /\ i > call.end + 1 => map_res[i].client > call.client
  <2> SUFFICES ASSUME NEW i \in 1 .. Len(map_res)
               PROVE  /\ i <= call.start => map_res[i].client < call.client
                      /\ i > call.end + 1 => map_res[i].client > call.client
    OBVIOUS
  <2>1. i - 1 \in 0 .. Len(map_res) - 1
    BY <1>1
  <2>2. At(i - 1) = map_res[i]
    BY <1>1 DEF At
  <2> QED BY <1>1, <2>1, <2>2 DEF IInv, WindowHoldsKey
<1>4. call.start = call.end + 1
  <2> SUFFICES ASSUME call.start > call.end + 1 PROVE FALSE
    BY <1>1
  <2> DEFINE k == call.end + 2
  <2>1. k \in 1 .. Len(map_res) /\ k <= call.start /\ k > call.end + 1
    BY <1>1
  <2> HIDE DEF k
  <2>2. map_res[k].client < call.client /\ map_res[k].client > call.client
    BY <1>3, <2>1
  <2> QED BY <1>1, <1>2, <2>1, <2>2
<1>5. InsertPosition = call.start
  <2>1. CASE call.end < 0
    <3>1. call.end = -1 /\ call.start = 0
      BY <1>1, <1>4, <2>1
    <3>2. map_res[1].client > call.client
      BY <1>1, <1>3, <3>1
    <3> QED BY <1>1, <1>2, <3>1, <3>2 DEF InsertPosition, At
  <2>2. CASE call.end >= 0
    <3>1. call.end + 1 \in 1 .. Len(map_res) /\ call.end + 1 <= call.start
      BY <1>1, <1>4, <2>2
    <3>2. map_res[call.end + 1].client < call.client
      BY <1>3, <3>1
    <3> QED BY <1>1, <1>4, <2>2, <3>2 DEF InsertPosition, At
  <2> QED BY <1>1, <2>1, <2>2
<1> QED BY <1>1, <1>3, <1>4, <1>5

NewEntry == [client |-> call.client, cuda |-> call.cuda, size |-> call.size]

(* The list with the new entry, told by the place p of that entry.         *)
Inserted(p) ==
  /\ p \in 1 .. Len(map_res) + 1
  /\ map_res' \in Seq(Entry) /\ Len(map_res') = Len(map_res) + 1
  /\ \A j \in 1 .. Len(map_res) + 1 :
       map_res'[j] = IF j < p THEN map_res[j] ELSE IF j = p THEN NewEntry ELSE map_res[j - 1]
  /\ \A i \in 1 .. Len(map_res) :
       /\ i < p => map_res[i].client < call.client
       /\ i >= p => map_res[i].client > call.client

LEMMA InsertInserts == ASSUME IInv, AddInsert PROVE Inserted(InsertPosition + 1)
<1> DEFINE p == InsertPosition + 1
<1>1. call # NoCall /\ Exhausted /\ call.op = "add"
  BY DEF AddInsert, Running, NoCall
<1>2. /\ call.cuda \in Targets /\ [client |-> call.client, size |-> call.size] \in Blocks
      /\ map_res \in Seq(Entry)
  BY <1>1, CallShape DEF IInv, TypeOK
<1>3. NewEntry \in Entry
  <2> DEFINE b == [client |-> call.client, size |-> call.size]
  <2>1. b.client = call.client /\ b.size = call.size /\ b \in Blocks
    BY <1>2
  <2> HIDE DEF b
  <2> QED BY <1>2, <2>1 DEF Entry, NewEntry
<1>4. /\ p \in 1 .. Len(map_res) + 1
      /\ \A i \in 1 .. Len(map_res) :
           /\ i < p => map_res[i].client < call.client
           /\ i >= p => map_res[i].client > call.client
  BY <1>1, InsertPositionIsBorder
<1>5. map_res' = InsertAt(map_res, p, NewEntry)
  BY DEF AddInsert, NewEntry
<1> HIDE DEF p
<1>6. /\ InsertAt(map_res, p, NewEntry) \in Seq(Entry)
      /\ Len(InsertAt(map_res, p, NewEntry)) = Len(map_res) + 1
  BY <1>2, <1>3, <1>4, InsertAtIsShift
<1>7. \A j \in 1 .. Len(map_res) + 1 :
        InsertAt(map_res, p, NewEntry)[j]
          = IF j < p THEN map_res[j] ELSE IF j = p THEN NewEntry ELSE map_res[j - 1]
  <2>1. map_res \in Seq(Entry) /\ NewEntry \in Entry /\ p \in 1 .. Len(map_res) + 1
    BY <1>2, <1>3, <1>4
  <2>2. Shifted(map_res, InsertAt(map_res, p, NewEntry), p, NewEntry)
    BY <2>1, InsertAtIsShift
  <2> QED BY <2>2 DEF Shifted
<1>8. Inserted(p)
  BY <1>4, <1>5, <1>6, <1>7, Zenon DEF Inserted
<1> QED BY <1>8 DEF p

LEMMA AddInsertIInv == ASSUME IInv, AddInsert PROVE IInv'
<1>1. PICK p \in Int : Inserted(p)
  <2>1. InsertPosition + 1 \in Int
    BY InsertInserts DEF Inserted
  <2> QED BY <2>1, InsertInserts
<1>2. call # NoCall /\ call.op = "add"
  BY DEF AddInsert, Running, NoCall
<1>3. call.client \in Nat /\ call.cuda \in Nat /\ map_res \in Seq(Entry)
  BY <1>2, CallShape DEF IInv, TypeOK
<1>4. /\ call' = NoCall /\ UNCHANGED <<bypass, new_res>>
      /\ last' = [op |-> "add", client |-> call.client,
                  cuda |-> call.cuda, status |-> 0]
  BY DEF AddInsert, Return, Done
<1>5. TypeOK'
  BY <1>1, <1>3, <1>4 DEF IInv, TypeOK, NoCall, Inserted
<1>6. Sorted'
  <2> SUFFICES ASSUME NEW i \in 1 .. Len(map_res) + 1,
                      NEW j \in 1 .. Len(map_res) + 1, i < j
               PROVE  map_res'[i].client < map_res'[j].client
    BY <1>1 DEF Sorted, Inserted
  <2>1. /\ Len(map_res) \in Nat /\ p \in 1 .. Len(map_res) + 1
        /\ NewEntry.client = call.client
    BY <1>1, <1>3 DEF Inserted, NewEntry
  <2>2. \A k, l \in 1 .. Len(map_res) :
          k < l => map_res[k].client < map_res[l].client
    BY DEF IInv, Sorted
  <2>3. \A k \in 1 .. Len(map_res) :
          /\ map_res[k].client \in Nat
          /\ k < p => map_res[k].client < call.client
          /\ k >= p => map_res[k].client > call.client
    BY <1>1, <1>3, EntriesAreTyped DEF Inserted
  <2>4. \A k \in 1 .. Len(map_res) + 1 :
          /\ k < p => map_res'[k] = map_res[k]
          /\ k = p => map_res'[k] = NewEntry
          /\ k > p => map_res'[k] = map_res[k - 1]
    BY <1>1, <2>1 DEF Inserted
  <2>5. CASE j < p
    <3>1. i \in 1 .. Len(map_res) /\ j \in 1 .. Len(map_res) /\ i < p
      BY <2>1, <2>5
    <3> QED BY <2>2, <2>4, <2>5, <3>1
  <2>6. CASE j = p
    <3>1. i \in 1 .. Len(map_res) /\ i < p
      BY <2>1, <2>6
    <3>2. map_res'[i] = map_res[i] /\ map_res'[j] = NewEntry
      BY <2>4, <2>6, <3>1
    <3> QED BY <2>1, <2>3, <3>1, <3>2
  <2>7. CASE i = p
    <3>1. j - 1 \in 1 .. Len(map_res) /\ j - 1 >= p /\ j > p
      BY <2>1, <2>7
    <3>2. map_res'[i] = NewEntry /\ map_res'[j] = map_res[j - 1]
      BY <2>4, <2>7, <3>1
    <3> QED BY <1>3, <2>1, <2>3, <3>1, <3>2
  <2>8. CASE i < p /\ j > p
    <3>1. i \in 1 .. Len(map_res) /\ j - 1 \in 1 .. Len(map_res) /\ j - 1 >= p
      BY <2>1, <2>8
    <3>2. map_res'[i] = map_res[i] /\ map_res'[j] = map_res[j - 1]
      BY <2>4, <2>8
    <3>3. map_res[i].client < call.client /\ map_res[j - 1].client > call.client
      BY <2>3, <2>8, <3>1
    <3> QED BY <1>3, <2>3, <3>1, <3>2, <3>3
  <2>9. CASE i > p
    <3>1. /\ i - 1 \in 1 .. Len(map_res) /\ j - 1 \in 1 .. Len(map_res)
          /\ i - 1 < j - 1 /\ j > p
      BY <2>1, <2>9
    <3>2. map_res'[i] = map_res[i - 1] /\ map_res'[j] = map_res[j - 1]
      BY <2>4, <2>9, <3>1
    <3> QED BY <2>2, <3>1, <3>2
  <2> QED BY <2>1, <2>5, <2>6, <2>7, <2>8, <2>9
<1> QED BY <1>4, <1>5, <1>6 DEF IInv, WindowHoldsKey

------------------------------------------------------------------------------
LEMMA NextIInv == ASSUME IInv, [Next]_vars PROVE IInv'
<1>1. CASE UNCHANGED vars
  BY <1>1 DEF vars, IInv, TypeOK, Sorted, WindowHoldsKey, At
<1>2. CASE Next
  BY <1>2, GetIInv, CreateIInv, AddSortedIInv, SearchTurnIInv, GetMissIInv,
     AddTurnIInv, AddInsertIInv DEF Next, Step
<1> QED BY <1>1, <1>2

LEMMA IInvAlways == Spec => []IInv
<1>1. Init => IInv
  BY InitIInv
<1>2. IInv /\ [Next]_vars => IInv'
  BY NextIInv
<1> QED BY <1>1, <1>2, PTL DEF Spec

(* The window of memory_mg_search_map and memory_mg_add_sorted never       *)
(* leaves the list, and every entry is a block with the size it had.       *)
THEOREM TypeCorrect == Spec => []TypeOK
<1>1. IInv => TypeOK
  BY DEF IInv
<1> QED BY <1>1, IInvAlways, PTL

(* memory_mg_add_sorted keeps the blocks sorted, added in any order.       *)
THEOREM SortedAlways == Spec => []Sorted
<1>1. IInv => Sorted
  BY DEF IInv
<1> QED BY <1>1, IInvAlways, PTL

(* The block a pointer belongs to is never bisected away, though the       *)
(* search of resource-mg.c:261-284 compares with the starts of blocks.     *)
THEOREM WindowAlwaysHoldsKey == Spec => []WindowHoldsKey
<1>1. IInv => WindowHoldsKey
  BY DEF IInv
<1> QED BY <1>1, IInvAlways, PTL

------------------------------------------------------------------------------
(* The sorted list as the map it stands for.                               *)
Value(e) == [cuda |-> e.cuda, size |-> e.size]

LEMMA MapAt ==
  ASSUME NEW s \in Seq(Entry), Ordered(s), NEW i \in 1 .. Len(s)
  PROVE  s[i].client \in BasesOf(s) /\ MapOf(s)[s[i].client] = Value(s[i])
<1>1. s[i].client \in BasesOf(s)
  BY DEF BasesOf
<1>2. \A j \in 1 .. Len(s) : s[j].client \in Nat
  BY EntriesAreTyped
<1>3. ASSUME NEW j \in 1 .. Len(s), s[j].client = s[i].client PROVE j = i
  <2>1. ~(j < i) /\ ~(i < j)
    BY <1>2, <1>3 DEF Ordered
  <2> QED BY <2>1
<1>4. (CHOOSE j \in 1 .. Len(s) : s[j].client = s[i].client) = i
  BY <1>3
<1> QED BY <1>1, <1>4 DEF MapOf, Value

(* Lists that differ in what they say of one block only.                   *)
Changes(s, t, e) ==
  /\ \E j \in 1 .. Len(t) : t[j] = e
  /\ \A i \in 1 .. Len(s) : s[i].client # e.client => \E j \in 1 .. Len(t) : t[j] = s[i]
  /\ \A j \in 1 .. Len(t) : t[j].client # e.client => \E i \in 1 .. Len(s) : s[i] = t[j]

Put(map, b, v) == [x \in DOMAIN map \cup {b} |-> IF x = b THEN v ELSE map[x]]

LEMMA MapOfChange ==
  ASSUME NEW s \in Seq(Entry), Ordered(s), NEW t \in Seq(Entry), Ordered(t),
         NEW e \in Entry, Changes(s, t, e)
  PROVE  MapOf(t) = Put(MapOf(s), e.client, Value(e))
<1> DEFINE c == e.client
<1>1. DOMAIN MapOf(s) = BasesOf(s) /\ DOMAIN MapOf(t) = BasesOf(t)
  BY DEF MapOf
<1>2. BasesOf(t) = BasesOf(s) \cup {c}
  <2>1. c \in BasesOf(t)
    BY DEF Changes, BasesOf
  <2>2. ASSUME NEW i \in 1 .. Len(s), s[i].client # c PROVE s[i].client \in BasesOf(t)
    BY <2>2 DEF Changes, BasesOf
  <2>3. ASSUME NEW j \in 1 .. Len(t), t[j].client # c PROVE t[j].client \in BasesOf(s)
    BY <2>3 DEF Changes, BasesOf
  <2> QED BY <2>1, <2>2, <2>3 DEF BasesOf
<1>3. MapOf(t)[c] = Value(e)
  <2>1. PICK j \in 1 .. Len(t) : t[j] = e
    BY DEF Changes
  <2> QED BY <2>1, MapAt
<1>4. ASSUME NEW h \in BasesOf(s), h # c PROVE MapOf(t)[h] = MapOf(s)[h]
  <2>1. PICK i \in 1 .. Len(s) : s[i].client = h
    BY DEF BasesOf
  <2>2. PICK j \in 1 .. Len(t) : t[j] = s[i]
    BY <1>4, <2>1 DEF Changes
  <2> QED BY <2>1, <2>2, MapAt
<1>5. MapOf(t) = [h \in BasesOf(t) |-> MapOf(t)[h]]
  BY DEF MapOf
<1> HIDE DEF MapOf, c
<1>6. MapOf(t) = Put(MapOf(s), c, Value(e))
  BY <1>1, <1>2, <1>3, <1>4, <1>5 DEF Put
<1> QED BY <1>6 DEF c

(* What the map says of an address, by the entries of the list.            *)
LEMMA Uncovered ==
  ASSUME TypeOK, Sorted, NEW a \in Nat,
         \A i \in 1 .. Len(map_res) : ~Covers(map_res[i].client, map_res[i].size, a)
  PROVE  Promise!Translation(a) = a
<1>1. map_res \in Seq(Entry) /\ Ordered(map_res)
  BY DEF TypeOK, Sorted, Ordered
<1>2. ASSUME NEW b \in DOMAIN MapOf(map_res) PROVE ~Covers(b, MapOf(map_res)[b].size, a)
  <2>1. PICK i \in 1 .. Len(map_res) : map_res[i].client = b
    BY DEF MapOf, BasesOf
  <2>2. MapOf(map_res)[b] = Value(map_res[i])
    BY <1>1, <2>1, MapAt
  <2>3. MapOf(map_res)[b].size = map_res[i].size
    BY <2>2 DEF Value
  <2> QED BY <2>1, <2>3
<1>3. Promise!Covering(a) = {}
  BY <1>2 DEF Promise!Covering, Promise!Covers, Covers
<1> QED BY <1>3 DEF Promise!Translation

LEMMA Covered ==
  ASSUME TypeOK, Sorted, ~bypass, NEW a \in Nat, NEW i \in 1 .. Len(map_res),
         Covers(map_res[i].client, map_res[i].size, a)
  PROVE  Promise!Translation(a) = map_res[i].cuda + (a - map_res[i].client)
<1>1. map_res \in Seq(Entry) /\ Ordered(map_res)
  BY DEF TypeOK, Sorted, Ordered
<1>2. /\ map_res[i].client \in DOMAIN MapOf(map_res)
      /\ MapOf(map_res)[map_res[i].client] = Value(map_res[i])
  BY <1>1, MapAt DEF MapOf
<1>3. ASSUME NEW b \in DOMAIN MapOf(map_res), Covers(b, MapOf(map_res)[b].size, a)
      PROVE  b = map_res[i].client
  <2>1. PICK j \in 1 .. Len(map_res) : map_res[j].client = b
    BY DEF MapOf, BasesOf
  <2>2. MapOf(map_res)[b] = Value(map_res[j])
    BY <1>1, <2>1, MapAt
  <2>3. MapOf(map_res)[b].size = map_res[j].size
    BY <2>2 DEF Value
  <2> QED BY <1>1, <1>3, <2>1, <2>3, OneCovers
<1>4. Promise!Covering(a) = {map_res[i].client}
  BY <1>2, <1>3 DEF Promise!Covering, Promise!Covers, Covers, Value
<1>5. (CHOOSE b \in Promise!Covering(a) : TRUE) = map_res[i].client
  BY <1>4
<1>6. MapOf(map_res)[map_res[i].client].cuda = map_res[i].cuda
  BY <1>2 DEF Value
<1> HIDE DEF MapOf
<1> QED BY <1>4, <1>5, <1>6 DEF Promise!Translation

MapStep == [Promise!Next]_(Promise!absVars)

(* A search that has not returned is not seen.                             *)
LEMMA Stutters ==
  ASSUME UNCHANGED <<bypass, map_res, new_res, last>> PROVE MapStep
BY DEF MapStep, Promise!absVars

LEMMA ReturnsFound ==
  ASSUME UNCHANGED <<bypass, map_res, new_res>>, NEW a \in Addresses, NEW d,
         d = Promise!Translation(a), Return("get", a, d, 0)
  PROVE  MapStep
<1>1. Promise!Get(a)
  BY DEF Promise!Get, Promise!Call, Return, Done
<1> QED BY <1>1 DEF MapStep, Promise!Next

LEMMA GetImplements == ASSUME IInv, NEW a \in Addresses, Get(a) PROVE MapStep
<1>1. CASE bypass \/ map_res = <<>>
  <2>1. a = Promise!Translation(a)
    <3>1. CASE bypass
      BY <3>1 DEF Promise!Translation
    <3>2. CASE map_res = <<>>
      BY <3>2, Uncovered, AddressesAreNumbers DEF IInv
    <3> QED BY <1>1, <3>1, <3>2
  <2> QED BY <1>1, <2>1, ReturnsFound DEF Get
<1>2. CASE ~(bypass \/ map_res = <<>>)
  BY <1>2, Stutters DEF Get
<1> QED BY <1>1, <1>2

LEMMA CreateImplements ==
  ASSUME NEW d \in Targets, NEW s \in Sizes, Create(d, s) PROVE MapStep
<1>1. PICK b \in Blocks : s = b.size
  BY DEF Sizes
<1>2. Promise!Create(d, b.size)
  BY <1>1 DEF Create, Promise!Create, Promise!Call, Return, Done
<1> QED BY <1>2 DEF MapStep, Promise!Next

LEMMA SearchTurnImplements == ASSUME IInv, SearchTurn PROVE MapStep
<1>1. call # NoCall /\ ~Exhausted
  BY DEF SearchTurn, Running, NoCall
<1>2. /\ Mid \in 0 .. Len(map_res) - 1 /\ Mid + 1 \in 1 .. Len(map_res)
      /\ At(Mid) = map_res[Mid + 1] /\ At(Mid).client \in Nat
      /\ call.client \in Nat /\ call.client \in Addresses
  BY <1>1, MidIsInWindow, CallShape DEF IInv
<1>3. /\ map_res \in Seq(Entry) /\ ~bypass /\ Ordered(map_res)
      /\ TypeOK /\ Sorted
  BY <1>1 DEF IInv, TypeOK, Sorted, Ordered
<1>4. CASE GetLeft /\ Mid = 0
  <2>1. ASSUME NEW i \in 1 .. Len(map_res)
        PROVE  ~Covers(map_res[i].client, map_res[i].size, call.client)
    <3>1. map_res[i].client \in Nat /\ map_res[1].client \in Nat
      BY <1>2, <1>3, EntriesAreTyped
    <3>2. map_res[1].client > call.client
      BY <1>4 DEF GetLeft, At
    <3>3. i = 1 \/ map_res[1].client < map_res[i].client
      BY <1>2, <1>3 DEF Ordered
    <3> QED BY <1>2, <3>1, <3>2, <3>3 DEF Covers
  <2>2. call.client = Promise!Translation(call.client)
    BY <1>2, <1>3, <2>1, Uncovered
  <2> QED BY <1>2, <1>4, <2>2, ReturnsFound DEF GetLeft, SearchTurn
<1>5. CASE (GetLeft /\ Mid # 0) \/ GetRight
  BY <1>5, Stutters DEF GetLeft, GetRight, SearchTurn
<1>6. CASE GetHit
  <2>1. Promise!Translation(call.client) = At(Mid).cuda + (call.client - At(Mid).client)
    BY <1>2, <1>3, <1>6, Covered DEF GetHit
  <2> QED BY <1>2, <1>6, <2>1, ReturnsFound DEF GetHit, SearchTurn
<1> QED BY <1>4, <1>5, <1>6 DEF SearchTurn

LEMMA GetMissImplements == ASSUME IInv, GetMiss PROVE MapStep
<1>1. call # NoCall /\ Exhausted /\ call.op = "get"
  BY DEF GetMiss, Running, NoCall
<1>2. /\ map_res \in Seq(Entry) /\ TypeOK /\ Sorted
      /\ call.start \in 0 .. Len(map_res) /\ call.end \in -1 .. Len(map_res) - 1
      /\ call.end < call.start /\ call.client \in Nat /\ call.client \in Addresses
  BY <1>1, CallShape DEF IInv, TypeOK, Exhausted
<1>3. ASSUME NEW i \in 1 .. Len(map_res)
      PROVE  ~Covers(map_res[i].client, map_res[i].size, call.client)
  <2>1. i - 1 \in 0 .. Len(map_res) - 1 /\ At(i - 1) = map_res[i]
    BY <1>2 DEF At
  <2>2. \/ ~Covers(map_res[i].client, map_res[i].size, call.client)
        \/ map_res[i].client > call.client
    BY <1>1, <1>2, <2>1 DEF IInv, WindowHoldsKey
  <2>3. map_res[i].client \in Nat
    BY <1>2, EntriesAreTyped
  <2> QED BY <1>2, <2>2, <2>3 DEF Covers
<1>4. call.client = Promise!Translation(call.client)
  BY <1>2, <1>3, Uncovered
<1> QED BY <1>2, <1>4, ReturnsFound DEF GetMiss

(* What adding a block makes of the list, wherever it is put.              *)
LEMMA Adds ==
  ASSUME IInv, IInv', ~bypass, UNCHANGED <<bypass, new_res>>,
         NEW b \in Blocks, NEW d \in Targets, Return("add", b.client, d, 0),
         Changes(map_res, map_res', [client |-> b.client, cuda |-> d, size |-> b.size])
  PROVE  MapStep
<1> DEFINE e == [client |-> b.client, cuda |-> d, size |-> b.size]
<1>1. map_res \in Seq(Entry) /\ map_res' \in Seq(Entry)
  BY DEF IInv, TypeOK
<1>2. Ordered(map_res) /\ Ordered(map_res')
  BY DEF IInv, Sorted, Ordered
<1>3. e \in Entry /\ e.client = b.client /\ Value(e) = [cuda |-> d, size |-> b.size]
  BY DEF Entry, Value
<1> HIDE DEF e
<1>4. Changes(map_res, map_res', e)
  BY DEF e
<1>5. MapOf(map_res') = Put(MapOf(map_res), e.client, Value(e))
  BY <1>1, <1>2, <1>3, <1>4, MapOfChange
<1>6. MapOf(map_res') = Put(MapOf(map_res), b.client, [cuda |-> d, size |-> b.size])
  BY <1>3, <1>5
<1>7. Promise!Add(b, d)
  BY <1>6 DEF Put, Promise!Add, Promise!Call, Return, Done
<1> QED BY <1>7 DEF MapStep, Promise!Next

LEMMA AddSortedImplements ==
  ASSUME IInv, IInv', NEW b \in Blocks, NEW d \in Targets, AddSorted(b, d)
  PROVE  MapStep
<1>1. CASE bypass
  <2>1. Promise!RefuseAdd(b, d)
    BY <1>1 DEF AddSorted, Promise!RefuseAdd, Promise!Call, Return, Done
  <2> QED BY <2>1 DEF MapStep, Promise!Next
<1>2. CASE ~bypass /\ map_res = <<>>
  <2> DEFINE e == [client |-> b.client, cuda |-> d, size |-> b.size]
  <2>1. /\ map_res' = <<e>>
        /\ Return("add", b.client, d, 0) /\ UNCHANGED <<bypass, new_res>>
    BY <1>2 DEF AddSorted
  <2> HIDE DEF e
  <2>2. Len(map_res) = 0 /\ Len(map_res') = 1 /\ map_res'[1] = e
    BY <1>2, <2>1
  <2>3. \A j \in 1 .. Len(map_res') : map_res'[j] = e
    BY <2>2
  <2>4. Changes(map_res, map_res', e)
    BY <2>2, <2>3 DEF Changes
  <2> QED BY <1>2, <2>1, <2>4, Adds DEF e
<1>3. CASE ~bypass /\ map_res # <<>>
  BY <1>3, Stutters DEF AddSorted
<1> QED BY <1>1, <1>2, <1>3

(* The block that an add_sorted in progress adds.                          *)
LEMMA AddsNewEntry ==
  ASSUME IInv, IInv', call # NoCall, call.op = "add", UNCHANGED <<bypass, new_res>>,
         Return("add", call.client, call.cuda, 0), Changes(map_res, map_res', NewEntry)
  PROVE  MapStep
<1> DEFINE b == [client |-> call.client, size |-> call.size]
<1>1. b \in Blocks /\ call.cuda \in Targets /\ ~bypass
  BY CallShape DEF IInv, TypeOK
<1>2. /\ b.client = call.client /\ b.size = call.size
      /\ NewEntry = [client |-> b.client, cuda |-> call.cuda, size |-> b.size]
  BY DEF NewEntry
<1> HIDE DEF b
<1>3. Return("add", b.client, call.cuda, 0)
  BY <1>2
<1>4. Changes(map_res, map_res', [client |-> b.client, cuda |-> call.cuda, size |-> b.size])
  BY <1>2
<1> QED BY <1>1, <1>3, <1>4, Adds

LEMMA AddTurnImplements == ASSUME IInv, IInv', AddTurn PROVE MapStep
<1>1. CASE AddLeft \/ AddRight
  BY <1>1, Stutters DEF AddLeft, AddRight, AddTurn
<1>2. CASE AddDuplicate
  <2> DEFINE m == Mid + 1
  <2>1. /\ m \in 1 .. Len(map_res) /\ Len(map_res') = Len(map_res)
        /\ map_res'[m] = NewEntry /\ map_res[m].client = NewEntry.client
        /\ \A i \in 1 .. Len(map_res) : i # m => map_res'[i] = map_res[i]
    BY <1>2, DuplicateChanges DEF NewEntry
  <2> HIDE DEF m
  <2>2. Changes(map_res, map_res', NewEntry)
    BY <2>1 DEF Changes
  <2>3. call # NoCall /\ call.op = "add"
    BY DEF AddTurn, Running, NoCall
  <2> QED BY <1>2, <2>2, <2>3, AddsNewEntry DEF AddDuplicate, AddTurn
<1> QED BY <1>1, <1>2 DEF AddTurn

LEMMA AddInsertImplements == ASSUME IInv, IInv', AddInsert PROVE MapStep
<1>1. PICK p \in Int : Inserted(p)
  <2>1. InsertPosition + 1 \in Int
    BY InsertInserts DEF Inserted
  <2> QED BY <2>1, InsertInserts
<1>2. /\ Len(map_res) \in Nat /\ p \in 1 .. Len(map_res) + 1
      /\ Len(map_res') = Len(map_res) + 1
  BY <1>1 DEF Inserted, IInv, TypeOK
<1>3. \A k \in 1 .. Len(map_res) + 1 :
        /\ k < p => map_res'[k] = map_res[k]
        /\ k = p => map_res'[k] = NewEntry
        /\ k > p => map_res'[k] = map_res[k - 1]
  BY <1>1, <1>2 DEF Inserted
<1>4. ASSUME NEW i \in 1 .. Len(map_res)
      PROVE  \E j \in 1 .. Len(map_res') : map_res'[j] = map_res[i]
  <2>1. CASE i < p
    BY <1>2, <1>3, <2>1
  <2>2. CASE i >= p
    <3>1. i + 1 \in 1 .. Len(map_res) + 1 /\ i + 1 > p /\ i + 1 - 1 = i
      BY <1>2, <2>2
    <3>2. map_res'[i + 1] = map_res[i]
      BY <1>3, <3>1
    <3> QED BY <1>2, <3>1, <3>2
  <2> QED BY <1>2, <2>1, <2>2
<1>5. ASSUME NEW j \in 1 .. Len(map_res'), j # p
      PROVE  \E i \in 1 .. Len(map_res) : map_res[i] = map_res'[j]
  <2>1. CASE j < p
    BY <1>2, <1>3, <2>1
  <2>2. CASE j > p
    <3>1. j - 1 \in 1 .. Len(map_res) /\ j \in 1 .. Len(map_res) + 1
      BY <1>2, <2>2
    <3>2. map_res'[j] = map_res[j - 1]
      BY <1>3, <2>2, <3>1
    <3> QED BY <3>1, <3>2
  <2> QED BY <1>2, <1>5, <2>1, <2>2
<1>6. map_res'[p] = NewEntry /\ p \in 1 .. Len(map_res')
  BY <1>2, <1>3
<1>7. Changes(map_res, map_res', NewEntry)
  BY <1>4, <1>5, <1>6 DEF Changes
<1>8. /\ call # NoCall /\ call.op = "add" /\ UNCHANGED <<bypass, new_res>>
      /\ Return("add", call.client, call.cuda, 0)
  BY DEF AddInsert, Running, NoCall
<1> QED BY <1>7, <1>8, AddsNewEntry

(* The list and its loops are, seen from the handlers, the map of blocks:  *)
(* a pointer into a restored block leads to the same place of the block    *)
(* that took its place, and any other pointer is passed through.           *)
THEOREM ImplementsTheMap == Spec => ImplementsBlockMap
<1>1. Init => Promise!Init
  <2> SUFFICES ASSUME Init PROVE Promise!Init
    OBVIOUS
  <2>1. BasesOf(map_res) = {}
    BY DEF Init, BasesOf
  <2>2. MapOf(map_res) = [b \in {} |-> b]
    BY <2>1 DEF MapOf
  <2> QED BY <2>2 DEF Init, Done, Promise!Init, Promise!Call
<1>2. IInv /\ IInv' /\ [Next]_vars => [Promise!Next]_(Promise!absVars)
  <2> SUFFICES ASSUME IInv, IInv', [Next]_vars PROVE MapStep
    BY DEF MapStep
  <2>1. CASE UNCHANGED vars
    BY <2>1, Stutters DEF vars
  <2>2. CASE Next
    BY <2>2, GetImplements, CreateImplements, SearchTurnImplements, GetMissImplements,
       AddSortedImplements, AddTurnImplements, AddInsertImplements DEF Next, Step
  <2> QED BY <2>1, <2>2
<1> QED BY <1>1, <1>2, IInvAlways, PTL DEF Spec, ImplementsBlockMap, Promise!Spec
==============================================================================
