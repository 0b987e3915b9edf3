-------------------------- MODULE ResourceMgProofs ---------------------------
(***************************************************************************)
(* Theorems about ResourceMg for every set of handles and every bound.     *)
(*                                                                         *)
(* IInv is inductive: sortedness alone is not, because where add_sorted    *)
(* inserts is right only if the bisection has kept the key in its window,  *)
(* and the window is kept right only on a sorted list.                     *)
(***************************************************************************)
EXTENDS ResourceMg, SequenceTheorems, TLAPS

IInv == TypeOK /\ Sorted /\ WindowHoldsKey

(* Inserting e at p moves the elements from there on up by one place.      *)
Shifted(s, t, p, e) ==
  \A j \in 1 .. Len(s) + 1 :
    t[j] = IF j < p THEN s[j] ELSE IF j = p THEN e ELSE s[j - 1]

LEMMA InsertAtIsShift ==
  ASSUME NEW S, NEW s \in Seq(S), NEW i \in 1 .. Len(s) + 1, NEW e \in S
  PROVE  /\ InsertAt(s, i, e) \in Seq(S)
         /\ Len(InsertAt(s, i, e)) = Len(s) + 1
         /\ Shifted(s, InsertAt(s, i, e), i, e)
<1> DEFINE lo == SubSeq(s, 1, i - 1)
           hi == SubSeq(s, i, Len(s))
<1>1. lo \in Seq(S) /\ Len(lo) = i - 1 /\ \A j \in 1 .. i - 1 : lo[j] = s[j]
  OBVIOUS
<1>2. /\ hi \in Seq(S) /\ Len(hi) = Len(s) - i + 1
      /\ \A j \in 1 .. Len(s) - i + 1 : hi[j] = s[i + j - 1]
  OBVIOUS
<1>3. <<e>> \in Seq(S) /\ Len(<<e>>) = 1 /\ <<e>>[1] = e
  OBVIOUS
<1> HIDE DEF lo, hi
<1>4. /\ (lo \o <<e>>) \in Seq(S) /\ Len(lo \o <<e>>) = i
      /\ \A j \in 1 .. i : (lo \o <<e>>)[j] = IF j < i THEN s[j] ELSE e
  BY <1>1, <1>3
<1> DEFINE left == lo \o <<e>>
<1> HIDE DEF left
<1>5. left \in Seq(S) /\ Len(left) = i
      /\ \A j \in 1 .. i : left[j] = IF j < i THEN s[j] ELSE e
  BY <1>4 DEF left
<1>6. /\ (left \o hi) \in Seq(S) /\ Len(left \o hi) = Len(s) + 1
      /\ \A j \in 1 .. Len(s) + 1 :
           (left \o hi)[j] = IF j <= i THEN left[j] ELSE hi[j - i]
  <2>1. Len(left) + Len(hi) = Len(s) + 1
    BY <1>2, <1>5
  <2>2. left \in Seq(S) /\ hi \in Seq(S)
    BY <1>2, <1>5
  <2>3. /\ left \o hi \in Seq(S) /\ Len(left \o hi) = Len(left) + Len(hi)
        /\ \A j \in 1 .. Len(left) + Len(hi) :
             (left \o hi)[j] = IF j <= Len(left) THEN left[j]
                                                ELSE hi[j - Len(left)]
    BY <2>2, ConcatProperties, Zenon
  <2>4. Len(left) = i
    BY <1>5
  <2> QED BY <2>1, <2>3, <2>4
<1>7. InsertAt(s, i, e) = left \o hi
  BY DEF InsertAt, left, lo, hi
<1> QED BY <1>2, <1>5, <1>6, <1>7 DEF Shifted

(* The entries of map_res have numbers for client addresses. *)
LEMMA EntriesAreTyped ==
  ASSUME TypeOK, NEW i \in 1 .. Len(map_res)
  PROVE  map_res[i] \in Entry /\ map_res[i].client \in Nat
<1>1. map_res[i] \in Entry
  BY DEF TypeOK
<1> QED BY <1>1, HandlesAreNumbers DEF Entry

(* A window that is not exhausted has its middle inside and on an entry.   *)
LEMMA MidIsInWindow ==
  ASSUME TypeOK, call # NoCall, ~Exhausted
  PROVE  /\ call \in Search
         /\ Mid \in call.start .. call.end
         /\ Mid \in 0 .. Len(map_res) - 1
         /\ At(Mid) \in Entry
         /\ At(Mid).client \in Nat /\ call.client \in Nat
<1>1. call \in Search
  BY DEF TypeOK
<1>2. call.start \in Nat /\ call.end \in Int /\ call.start <= call.end
      /\ call.end <= Len(map_res) - 1 /\ Len(map_res) \in Nat
  BY <1>1 DEF TypeOK, Exhausted, Search
<1>3. Mid \in call.start .. call.end
  BY <1>2 DEF Mid
<1>4. Mid \in 0 .. Len(map_res) - 1
  BY <1>2, <1>3
<1>5. At(Mid) \in Entry
  BY <1>4 DEF At, TypeOK
<1> QED BY <1>1, <1>3, <1>4, <1>5, HandlesAreNumbers DEF Entry, Search

(* A turn that only moves a bound of the window keeps the invariant: the   *)
(* entries it discards are on the wrong side of an entry that is.          *)
LEMMA NarrowingKeepsIInv ==
  ASSUME IInv, call # NoCall, ~Exhausted,
         UNCHANGED <<bypass, map_res, new_res, last>>,
         \/ At(Mid).client > call.client /\ GoLeft
         \/ At(Mid).client < call.client /\ GoRight
  PROVE  IInv' /\ call'.end - call'.start < call.end - call.start
<1> USE DEF IInv
<1>1. /\ call \in Search /\ Mid \in call.start .. call.end
      /\ Mid \in 0 .. Len(map_res) - 1
      /\ At(Mid).client \in Nat /\ call.client \in Nat
  BY MidIsInWindow
<1>2. /\ call.start \in Nat /\ call.end \in Int /\ Len(map_res) \in Nat
      /\ call.end \in -1 .. Len(map_res) - 1
  BY <1>1 DEF TypeOK, Search
<1>3. CASE At(Mid).client > call.client /\ GoLeft
  <2>1. call' = [call EXCEPT !.end = Mid - 1]
    BY <1>3 DEF GoLeft
  <2>2. call' \in Search /\ call'.start = call.start /\ call'.end = Mid - 1
        /\ call'.client = call.client /\ call' # NoCall
        /\ call'.op = call.op /\ call'.cuda = call.cuda
    BY <1>1, <1>2, <2>1 DEF Search, NoCall
  <2>3. TypeOK'
    BY <1>1, <1>2, <2>2 DEF TypeOK
  <2>4. Sorted'
    BY DEF Sorted
  <2>5. WindowHoldsKey'
    <3> SUFFICES ASSUME NEW i \in 0 .. Len(map_res) - 1
                 PROVE  /\ i < call.start => map_res[i + 1].client < call.client
                        /\ i > Mid - 1 => map_res[i + 1].client > call.client
      BY <2>2 DEF WindowHoldsKey, At
    <3>1. i < call.start => map_res[i + 1].client < call.client
      BY DEF WindowHoldsKey, At
    <3>2. map_res[i + 1].client \in Nat
      BY <1>2, EntriesAreTyped
    <3>3. i > Mid => map_res[Mid + 1].client < map_res[i + 1].client
      BY <1>1, <1>2, SMTT(30) DEF Sorted
    <3> QED BY <1>1, <1>3, <3>1, <3>2, <3>3 DEF At
  <2> QED BY <1>1, <1>2, <2>2, <2>3, <2>4, <2>5
<1>4. CASE At(Mid).client < call.client /\ GoRight
  <2>1. call' = [call EXCEPT !.start = Mid + 1]
    BY <1>4 DEF GoRight
  <2>2. call' \in Search /\ call'.start = Mid + 1 /\ call'.end = call.end
        /\ call'.client = call.client /\ call' # NoCall
        /\ call'.op = call.op /\ call'.cuda = call.cuda
    BY <1>1, <1>2, <2>1 DEF Search, NoCall
  <2>3. TypeOK'
    BY <1>1, <1>2, <2>2 DEF TypeOK
  <2>4. Sorted'
    BY DEF Sorted
  <2>5. WindowHoldsKey'
    <3> SUFFICES ASSUME NEW i \in 0 .. Len(map_res) - 1
                 PROVE  /\ i < Mid + 1 => map_res[i + 1].client < call.client
                        /\ i > call.end => map_res[i + 1].client > call.client
      BY <2>2 DEF WindowHoldsKey, At
    <3>1. i > call.end => map_res[i + 1].client > call.client
      BY DEF WindowHoldsKey, At
    <3>2. map_res[i + 1].client \in Nat
      BY <1>2, EntriesAreTyped
    <3>3. i < Mid => map_res[i + 1].client < map_res[Mid + 1].client
      BY <1>1, <1>2 DEF Sorted
    <3> QED BY <1>1, <1>4, <3>1, <3>2, <3>3 DEF At
  <2> QED BY <1>1, <1>2, <2>2, <2>3, <2>4, <2>5
<1> QED BY <1>3, <1>4

------------------------------------------------------------------------------
LEMMA InitIInv == Init => IInv
<1> SUFFICES ASSUME Init PROVE IInv
  OBVIOUS
<1>1. call = NoCall /\ map_res = <<>>
  BY DEF Init
<1>2. last \in [op : {"none", "get", "add", "create"},
                client : Handles \cup Targets \cup {0},
                cuda : Handles \cup Targets \cup {0}, status : {0, 1}]
  BY DEF Init, Done
<1> QED BY <1>1, <1>2 DEF Init, IInv, TypeOK, Sorted, WindowHoldsKey, NoCall

(* What every action that returns without touching map_res leaves.         *)
LEMMA ReturnKeepsIInv ==
  ASSUME IInv, UNCHANGED <<bypass, map_res>>, new_res' \subseteq Targets,
         NEW op \in {"get", "add", "create"},
         NEW c \in Handles \cup Targets \cup {0},
         NEW d \in Handles \cup Targets \cup {0},
         NEW s \in {0, 1}, Return(op, c, d, s)
  PROVE  IInv'
<1>1. call' = NoCall /\ last' = [op |-> op, client |-> c, cuda |-> d, status |-> s]
  BY DEF Return, Done
<1>2. TypeOK'
  BY <1>1 DEF IInv, TypeOK, NoCall
<1> QED BY <1>1, <1>2 DEF IInv, Sorted, WindowHoldsKey

(* The start of a search: nothing has been discarded yet.                  *)
LEMMA BeginKeepsIInv ==
  ASSUME IInv, UNCHANGED <<bypass, map_res, new_res, last>>,
         ~bypass, map_res # <<>>,
         NEW op \in {"get", "add"}, NEW c \in Handles,
         NEW d \in Handles \cup Targets, op = "add" => d \in Targets,
         Begin(op, c, d)
  PROVE  IInv'
<1>1. Len(map_res) \in Nat \ {0}
  BY DEF IInv, TypeOK
<1>2. /\ call' \in Search /\ call'.start = 0
      /\ call'.end = Len(map_res) - 1 /\ call' # NoCall
      /\ call'.op = op /\ call'.cuda = d
  BY <1>1 DEF Begin, Search, NoCall
<1>3. TypeOK'
  BY <1>1, <1>2 DEF IInv, TypeOK
<1>4. WindowHoldsKey'
  BY <1>1, <1>2 DEF WindowHoldsKey, At
<1> QED BY <1>3, <1>4 DEF IInv, Sorted

LEMMA CreateIInv == ASSUME IInv, NEW d \in Targets, Create(d) PROVE IInv'
<1>1. new_res' \subseteq Targets
  BY DEF Create, IInv, TypeOK
<1> QED BY <1>1, ReturnKeepsIInv DEF Create

LEMMA GetIInv == ASSUME IInv, NEW c \in Handles, Get(c) PROVE IInv'
<1>1. new_res' \subseteq Targets
  BY DEF Get, IInv, TypeOK
<1>2. CASE bypass \/ map_res = <<>>
  BY <1>1, <1>2, ReturnKeepsIInv DEF Get
<1>3. CASE ~(bypass \/ map_res = <<>>)
  BY <1>3, BeginKeepsIInv DEF Get
<1> QED BY <1>2, <1>3

LEMMA SearchTurnIInv == ASSUME IInv, SearchTurn PROVE IInv'
<1>1. call # NoCall /\ ~Exhausted
  BY DEF SearchTurn, Running, NoCall
<1>2. /\ call \in Search /\ At(Mid) \in Entry
      /\ new_res' \subseteq Targets
  BY <1>1, MidIsInWindow DEF IInv, TypeOK, SearchTurn
<1>3. call.client \in Handles /\ At(Mid).cuda \in Targets
  BY <1>2 DEF Search, Entry
<1>4. CASE GetLeft /\ Mid = 0
  BY <1>2, <1>3, <1>4, ReturnKeepsIInv DEF GetLeft, SearchTurn
<1>5. CASE GetLeft /\ Mid # 0
  BY <1>1, <1>5, NarrowingKeepsIInv DEF GetLeft, SearchTurn
<1>6. CASE GetRight
  BY <1>1, <1>6, NarrowingKeepsIInv DEF GetRight, SearchTurn
<1>7. CASE GetHit
  BY <1>2, <1>3, <1>7, ReturnKeepsIInv DEF GetHit, SearchTurn
<1> QED BY <1>4, <1>5, <1>6, <1>7 DEF SearchTurn

LEMMA GetMissIInv == ASSUME IInv, GetMiss PROVE IInv'
<1>1. call # NoCall
  BY DEF GetMiss, Running, NoCall
<1>2. call.client \in Handles /\ new_res' \subseteq Targets
  BY <1>1 DEF GetMiss, IInv, TypeOK, Search
<1> QED BY <1>2, ReturnKeepsIInv DEF GetMiss

LEMMA AddSortedIInv ==
  ASSUME IInv, NEW c \in Handles, NEW d \in Targets, AddSorted(c, d)
  PROVE  IInv'
<1>1. new_res' \subseteq Targets
  BY DEF AddSorted, IInv, TypeOK
<1>2. CASE bypass
  BY <1>1, <1>2, ReturnKeepsIInv DEF AddSorted
<1>3. CASE ~bypass /\ map_res = <<>>
  <2> DEFINE e == [client |-> c, cuda |-> d]
  <2>1. /\ map_res' = <<e>> /\ call' = NoCall
        /\ last' = [op |-> "add", client |-> c, cuda |-> d, status |-> 0]
        /\ UNCHANGED <<bypass, new_res>>
    BY <1>3 DEF AddSorted, Return, Done
  <2>2. e \in Entry
    BY DEF Entry
  <2>3. map_res' \in Seq(Entry) /\ Len(map_res') = 1
    BY <2>1, <2>2
  <2>4. TypeOK'
    BY <2>1, <2>3 DEF IInv, TypeOK, NoCall
  <2> QED BY <2>1, <2>3, <2>4 DEF IInv, Sorted, WindowHoldsKey
<1>4. CASE ~bypass /\ map_res # <<>>
  BY <1>4, BeginKeepsIInv DEF AddSorted
<1> QED BY <1>2, <1>3, <1>4

LEMMA AddTurnIInv == ASSUME IInv, AddTurn PROVE IInv'
<1>1. call # NoCall /\ ~Exhausted
  BY DEF AddTurn, Running, NoCall
<1>2. call \in Search /\ Mid \in 0 .. Len(map_res) - 1 /\ call.op = "add"
  BY <1>1, MidIsInWindow DEF IInv, AddTurn, Running
<1>3. CASE AddLeft
  BY <1>1, <1>3, NarrowingKeepsIInv DEF AddLeft, AddTurn
<1>4. CASE AddRight
  BY <1>1, <1>4, NarrowingKeepsIInv DEF AddRight, AddTurn
<1>5. CASE AddDuplicate /\ call.cuda \in Targets
  <2>1. /\ map_res' = [map_res EXCEPT ![Mid + 1].cuda = call.cuda]
        /\ call' = NoCall /\ UNCHANGED <<bypass, new_res>>
        /\ last' = [op |-> "add", client |-> call.client,
                    cuda |-> call.cuda, status |-> 0]
    BY <1>5 DEF AddDuplicate, AddTurn, Return, Done
  <2>2. map_res \in Seq(Entry) /\ Mid + 1 \in 1 .. Len(map_res)
    BY <1>2 DEF IInv, TypeOK
  <2>3. [map_res[Mid + 1] EXCEPT !.cuda = call.cuda] \in Entry
    BY <1>5, <2>2, EntriesAreTyped DEF Entry, IInv
  <2>4. map_res' \in Seq(Entry) /\ Len(map_res') = Len(map_res)
    BY <2>1, <2>2, <2>3
  <2>5. \A i \in 1 .. Len(map_res) : map_res'[i].client = map_res[i].client
    BY <2>1, <2>2, <2>3, EntriesAreTyped DEF Entry, IInv
  <2>6. TypeOK'
    BY <1>2, <1>5, <2>1, <2>4 DEF IInv, TypeOK, Search, NoCall
  <2>7. Sorted'
    BY <2>4, <2>5 DEF IInv, Sorted
  <2> QED BY <2>1, <2>6, <2>7 DEF IInv, WindowHoldsKey
<1>6. call.cuda \in Targets
  BY <1>2 DEF IInv, TypeOK
<1> QED BY <1>3, <1>4, <1>5, <1>6 DEF AddTurn

(* The bisection ends with an empty window whose border is where the key   *)
(* belongs; the code's last comparison finds that place.                   *)
LEMMA InsertPositionIsBorder ==
  ASSUME IInv, call # NoCall, Exhausted
  PROVE  /\ InsertPosition \in 0 .. Len(map_res)
         /\ \A i \in 1 .. Len(map_res) :
              /\ i <= InsertPosition => map_res[i].client < call.client
              /\ i > InsertPosition => map_res[i].client > call.client
<1>1. /\ call \in Search /\ Len(map_res) \in Nat \ {0}
      /\ call.start \in 0 .. Len(map_res) /\ call.end \in -1 .. Len(map_res) - 1
      /\ call.end < call.start
  BY DEF IInv, TypeOK, Exhausted
<1>2. call.client \in Nat
  BY <1>1, HandlesAreNumbers DEF Search
<1>3. \A i \in 1 .. Len(map_res) : map_res[i].client \in Nat
  BY EntriesAreTyped DEF IInv
<1>4. \A i \in 1 .. Len(map_res) :
        /\ i <= call.start => map_res[i].client < call.client
        /\ i > call.end + 1 => map_res[i].client > call.client
  <2> SUFFICES ASSUME NEW i \in 1 .. Len(map_res)
               PROVE  /\ i <= call.start => map_res[i].client < call.client
                      /\ i > call.end + 1 => map_res[i].client > call.client
    OBVIOUS
  <2>1. i - 1 \in 0 .. Len(map_res) - 1
    BY <1>1
  <2>2. At(i - 1) = map_res[i]
    BY <1>1 DEF At
  <2> QED BY <1>1, <2>1, <2>2 DEF IInv, WindowHoldsKey
<1>5. call.start = call.end + 1
  <2> SUFFICES ASSUME call.start > call.end + 1 PROVE FALSE
    BY <1>1
  <2>1. call.end + 2 \in 1 .. Len(map_res)
    BY <1>1
  <2> DEFINE k == call.end + 2
  <2>2. k \in 1 .. Len(map_res) /\ k <= call.start /\ k > call.end + 1
    BY <1>1, <2>1
  <2> HIDE DEF k
  <2>3. map_res[k].client < call.client /\ map_res[k].client > call.client
    BY <1>4, <2>2
  <2> QED BY <1>2, <1>3, <2>2, <2>3
<1>6. InsertPosition = call.start
  <2>1. CASE call.end < 0
    <3>1. call.end = -1 /\ call.start = 0
      BY <1>1, <1>5, <2>1
    <3>2. map_res[1].client > call.client
      BY <1>1, <1>4, <3>1
    <3> QED BY <1>1, <1>2, <1>3, <3>1, <3>2 DEF InsertPosition, At
  <2>2. CASE call.end >= 0
    <3>1. call.end + 1 \in 1 .. Len(map_res) /\ call.end + 1 <= call.start
      BY <1>1, <1>5, <2>2
    <3>2. map_res[call.end + 1].client < call.client
      BY <1>4, <3>1
    <3> QED BY <1>1, <1>5, <2>2, <3>2 DEF InsertPosition, At
  <2> QED BY <1>1, <2>1, <2>2
<1> QED BY <1>1, <1>4, <1>5, <1>6

LEMMA AddInsertIInv == ASSUME IInv, AddInsert PROVE IInv'
<1> DEFINE p == InsertPosition + 1
           e == [client |-> call.client, cuda |-> call.cuda]
<1>1. call # NoCall /\ Exhausted /\ call.op = "add"
  BY DEF AddInsert, Running, NoCall
<1>2. call \in Search /\ call.cuda \in Targets /\ map_res \in Seq(Entry)
  BY <1>1 DEF IInv, TypeOK
<1>3. call.client \in Handles /\ call.client \in Nat
  BY <1>2, HandlesAreNumbers DEF Search
<1>4. e \in Entry
  BY <1>2, <1>3 DEF Entry
<1>5. /\ p \in 1 .. Len(map_res) + 1
      /\ \A i \in 1 .. Len(map_res) :
           /\ i < p => map_res[i].client < e.client
           /\ i >= p => map_res[i].client > e.client
  BY <1>1, <1>2, InsertPositionIsBorder
<1>6. \A i \in 1 .. Len(map_res) : map_res[i].client \in Nat
  BY EntriesAreTyped DEF IInv
<1>7. /\ map_res' = InsertAt(map_res, p, e)
      /\ call' = NoCall /\ UNCHANGED <<bypass, new_res>>
      /\ last' = [op |-> "add", client |-> call.client,
                  cuda |-> call.cuda, status |-> 0]
  BY DEF AddInsert, Return, Done
<1>8. e.client \in Nat
  BY <1>3
<1> HIDE DEF p, e
<1>9. /\ map_res' \in Seq(Entry) /\ Len(map_res') = Len(map_res) + 1
      /\ \A j \in 1 .. Len(map_res) + 1 :
           map_res'[j] = IF j < p THEN map_res[j]
                         ELSE IF j = p THEN e ELSE map_res[j - 1]
  <2>1. /\ map_res \in Seq(Entry) /\ e \in Entry
        /\ p \in 1 .. Len(map_res) + 1
    BY <1>2, <1>4, <1>5
  <2>2. InsertAt(map_res, p, e) \in Seq(Entry)
    BY <2>1, InsertAtIsShift
  <2>3. Len(InsertAt(map_res, p, e)) = Len(map_res) + 1
    BY <2>1, InsertAtIsShift
  <2>4. \A j \in 1 .. Len(map_res) + 1 :
          InsertAt(map_res, p, e)[j] = IF j < p THEN map_res[j]
                                       ELSE IF j = p THEN e ELSE map_res[j - 1]
    <3>1. Shifted(map_res, InsertAt(map_res, p, e), p, e)
      BY <2>1, InsertAtIsShift
    <3> QED BY <3>1 DEF Shifted
  <2> QED BY <1>7, <2>2, <2>3, <2>4, Zenon
<1>10. TypeOK'
  BY <1>2, <1>3, <1>7, <1>9 DEF IInv, TypeOK, NoCall
<1>11. Sorted'
  <2> SUFFICES ASSUME NEW i \in 1 .. Len(map_res) + 1,
                      NEW j \in 1 .. Len(map_res) + 1, i < j
               PROVE  map_res'[i].client < map_res'[j].client
    BY <1>9 DEF Sorted
  <2>1. Len(map_res) \in Nat /\ p \in Nat
    BY <1>2, <1>5
  <2>2. \A k, l \in 1 .. Len(map_res) :
          k < l => map_res[k].client < map_res[l].client
    BY DEF IInv, Sorted
  <2>3. CASE j < p
    <3>1. i \in 1 .. Len(map_res) /\ j \in 1 .. Len(map_res)
      BY <1>5, <2>1, <2>3
    <3>2. map_res'[i] = map_res[i] /\ map_res'[j] = map_res[j]
      BY <1>9, <2>1, <2>3
    <3> QED BY <2>2, <3>1, <3>2
  <2>4. CASE j = p
    <3>1. i \in 1 .. Len(map_res) /\ i < p
      BY <1>5, <2>1, <2>4
    <3>2. map_res'[i] = map_res[i] /\ map_res'[j] = e
      BY <1>9, <2>1, <2>4
    <3> QED BY <1>5, <3>1, <3>2
  <2>5. CASE i = p
    <3>1. j - 1 \in 1 .. Len(map_res) /\ j - 1 >= p
      BY <2>1, <2>5
    <3>2. map_res'[i] = e /\ map_res'[j] = map_res[j - 1]
      BY <1>9, <2>1, <2>5
    <3> QED BY <1>5, <1>6, <1>8, <3>1, <3>2
  <2>6. CASE i < p /\ j > p
    <3>1. i \in 1 .. Len(map_res) /\ j - 1 \in 1 .. Len(map_res) /\ j - 1 >= p
      BY <1>5, <2>1, <2>6
    <3>2. map_res'[i] = map_res[i] /\ map_res'[j] = map_res[j - 1]
      BY <1>9, <2>1, <2>6
    <3>3. map_res[i].client < e.client /\ map_res[j - 1].client > e.client
      BY <1>5, <2>6, <3>1
    <3> QED BY <1>6, <1>8, <3>1, <3>2, <3>3
  <2>7. CASE i > p
    <3>1. i - 1 \in 1 .. Len(map_res) /\ j - 1 \in 1 .. Len(map_res)
          /\ i - 1 < j - 1
      BY <1>5, <2>1, <2>7
    <3>2. map_res'[i] = map_res[i - 1] /\ map_res'[j] = map_res[j - 1]
      BY <1>9, <2>1, <2>7
    <3> QED BY <2>2, <3>1, <3>2
  <2> QED BY <2>1, <2>3, <2>4, <2>5, <2>6, <2>7
<1> QED BY <1>7, <1>10, <1>11 DEF IInv, WindowHoldsKey

------------------------------------------------------------------------------
LEMMA NextIInv == ASSUME IInv, [Next]_vars PROVE IInv'
<1>1. CASE UNCHANGED vars
  BY <1>1 DEF vars, IInv, TypeOK, Sorted, WindowHoldsKey, At
<1>2. CASE Next
  BY <1>2, GetIInv, CreateIInv, AddSortedIInv, SearchTurnIInv, GetMissIInv,
     AddTurnIInv, AddInsertIInv DEF Next, Step
<1> QED BY <1>1, <1>2

LEMMA IInvAlways == Spec => []IInv
<1>1. Init => IInv
  BY InitIInv
<1>2. IInv /\ [Next]_vars => IInv'
  BY NextIInv
<1> QED BY <1>1, <1>2, PTL DEF Spec

(* The window of a search never leaves the list: no call of                *)
(* resource_mg_search_map or resource_mg_add_sorted reads outside it, and  *)
(* the wrapped mid-1 of resource-mg.c:66 is never used as a bound.         *)
THEOREM TypeCorrect == Spec => []TypeOK
<1>1. IInv => TypeOK
  BY DEF IInv
<1> QED BY <1>1, IInvAlways, PTL

(* resource_mg_add_sorted keeps map_res sorted by client address and free  *)
(* of duplicates, for any handles added in any order.                      *)
THEOREM SortedAlways == Spec => []Sorted
<1>1. IInv => Sorted
  BY DEF IInv
<1> QED BY <1>1, IInvAlways, PTL

(* Neither loop ever bisects away the entry with the key.                  *)
THEOREM WindowAlwaysHoldsKey == Spec => []WindowHoldsKey
<1>1. IInv => WindowHoldsKey
  BY DEF IInv
<1> QED BY <1>1, IInvAlways, PTL

(* Every turn of either loop that does not return makes the window         *)
(* smaller, so the loops of resource-mg.c:57-75 and 132-149 end.           *)
THEOREM WindowAlwaysShrinks == Spec => WindowShrinks
<1> DEFINE Shrinks == call # NoCall /\ call' # NoCall =>
                        call'.end - call'.start < call.end - call.start
<1>1. ASSUME IInv, Next PROVE [Shrinks]_vars
  <2> SUFFICES ASSUME call # NoCall, call' # NoCall
               PROVE  call'.end - call'.start < call.end - call.start
    OBVIOUS
  <2>1. SearchTurn \/ AddTurn
    BY <1>1 DEF Next, Step, Get, Create, AddSorted, GetMiss, AddInsert, Return
  <2>2. ~Exhausted
    BY <2>1 DEF SearchTurn, AddTurn
  <2>3. /\ UNCHANGED <<bypass, map_res, new_res, last>>
        /\ \/ At(Mid).client > call.client /\ GoLeft
           \/ At(Mid).client < call.client /\ GoRight
    BY <2>1 DEF SearchTurn, AddTurn, GetLeft, GetRight, GetHit, AddLeft,
                AddRight, AddDuplicate, Return
  <2> QED BY <1>1, <2>2, <2>3, NarrowingKeepsIInv
<1>2. IInv /\ [Next]_vars => [Shrinks]_vars
  BY <1>1
<1> QED BY <1>2, IInvAlways, PTL DEF Spec, WindowShrinks

------------------------------------------------------------------------------
(* The sorted list as the map it stands for.                               *)
Ordered(s) == \A i, j \in 1 .. Len(s) : i < j => s[i].client < s[j].client

LEMMA MapAt ==
  ASSUME NEW s \in Seq(Entry), Ordered(s), NEW i \in 1 .. Len(s)
  PROVE  s[i].client \in ClientsOf(s) /\ MapOf(s)[s[i].client] = s[i].cuda
<1>1. s[i].client \in ClientsOf(s)
  BY DEF ClientsOf
<1>2. \A j \in 1 .. Len(s) : s[j].client \in Nat
  <2>1. \A j \in 1 .. Len(s) : s[j] \in Entry
    OBVIOUS
  <2> QED BY <2>1, HandlesAreNumbers DEF Entry
<1>3. ASSUME NEW j \in 1 .. Len(s), s[j].client = s[i].client PROVE j = i
  <2>1. ~(j < i) /\ ~(i < j)
    BY <1>2, <1>3 DEF Ordered
  <2> QED BY <2>1
<1>4. (CHOOSE j \in 1 .. Len(s) : s[j].client = s[i].client) = i
  BY <1>3
<1> QED BY <1>1, <1>4 DEF MapOf

(* Lists that differ in what they say of one handle only.                  *)
Changes(s, t, c, d) ==
  /\ \E j \in 1 .. Len(t) : t[j] = [client |-> c, cuda |-> d]
  /\ \A i \in 1 .. Len(s) : s[i].client # c => \E j \in 1 .. Len(t) : t[j] = s[i]
  /\ \A j \in 1 .. Len(t) : t[j].client # c => \E i \in 1 .. Len(s) : s[i] = t[j]

Put(map, c, d) == [h \in DOMAIN map \cup {c} |-> IF h = c THEN d ELSE map[h]]

LEMMA MapOfChange ==
  ASSUME NEW s \in Seq(Entry), Ordered(s), NEW t \in Seq(Entry), Ordered(t),
         NEW c \in Handles, NEW d \in Targets, Changes(s, t, c, d)
  PROVE  MapOf(t) = Put(MapOf(s), c, d)
<1>1. DOMAIN MapOf(s) = ClientsOf(s) /\ DOMAIN MapOf(t) = ClientsOf(t)
  BY DEF MapOf
<1>2. ClientsOf(t) = ClientsOf(s) \cup {c}
  <2>1. c \in ClientsOf(t)
    BY DEF Changes, ClientsOf
  <2>2. ASSUME NEW i \in 1 .. Len(s), s[i].client # c PROVE s[i].client \in ClientsOf(t)
    BY <2>2 DEF Changes, ClientsOf
  <2>3. ASSUME NEW j \in 1 .. Len(t), t[j].client # c PROVE t[j].client \in ClientsOf(s)
    BY <2>3 DEF Changes, ClientsOf
  <2> QED BY <2>1, <2>2, <2>3 DEF ClientsOf
<1>3. MapOf(t)[c] = d
  <2>1. PICK j \in 1 .. Len(t) : t[j] = [client |-> c, cuda |-> d]
    BY DEF Changes
  <2> QED BY <2>1, MapAt
<1>4. ASSUME NEW h \in ClientsOf(s), h # c PROVE MapOf(t)[h] = MapOf(s)[h]
  <2>1. PICK i \in 1 .. Len(s) : s[i].client = h
    BY DEF ClientsOf
  <2>2. PICK j \in 1 .. Len(t) : t[j] = s[i]
    BY <1>4, <2>1 DEF Changes
  <2> QED BY <2>1, <2>2, MapAt
<1>5. MapOf(t) = [h \in ClientsOf(t) |-> MapOf(t)[h]]
  BY DEF MapOf
<1> HIDE DEF MapOf
<1> QED BY <1>1, <1>2, <1>3, <1>4, <1>5 DEF Put

LEMMA NotInMap ==
  ASSUME NEW h, \A i \in 1 .. Len(map_res) : map_res[i].client # h
  PROVE  h \notin DOMAIN MapOf(map_res)
BY DEF MapOf, ClientsOf

MapStep == [Promise!Next]_(Promise!absVars)

(* A search that has not returned is not seen.                             *)
LEMMA Stutters ==
  ASSUME UNCHANGED <<bypass, map_res, new_res, last>> PROVE MapStep
BY DEF MapStep, Promise!absVars

LEMMA ReturnsFound ==
  ASSUME UNCHANGED <<bypass, map_res, new_res>>, NEW c \in Handles, NEW d,
         d = Promise!Translation(c), Return("get", c, d, 0)
  PROVE  MapStep
<1>1. Promise!Get(c)
  BY DEF Promise!Get, Promise!Call, Return, Done
<1> QED BY <1>1 DEF MapStep, Promise!Next

LEMMA GetImplements == ASSUME IInv, NEW c \in Handles, Get(c) PROVE MapStep
<1>1. CASE bypass \/ map_res = <<>>
  <2>1. c = Promise!Translation(c)
    BY <1>1, NotInMap DEF Promise!Translation
  <2> QED BY <1>1, <2>1, ReturnsFound DEF Get
<1>2. CASE ~(bypass \/ map_res = <<>>)
  BY <1>2, Stutters DEF Get
<1> QED BY <1>1, <1>2

LEMMA CreateImplements == ASSUME NEW d \in Targets, Create(d) PROVE MapStep
<1>1. Promise!Create(d)
  BY DEF Create, Promise!Create, Promise!Call, Return, Done
<1> QED BY <1>1 DEF MapStep, Promise!Next

LEMMA MissReturns ==
  ASSUME IInv, call \in Search, UNCHANGED <<bypass, map_res, new_res>>,
         \A i \in 1 .. Len(map_res) : map_res[i].client # call.client,
         Return("get", call.client, call.client, 0)
  PROVE  MapStep
<1>1. call.client \in Handles
  BY DEF Search
<1>2. call.client = Promise!Translation(call.client)
  BY NotInMap DEF Promise!Translation
<1> QED BY <1>1, <1>2, ReturnsFound

LEMMA SearchTurnImplements == ASSUME IInv, SearchTurn PROVE MapStep
<1>1. call # NoCall /\ ~Exhausted
  BY DEF SearchTurn, Running, NoCall
<1>2. /\ call \in Search /\ Mid \in 0 .. Len(map_res) - 1
      /\ At(Mid).client \in Nat /\ call.client \in Nat
      /\ call.client \in Handles
  BY <1>1, MidIsInWindow DEF IInv, Search
<1>3. map_res \in Seq(Entry) /\ ~bypass /\ Ordered(map_res)
  BY <1>1 DEF IInv, TypeOK, Sorted, Ordered
<1>4. CASE GetLeft /\ Mid = 0
  <2>1. ASSUME NEW i \in 1 .. Len(map_res) PROVE map_res[i].client # call.client
    <3>1. map_res[i].client \in Nat /\ map_res[1].client \in Nat
      BY <1>2, EntriesAreTyped DEF IInv
    <3>2. map_res[1].client > call.client
      BY <1>4 DEF GetLeft, At
    <3>3. i = 1 \/ map_res[1].client < map_res[i].client
      BY <1>2, <1>3 DEF Ordered
    <3> QED BY <1>2, <3>1, <3>2, <3>3
  <2> QED BY <1>2, <1>4, <2>1, MissReturns DEF GetLeft, SearchTurn
<1>5. CASE (GetLeft /\ Mid # 0) \/ GetRight
  BY <1>5, Stutters DEF GetLeft, GetRight, SearchTurn
<1>6. CASE GetHit
  <2>1. At(Mid) = map_res[Mid + 1] /\ Mid + 1 \in 1 .. Len(map_res)
    BY <1>2, <1>3 DEF At
  <2>2. /\ call.client \in ClientsOf(map_res)
        /\ MapOf(map_res)[call.client] = At(Mid).cuda
    BY <1>3, <1>6, <2>1, MapAt DEF GetHit
  <2>3. At(Mid).cuda = Promise!Translation(call.client)
    BY <1>3, <2>2 DEF Promise!Translation, MapOf
  <2> QED BY <1>2, <1>6, <2>3, ReturnsFound DEF GetHit, SearchTurn
<1> QED BY <1>4, <1>5, <1>6 DEF SearchTurn

LEMMA GetMissImplements == ASSUME IInv, GetMiss PROVE MapStep
<1>1. call # NoCall /\ Exhausted
  BY DEF GetMiss, Running, NoCall
<1>2. /\ call \in Search /\ map_res \in Seq(Entry)
      /\ call.start \in 0 .. Len(map_res) /\ call.end \in -1 .. Len(map_res) - 1
      /\ call.end < call.start /\ call.client \in Nat
  BY <1>1, HandlesAreNumbers DEF IInv, TypeOK, Exhausted, Search
<1>3. ASSUME NEW i \in 1 .. Len(map_res) PROVE map_res[i].client # call.client
  <2>1. i - 1 \in 0 .. Len(map_res) - 1 /\ At(i - 1) = map_res[i]
    BY <1>2 DEF At
  <2>2. map_res[i].client < call.client \/ map_res[i].client > call.client
    BY <1>1, <1>2, <2>1 DEF IInv, WindowHoldsKey
  <2>3. map_res[i].client \in Nat
    BY EntriesAreTyped DEF IInv
  <2> QED BY <1>2, <2>2, <2>3
<1> QED BY <1>2, <1>3, MissReturns DEF GetMiss

(* What adding a handle makes of the list, wherever it is put.             *)
LEMMA Adds ==
  ASSUME IInv, IInv', ~bypass, UNCHANGED <<bypass, new_res>>,
         NEW c \in Handles, NEW d \in Targets, Return("add", c, d, 0),
         Changes(map_res, map_res', c, d)
  PROVE  MapStep
<1>1. map_res \in Seq(Entry) /\ map_res' \in Seq(Entry)
  BY DEF IInv, TypeOK
<1>2. Ordered(map_res) /\ Ordered(map_res')
  BY DEF IInv, Sorted, Ordered
<1>3. MapOf(map_res') = Put(MapOf(map_res), c, d)
  BY <1>1, <1>2, MapOfChange
<1>4. Promise!Add(c, d)
  BY <1>3 DEF Put, Promise!Add, Promise!Call, Return, Done
<1> QED BY <1>4 DEF MapStep, Promise!Next

LEMMA AddSortedImplements ==
  ASSUME IInv, IInv', NEW c \in Handles, NEW d \in Targets, AddSorted(c, d)
  PROVE  MapStep
<1>1. CASE bypass
  <2>1. Promise!RefuseAdd(c, d)
    BY <1>1 DEF AddSorted, Promise!RefuseAdd, Promise!Call, Return, Done
  <2> QED BY <2>1 DEF MapStep, Promise!Next
<1>2. CASE ~bypass /\ map_res = <<>>
  <2>1. /\ map_res' = <<[client |-> c, cuda |-> d]>>
        /\ Return("add", c, d, 0) /\ UNCHANGED <<bypass, new_res>>
    BY <1>2 DEF AddSorted
  <2>2. Len(map_res) = 0 /\ Len(map_res') = 1 /\ map_res'[1] = [client |-> c, cuda |-> d]
    BY <1>2, <2>1
  <2>3. \A j \in 1 .. Len(map_res') : map_res'[j].client = c
    BY <2>2
  <2>4. Changes(map_res, map_res', c, d)
    BY <2>2, <2>3 DEF Changes
  <2> QED BY <1>2, <2>1, <2>4, Adds
<1>3. CASE ~bypass /\ map_res # <<>>
  BY <1>3, Stutters DEF AddSorted
<1> QED BY <1>1, <1>2, <1>3

LEMMA AddTurnImplements == ASSUME IInv, IInv', AddTurn PROVE MapStep
<1>1. CASE AddLeft \/ AddRight
  BY <1>1, Stutters DEF AddLeft, AddRight, AddTurn
<1>2. CASE AddDuplicate
  <2>1. call # NoCall /\ ~Exhausted /\ call.op = "add"
    BY DEF AddTurn, Running, NoCall
  <2>2. /\ call \in Search /\ Mid \in 0 .. Len(map_res) - 1
        /\ call.client \in Handles /\ call.cuda \in Targets /\ ~bypass
        /\ map_res \in Seq(Entry)
    BY <2>1, MidIsInWindow DEF IInv, TypeOK, Search
  <2> DEFINE m == Mid + 1
  <2>3. m \in 1 .. Len(map_res) /\ map_res[m].client = call.client /\ map_res[m] \in Entry
    BY <1>2, <2>2 DEF AddDuplicate, At
  <2>4. map_res' = [map_res EXCEPT ![m].cuda = call.cuda]
    BY <1>2 DEF AddDuplicate
  <2> HIDE DEF m
  <2>5. /\ Len(map_res') = Len(map_res)
        /\ map_res'[m] = [client |-> call.client, cuda |-> call.cuda]
        /\ \A i \in 1 .. Len(map_res) : i # m => map_res'[i] = map_res[i]
    BY <2>2, <2>3, <2>4 DEF Entry
  <2>6. \A i \in 1 .. Len(map_res) : map_res[i].client # call.client => i # m
    BY <2>3
  <2>7. \A i \in 1 .. Len(map_res') : map_res'[i].client # call.client => i # m
    BY <2>5
  <2>8. Changes(map_res, map_res', call.client, call.cuda)
    BY <2>3, <2>5, <2>6, <2>7 DEF Changes
  <2> QED BY <1>2, <2>2, <2>8, Adds DEF AddDuplicate, AddTurn
<1> QED BY <1>1, <1>2 DEF AddTurn

LEMMA AddInsertImplements == ASSUME IInv, IInv', AddInsert PROVE MapStep
<1> DEFINE p == InsertPosition + 1
           e == [client |-> call.client, cuda |-> call.cuda]
<1>1. call # NoCall /\ Exhausted /\ call.op = "add"
  BY DEF AddInsert, Running, NoCall
<1>2. /\ call.client \in Handles /\ call.cuda \in Targets
      /\ map_res \in Seq(Entry) /\ ~bypass
  BY <1>1 DEF IInv, TypeOK, Search
<1>3. p \in 1 .. Len(map_res) + 1 /\ e \in Entry
  BY <1>1, <1>2, InsertPositionIsBorder DEF Entry
<1>4. map_res' = InsertAt(map_res, p, e)
  BY DEF AddInsert
<1>5. e.client = call.client
  OBVIOUS
<1>6. Return("add", call.client, call.cuda, 0) /\ UNCHANGED <<bypass, new_res>>
  BY DEF AddInsert
<1>7. e = [client |-> call.client, cuda |-> call.cuda]
  OBVIOUS
<1> HIDE DEF p, e
<1>8. Len(map_res') = Len(map_res) + 1
  BY <1>2, <1>3, <1>4, InsertAtIsShift
<1>9. \A j \in 1 .. Len(map_res) + 1 :
        map_res'[j] = IF j < p THEN map_res[j] ELSE IF j = p THEN e ELSE map_res[j - 1]
  <2>1. /\ map_res \in Seq(Entry) /\ e \in Entry
        /\ p \in 1 .. Len(map_res) + 1
    BY <1>2, <1>3
  <2>2. \A j \in 1 .. Len(map_res) + 1 :
          InsertAt(map_res, p, e)[j] = IF j < p THEN map_res[j]
                                       ELSE IF j = p THEN e ELSE map_res[j - 1]
    <3>1. Shifted(map_res, InsertAt(map_res, p, e), p, e)
      BY <2>1, InsertAtIsShift
    <3> QED BY <3>1 DEF Shifted
  <2> QED BY <1>4, <2>2, Zenon
<1>10. Len(map_res) \in Nat
  BY <1>2
<1>11. map_res'[p] = e /\ p \in 1 .. Len(map_res')
  BY <1>3, <1>8, <1>9, <1>10
<1>12. ASSUME NEW i \in 1 .. Len(map_res)
       PROVE  \E j \in 1 .. Len(map_res') : map_res'[j] = map_res[i]
  <2>1. CASE i < p
    BY <1>8, <1>9, <1>10, <2>1
  <2>2. CASE i >= p
    <3>1. i + 1 \in 1 .. Len(map_res) + 1 /\ ~(i + 1 < p) /\ i + 1 # p /\ i + 1 - 1 = i
      BY <1>3, <1>10, <2>2
    <3>2. map_res'[i + 1] = map_res[i]
      BY <1>9, <3>1
    <3> QED BY <1>8, <3>1, <3>2
  <2> QED BY <1>3, <1>10, <2>1, <2>2
<1>13. ASSUME NEW j \in 1 .. Len(map_res'), j # p
       PROVE  \E i \in 1 .. Len(map_res) : map_res[i] = map_res'[j]
  <2>1. CASE j < p
    BY <1>3, <1>8, <1>9, <1>10, <2>1
  <2>2. CASE j > p
    <3>1. j - 1 \in 1 .. Len(map_res) /\ j \in 1 .. Len(map_res) + 1
      BY <1>3, <1>8, <1>10, <2>2
    <3>2. map_res'[j] = map_res[j - 1]
      BY <1>3, <1>9, <1>10, <2>2, <3>1
    <3> QED BY <3>1, <3>2
  <2> QED BY <1>3, <1>8, <1>10, <1>13, <2>1, <2>2
<1>14. \A j \in 1 .. Len(map_res') : map_res'[j].client # call.client => j # p
  BY <1>5, <1>11
<1>15. Changes(map_res, map_res', call.client, call.cuda)
  BY <1>7, <1>11, <1>12, <1>13, <1>14 DEF Changes
<1> QED BY <1>2, <1>6, <1>15, Adds

(* The sorted list and its two loops are, seen from the handlers, the map  *)
(* that resource-mg.h:22-34 promises: every call answers as the map does,  *)
(* in one step, and no step between is seen.                               *)
THEOREM ImplementsTheMap == Spec => ImplementsHandleMap
<1>1. Init => Promise!Init
  <2> SUFFICES ASSUME Init PROVE Promise!Init
    OBVIOUS
  <2>1. ClientsOf(map_res) = {}
    BY DEF Init, ClientsOf
  <2>2. MapOf(map_res) = [h \in {} |-> h]
    BY <2>1 DEF MapOf
  <2> QED BY <2>2 DEF Init, Done, Promise!Init, Promise!Call
<1>2. IInv /\ IInv' /\ [Next]_vars => [Promise!Next]_(Promise!absVars)
  <2> SUFFICES ASSUME IInv, IInv', [Next]_vars PROVE MapStep
    BY DEF MapStep
  <2>1. CASE UNCHANGED vars
    BY <2>1, Stutters DEF vars
  <2>2. CASE Next
    BY <2>2, GetImplements, CreateImplements, SearchTurnImplements, GetMissImplements,
       AddSortedImplements, AddTurnImplements, AddInsertImplements DEF Next, Step
  <2> QED BY <2>1, <2>2
<1> QED BY <1>1, <1>2, IInvAlways, PTL DEF Spec, ImplementsHandleMap, Promise!Spec
==============================================================================
