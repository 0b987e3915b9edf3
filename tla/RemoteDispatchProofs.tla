------------------------- MODULE RemoteDispatchProofs -------------------------
(***************************************************************************)
(* Theorems about RemoteDispatch for every set of threads, tensors and     *)
(* contents, every meaning of the operations, and every bound.             *)
(*                                                                         *)
(* The argument: what a thread has packed is still what its argument holds *)
(* when the answer is used, because the program does not race with itself  *)
(* (Alone), and the answer it uses is the one to its own call, because a   *)
(* thread has at most one job, in one place, while it waits (Jobs).        *)
(***************************************************************************)
EXTENDS RemoteDispatch, FiniteSetTheorems, SequenceTheorems, TLAPS

Places == {"idle", "dispatch", "call_op", "packed", "waiting", "unpacked"}
CallRecord == [at : Places, kind : AllKinds, arg : Tensors, plain : BOOLEAN,
               level : Nat, via : Nat, sent : Values \cup {0}]
AnswerRecord == [came : BOOLEAN, error : BOOLEAN, value : Values \cup {0}]
Shape ==
  /\ call \in [Threads -> CallRecord]
  /\ answer \in [Threads -> AnswerRecord]
  /\ box \in [Threads -> Values \cup {0}]
  /\ \A t \in Threads : At(t, "idle") => call[t].level = 0

(* A job is queued, worked on or answered, one of them and once, and only  *)
(* while its thread waits for it.                                          *)
Jobs ==
  /\ IsFiniteSet(working)
  /\ \A t \in working : At(t, "waiting") /\ ~ answer[t].came
  /\ \A i \in DOMAIN queue :
       queue[i] # Nobody =>
         /\ At(queue[i], "waiting") /\ ~ answer[queue[i]].came
         /\ queue[i] \notin working
         /\ \A j \in DOMAIN queue : queue[j] = queue[i] => j = i

(* What is sent, answered and unpacked belongs to the thread's call.       *)
Carried ==
  \A t \in Threads :
    /\ At(t, "packed") \/ At(t, "waiting") => call[t].sent \in Values
    /\ answer[t].came => answer[t].value = Result(call[t].kind, call[t].sent)
    /\ At(t, "unpacked") => box[t] \in Values

(* A storage has a name that was new when it was made, and there is a name *)
(* left for every operation that has begun.                                *)
IsWorld(s, h) ==
  /\ s \in [DOMAIN s -> DOMAIN h] /\ h \in [DOMAIN h -> Values]
  /\ DOMAIN h \subseteq DOMAIN s /\ DOMAIN s \subseteq Tensors
Running == {t \in Threads : call[t].at # "idle"}
Worlds ==
  /\ IsWorld(store, heap) /\ IsWorld(ideal.store, ideal.heap)
  /\ ideal = [store |-> ideal.store, heap |-> ideal.heap]
  /\ DOMAIN ideal.store = DOMAIN store /\ First \in DOMAIN store
Names ==
  /\ IsFiniteSet(DOMAIN store) /\ IsFiniteSet(Running)
  /\ Cardinality(DOMAIN store) + Cardinality(Running) <= ops + 1
  /\ ops <= MaxOps

(* Before the first divergence the program is where it would be alone, and *)
(* what is under way was computed from contents that are still there.      *)
Alone ==
  ~ diverted =>
    /\ ideal = Real
    /\ \A t \in Threads :
         LET now == heap[store[call[t].arg]]
         IN  /\ At(t, "packed") \/ At(t, "waiting") => call[t].sent = now
             /\ At(t, "unpacked") => box[t] = Result(call[t].kind, now)
    /\ \A t, u \in Running :
         t # u /\ "in_place" \in {call[t].kind, call[u].kind}
           => store[call[t].arg] # store[call[u].arg]

(* TypeOK in the parts that the actions disturb one at a time. *)
Counted == modes = [t \in Threads |-> withs[t] + IF t = Main /\ active THEN 1 ELSE 0]
LinkOK ==
  /\ withs \in [Threads -> {0, 1}] /\ active \in BOOLEAN
  /\ Counted /\ control \in {"none", "disconnect", "clear", "connect", "install"}
  /\ enabling \in BOOLEAN
  /\ opened \in Nat /\ channel \in 0 .. opened /\ stub \in {0, channel}
  /\ closed \subseteq 1 .. opened
CallOK(t) ==
  /\ call[t].arg \in DOMAIN store
  /\ call[t].level \in 0 .. modes[t] /\ call[t].via \in 0 .. opened
  /\ call[t].at \in {"call_op", "packed", "waiting", "unpacked"} => call[t].level > 0
  /\ answer[t].came => call[t].at = "waiting" /\ answer[t].value \in Values
PoolOK ==
  /\ queue \in Seq(Threads \cup {Nobody}) /\ working \subseteq Threads
  /\ strays \in Nat /\ strays + Cardinality(working) <= Workers
CountsOK == diverted \in BOOLEAN /\ ops \in Nat /\ faults \in Nat

IInv ==
  /\ LinkOK /\ (\A t \in Threads : CallOK(t)) /\ PoolOK /\ CountsOK
  /\ Shape /\ Jobs /\ Carried /\ Worlds /\ Names /\ Alone

LEMMA WorldsAreTyped ==
  ASSUME NEW s, NEW h, IsWorld(s, h)
  PROVE  [store |-> s, heap |-> h] \in World
<1>1. s \in [DOMAIN s -> Tensors] /\ h \in [DOMAIN h -> Values]
  BY DEF IsWorld
<1>2. DOMAIN s \in SUBSET Tensors /\ DOMAIN h \in SUBSET Tensors
  BY DEF IsWorld
<1>3. s \in Map(Tensors, Tensors) /\ h \in Map(Tensors, Values)
  BY <1>1, <1>2 DEF Map
<1> QED BY <1>3 DEF World

LEMMA IInvImpliesTypeOK == IInv => TypeOK
<1> SUFFICES ASSUME IInv PROVE TypeOK
  OBVIOUS
<1>1. Real \in World /\ ideal \in World
  BY WorldsAreTyped DEF IInv, Worlds, Real
<1>2. \A t \in Threads : call[t].at \in Places /\ call[t].kind \in AllKinds
  BY DEF IInv, Shape, CallRecord
<1> QED BY <1>1, <1>2 DEF IInv, TypeOK, LinkOK, Counted, CallOK, PoolOK, CountsOK, Real, Places

(* A program that is where it would be alone has the contents it would have. *)
LEMMA IInvImpliesOnlyEffectsDiffer == IInv => OnlyEffectsDiffer
<1> SUFFICES ASSUME IInv, ~ diverted PROVE Identical
  BY DEF OnlyEffectsDiffer
<1> QED BY DEF IInv, Alone, Real, Identical

LEMMA FirstIsATensor == First \in Tensors
<1>1. Tensors # {}
  BY NamesAreEnough, BoundsAreNumbers, FS_EmptySet
<1> QED BY <1>1 DEF First

(* There is a name left for the operation that ends. *)
LEMMA FreshIsNew ==
  ASSUME IInv, NEW t \in Threads, call[t].at # "idle"
  PROVE  Fresh \in Tensors /\ Fresh \notin DOMAIN store
<1>1. Running # {} /\ IsFiniteSet(Running)
  BY DEF IInv, Running, Names
<1>2. Cardinality(Running) \in Nat /\ Cardinality(Running) # 0
  BY <1>1, FS_EmptySet, FS_CardinalityType
<1>3. Cardinality(DOMAIN store) \in Nat /\ Cardinality(Tensors) \in Nat
  BY NamesAreEnough, FS_CardinalityType DEF IInv, Names
<1>4. Cardinality(DOMAIN store) < Cardinality(Tensors)
  BY <1>2, <1>3, NamesAreEnough, BoundsAreNumbers DEF IInv, Names, CountsOK
<1>5. DOMAIN store \subseteq Tensors
  BY DEF IInv, Worlds, IsWorld
<1>6. DOMAIN store # Tensors
  BY <1>3, <1>4
<1> QED BY <1>5, <1>6 DEF Fresh

LEMMA InitIInv == Init => IInv
<1> SUFFICES ASSUME Init PROVE IInv
  OBVIOUS
<1> USE DEF Init
<1>1. LinkOK
  <2>1. active = FALSE /\ active \in BOOLEAN /\ enabling \in BOOLEAN
    OBVIOUS
  <2>2. modes = [t \in Threads |-> withs[t] + IF t = Main /\ active THEN 1 ELSE 0]
    BY <2>1
  <2>3. withs \in [Threads -> {0, 1}]
    OBVIOUS
  <2> QED BY <2>1, <2>2, <2>3 DEF LinkOK, Counted
<1>2. First \in Tensors /\ DOMAIN store = {First} /\ store[First] = First
  BY FirstIsATensor
<1>3. \A t \in Threads : call[t] = NoCall(First) /\ answer[t] = NoAnswer /\ modes[t] = 0
  OBVIOUS
<1>4. \A t \in Threads : CallOK(t)
  BY <1>2, <1>3 DEF CallOK, NoCall, NoAnswer
<1>5. PoolOK
  BY WorkersAreANumber, FS_EmptySet DEF PoolOK
<1>6. CountsOK
  BY DEF CountsOK
<1>7. Shape
  BY <1>2, <1>3 DEF Shape, CallRecord, AnswerRecord, NoCall, NoAnswer, Places, AllKinds, At
<1>8. Jobs
  BY FS_EmptySet DEF Jobs
<1>9. Carried
  BY <1>3 DEF Carried, NoCall, NoAnswer, At
<1>10. Worlds
  BY <1>2 DEF Worlds, IsWorld
<1>11. Names
  <2>1. Running = {}
    BY <1>3 DEF Running, NoCall
  <2>2. IsFiniteSet(DOMAIN store) /\ Cardinality(DOMAIN store) = 1
    BY <1>2, FS_Singleton
  <2> QED BY <2>1, <2>2, FS_EmptySet, BoundsAreNumbers DEF Names
<1>12. Alone
  BY <1>3 DEF Alone, Real, NoCall, At, Running
<1> QED BY <1>1, <1>4, <1>5, <1>6, <1>7, <1>8, <1>9, <1>10, <1>11, <1>12 DEF IInv
------------------------------------------------------------------------------
(* Steps that touch modes and connection only. *)
LEMMA LinksKeepIInv ==
  ASSUME IInv, LinkOK', opened <= opened',
         \A t \in Threads : call[t].level <= modes'[t],
         UNCHANGED <<serverVars, programVars, call, box, ops, faults>>
  PROVE  IInv'
<1> USE DEF IInv, serverVars, programVars
<1>1. \A t \in Threads : CallOK(t)'
  <2>1. \A t \in Threads : modes'[t] \in Int /\ modes[t] \in Int
    BY DEF LinkOK, Counted
  <2>2. opened \in Int /\ opened' \in Int
    BY DEF LinkOK
  <2> QED BY <2>1, <2>2 DEF CallOK
<1>2. PoolOK' /\ CountsOK'
  BY DEF PoolOK, CountsOK
<1>3. Shape' /\ Jobs' /\ Carried'
  BY DEF Shape, Jobs, Carried, At
<1>4. Worlds' /\ Names' /\ Alone'
  BY DEF Worlds, Names, Running, Alone, Real, At
<1> QED BY <1>1, <1>2, <1>3, <1>4

LEMMA InstallKeepsCount ==
  ASSUME LinkOK, install, UNCHANGED withs
  PROVE  Counted' /\ active' \in BOOLEAN /\ \A t \in Threads : modes'[t] >= modes[t]
<1> USE MainIsAThread DEF LinkOK, Counted
<1>1. active' = TRUE /\ withs' = withs /\ \A t \in Threads : withs[t] \in Int
  BY DEF install
<1>2. modes' = [t \in Threads |-> modes'[t]]
  BY DEF install
<1>3. \A t \in Threads : /\ modes'[t] = withs[t] + IF t = Main THEN 1 ELSE 0
                         /\ modes'[t] >= modes[t]
  <2>1. CASE active
    <3>1. modes' = modes
      BY <2>1 DEF install
    <3> QED BY <1>1, <2>1, <3>1
  <2>2. CASE ~ active
    <3>1. modes' = [modes EXCEPT ![Main] = @ + 1]
      BY <2>2 DEF install
    <3>2. \A t \in Threads : modes[t] = withs[t]
      BY <1>1, <2>2
    <3> QED BY <1>1, <3>1, <3>2
  <2> QED BY <2>1, <2>2
<1> HIDE DEF LinkOK, Counted
<1>4. modes' = [t \in Threads |-> withs'[t] + IF t = Main THEN 1 ELSE 0]
  BY <1>1, <1>2, <1>3
<1> QED BY <1>1, <1>3, <1>4 DEF Counted

LEMMA UninstallKeepsCount ==
  ASSUME LinkOK, disable
  PROVE  Counted' /\ active' \in BOOLEAN /\ \A t \in Threads \ {Main} : modes'[t] = modes[t]
<1> USE MainIsAThread DEF LinkOK, Counted
<1>1. withs' = withs /\ \A t \in Threads : withs[t] \in Int
  BY DEF disable
<1>2. modes' = [t \in Threads |-> modes'[t]]
  BY DEF disable
<1>3. \A t \in Threads : /\ modes'[t] = withs[t]
                         /\ t # Main => modes'[t] = modes[t]
  <2>1. CASE active
    <3>1. modes' = [modes EXCEPT ![Main] = @ - 1]
      BY <2>1 DEF disable
    <3>2. \A t \in Threads : modes[t] = withs[t] + IF t = Main THEN 1 ELSE 0
      BY <1>1, <2>1
    <3> QED BY <1>1, <3>1, <3>2
  <2>2. CASE ~ active
    <3>1. modes' = modes
      BY <2>2 DEF disable
    <3> QED BY <1>1, <2>2, <3>1
  <2> QED BY <2>1, <2>2
<1> HIDE DEF LinkOK, Counted
<1>4. active' \in BOOLEAN
  BY DEF disable
<1>5. ~ active'
  BY DEF disable
<1>6. \A t \in Threads : modes'[t] = withs'[t] + IF t = Main /\ active' THEN 1 ELSE 0
  <2>1. \A t \in Threads : modes'[t] = withs'[t] + 0
    BY <1>1, <1>3
  <2> QED BY <1>5, <2>1
<1>7. modes' = [t \in Threads |-> withs'[t] + IF t = Main /\ active' THEN 1 ELSE 0]
  BY <1>2, <1>6
<1>8. Counted'
  BY <1>7 DEF Counted
<1>9. \A t \in Threads \ {Main} : modes'[t] = modes[t]
  BY <1>3
<1> QED BY <1>4, <1>8, <1>9, Zenon

LEMMA ContextKeepsCount ==
  ASSUME LinkOK, NEW t \in Threads, intercept(t)
  PROVE  /\ Counted' /\ withs' \in [Threads -> {0, 1}]
         /\ \A u \in Threads \ {t} : modes'[u] = modes[u]
<1> USE DEF LinkOK, Counted, intercept
<1>1. withs' \in [Threads -> {0, 1}]
  OBVIOUS
<1>2. /\ \A u \in Threads : modes'[u] - withs'[u] = modes[u] - withs[u]
      /\ \A u \in Threads \ {t} : modes'[u] = modes[u]
  OBVIOUS
<1>3. active' = active /\ modes' = [u \in Threads |-> modes'[u]]
  OBVIOUS
<1>4. \A u \in Threads : modes'[u] = withs'[u] + IF u = Main /\ active THEN 1 ELSE 0
  BY <1>1, <1>2
<1>5. modes' = [u \in Threads |-> withs'[u] + IF u = Main /\ active THEN 1 ELSE 0]
  BY <1>3, <1>4
<1> QED BY <1>1, <1>2, <1>3, <1>5 DEF Counted

LEMMA LinkStepsKeepIInv ==
  ASSUME IInv,
         \/ enable_locally \/ enable_remotely \/ disable \/ ControlStep
         \/ \E t \in Threads : intercept(t)
  PROVE  IInv'
<1> USE MainIsAThread DEF IInv
<1>1. \A t \in Threads : call[t].level \in 0 .. modes[t]
                       /\ (At(t, "idle") => call[t].level = 0)
  BY DEF CallOK, Shape
<1>2. CASE enable_locally \/ enable_installs
  <2>1. install /\ UNCHANGED <<withs, linkVars, enabling>>
        /\ control' \in {control, "none"}
        /\ UNCHANGED <<serverVars, programVars, call, box, ops, faults>>
    BY <1>2 DEF enable_locally, enable_installs, controlVars
  <2>2. LinkOK' /\ \A t \in Threads : modes'[t] >= modes[t]
    BY <2>1, InstallKeepsCount DEF linkVars, LinkOK
  <2>3. opened <= opened'
    BY <2>1 DEF LinkOK, linkVars
  <2>4. \A t \in Threads : call[t].level <= modes'[t]
    BY <1>1, <2>2 DEF LinkOK, Counted
  <2> QED BY <2>1, <2>2, <2>3, <2>4, LinksKeepIInv
<1>3. CASE disable
  <2> USE <1>3 DEF disable, linkVars, controlVars
  <2>1. LinkOK' /\ \A t \in Threads \ {Main} : modes'[t] = modes[t]
    BY UninstallKeepsCount DEF LinkOK
  <2>2. \A t \in Threads : call[t].level <= modes'[t]
    BY <1>1, <2>1 DEF LinkOK, Counted, Free, At
  <2>3. UNCHANGED <<serverVars, programVars, call, box, ops, faults, opened>>
    OBVIOUS
  <2>4. opened <= opened'
    BY <2>3 DEF LinkOK
  <2> QED BY <2>1, <2>2, <2>3, <2>4, LinksKeepIInv
<1>4. CASE enable_remotely \/ disconnect_closes \/ disconnect_clears
           \/ connect_opens \/ connect_refused
  <2> USE <1>4 DEF enable_remotely, disconnect_closes, disconnect_clears,
                   connect_opens, connect_refused, linkVars, controlVars, modeVars
  <2>1. opened \in Nat /\ opened' \in Nat /\ opened <= opened'
    BY DEF LinkOK
  <2>2. channel' \in 0 .. opened' /\ stub' \in {0, channel'}
    BY <2>1 DEF LinkOK
  <2>3. closed' \subseteq 1 .. opened'
    <3>1. closed \subseteq 1 .. opened' /\ {channel} \ {0} \subseteq 1 .. opened'
      BY <2>1 DEF LinkOK
    <3>2. closed' \subseteq closed \cup ({channel} \ {0})
      OBVIOUS
    <3> QED BY <3>1, <3>2
  <2>4. control' \in {"none", "disconnect", "clear", "connect", "install"}
    BY DEF LinkOK
  <2>5. enabling' \in BOOLEAN
    BY DEF LinkOK
  <2>6. UNCHANGED modeVars
    OBVIOUS
  <2>7. Counted' /\ withs' \in [Threads -> {0, 1}] /\ active' \in BOOLEAN
    BY <2>6 DEF LinkOK, Counted
  <2>8. LinkOK'
    BY <2>1, <2>2, <2>3, <2>4, <2>5, <2>7 DEF LinkOK
  <2>9. \A t \in Threads : call[t].level <= modes'[t]
    BY <1>1, <2>6 DEF LinkOK, Counted
  <2>10. UNCHANGED <<serverVars, programVars, call, box, ops, faults>>
    OBVIOUS
  <2> QED BY <2>1, <2>8, <2>9, <2>10, LinksKeepIInv
<1>5. CASE \E t \in Threads : intercept(t)
  <2> PICK t \in Threads : intercept(t)
    BY <1>5
  <2> USE DEF intercept, linkVars, controlVars
  <2>1. LinkOK' /\ \A u \in Threads \ {t} : modes'[u] = modes[u]
    BY ContextKeepsCount DEF LinkOK
  <2>2. \A u \in Threads : call[u].level <= modes'[u]
    <3>1. call[t].level = 0
      BY <1>1 DEF Free, At
    <3>2. \A u \in Threads : modes'[u] >= 0
      BY <2>1 DEF LinkOK, Counted
    <3> QED BY <1>1, <2>1, <3>1, <3>2
  <2>3. UNCHANGED <<serverVars, programVars, call, box, ops, faults, opened>>
    OBVIOUS
  <2>4. opened <= opened'
    BY <2>3 DEF LinkOK
  <2> QED BY <2>1, <2>2, <2>3, <2>4, LinksKeepIInv
<1> QED BY <1>2, <1>3, <1>4, <1>5 DEF ControlStep
------------------------------------------------------------------------------
(* Steps of one thread's call. *)

(* Giving up leaves no job of the thread anywhere. *)
LEMMA FallBackKeepsIInv ==
  ASSUME IInv, NEW t \in Threads, FallBack(t), faults' \in Nat,
         call[t].level > 0, call[t].at # "idle"
  PROVE  IInv'
<1> USE DEF IInv
<1>1. /\ call[t] \in CallRecord /\ call[t].level - 1 \in Nat
      /\ call' = [call EXCEPT ![t] = [call[t] EXCEPT !.at = "dispatch", !.level = @ - 1]]
  BY DEF FallBack, Shape, CallRecord
<1>2. /\ call'[t].at = "dispatch" /\ call'[t].level = call[t].level - 1
      /\ call'[t].kind = call[t].kind /\ call'[t].arg = call[t].arg
      /\ call'[t].via = call[t].via /\ call'[t].sent = call[t].sent
      /\ \A u \in Threads \ {t} : call'[u] = call[u]
      /\ call' \in [Threads -> CallRecord]
  BY <1>1 DEF Shape, CallRecord, Places
<1>3. /\ ~ answer'[t].came /\ answer' \in [Threads -> AnswerRecord]
      /\ \A u \in Threads \ {t} : answer'[u] = answer[u]
  BY DEF FallBack, GiveUp, Shape, AnswerRecord, NoAnswer
<1>4. UNCHANGED <<modeVars, linkVars, controlVars, programVars, box, ops>>
  BY DEF FallBack
<1> USE DEF modeVars, linkVars, controlVars, programVars
<1>5. LinkOK' /\ CountsOK'
  BY <1>4 DEF LinkOK, Counted, CountsOK
<1>6. \A u \in Threads : CallOK(u)'
  <2>1. CallOK(t) /\ modes[t] \in Int
    BY DEF LinkOK, Counted
  <2>2. CallOK(t)'
    BY <1>2, <1>3, <1>4, <2>1 DEF CallOK, Shape, CallRecord
  <2>3. \A u \in Threads \ {t} : CallOK(u)'
    BY <1>2, <1>3, <1>4 DEF CallOK
  <2> QED BY <2>2, <2>3
<1>7. /\ DOMAIN queue' = DOMAIN queue
      /\ \A i \in DOMAIN queue : queue'[i] = IF queue[i] = t THEN Nobody ELSE queue[i]
      /\ working' = working \ {t} /\ strays' = IF t \in working THEN strays + 1 ELSE strays
  BY DEF FallBack, GiveUp
<1>8. PoolOK' /\ IsFiniteSet(working')
  <2>1. queue' \in Seq(Threads \cup {Nobody})
    <3> DEFINE S == Threads \cup {Nobody}
               e(i) == IF queue[i] = t THEN Nobody ELSE queue[i]
    <3>1. Len(queue) \in Nat /\ DOMAIN queue = 1 .. Len(queue)
          /\ \A i \in 1 .. Len(queue) : queue[i] \in S
      BY LenProperties, ElementOfSeq DEF PoolOK
    <3>2. queue' = [i \in 1 .. Len(queue) |-> e(i)]
      BY <3>1 DEF FallBack, GiveUp
    <3>3. queue' \in [1 .. Len(queue) -> S]
      BY <3>1, <3>2
    <3> HIDE DEF S
    <3>4. queue' \in Seq(S)
      BY <3>1, <3>3, SeqDef
    <3> QED BY <3>4 DEF S
  <2>2. /\ IsFiniteSet(working') /\ Cardinality(working) \in Nat
        /\ Cardinality(working') =
             IF t \in working THEN Cardinality(working) - 1 ELSE Cardinality(working)
    BY <1>7, FS_RemoveElement, FS_CardinalityType DEF Jobs
  <2>3. working' \subseteq Threads /\ strays' \in Nat
    BY <1>7 DEF PoolOK
  <2>4. strays' + Cardinality(working') <= Workers
    BY <1>7, <2>2, WorkersAreANumber DEF PoolOK
  <2> QED BY <2>1, <2>2, <2>3, <2>4 DEF PoolOK
<1>9. Shape'
  BY <1>2, <1>3, <1>4 DEF Shape, At
<1>10. Jobs'
  <2>1. \A u \in working' : call'[u].at = "waiting" /\ ~ answer'[u].came
    BY <1>2, <1>3, <1>7 DEF Jobs, At, PoolOK
  <2>2. ASSUME NEW i \in DOMAIN queue', queue'[i] # Nobody
        PROVE  /\ call'[queue'[i]].at = "waiting" /\ ~ answer'[queue'[i]].came
               /\ queue'[i] \notin working'
               /\ \A j \in DOMAIN queue' : queue'[j] = queue'[i] => j = i
    <3>1. queue'[i] = queue[i] /\ queue[i] # t /\ queue[i] # Nobody /\ i \in DOMAIN queue
      BY <1>7, <2>2
    <3>2. queue[i] \in Threads
      BY <3>1, LenProperties, ElementOfSeq DEF PoolOK
    <3>3. \A j \in DOMAIN queue' : queue'[j] = queue'[i] => queue[j] = queue[i]
      BY <1>7, <2>2, <3>1
    <3> QED BY <1>2, <1>3, <1>7, <3>1, <3>2, <3>3 DEF Jobs, At
  <2> QED BY <1>8, <2>1, <2>2 DEF Jobs, At
<1>11. Carried'
  BY <1>2, <1>3, <1>4 DEF Carried, At
<1>12. Running' = Running
  BY <1>2 DEF Running
<1>13. Worlds' /\ Names'
  BY <1>4, <1>12 DEF Worlds, Names
<1>14. Alone'
  <2>1. \A u \in Threads : call'[u].kind = call[u].kind /\ call'[u].arg = call[u].arg
    BY <1>2
  <2> QED BY <1>2, <1>4, <1>12, <2>1 DEF Alone, At, Real, Running
<1> QED BY <1>5, <1>6, <1>8, <1>9, <1>10, <1>11, <1>13, <1>14
(* What is packed is what the argument holds now. *)
LEMMA ArgumentHasContents ==
  ASSUME IInv, NEW t \in Threads
  PROVE  /\ call[t].arg \in DOMAIN store /\ store[call[t].arg] \in DOMAIN heap
         /\ heap[store[call[t].arg]] \in Values
BY DEF IInv, CallOK, Worlds, IsWorld

LEMMA PackingKeepsIInv ==
  ASSUME IInv, NEW t \in Threads, is_connected(t) \/ pack_call(t)
  PROVE  IInv'
<1> USE DEF IInv
<1> DEFINE now == heap[store[call[t].arg]]
<1>1. UNCHANGED <<modeVars, linkVars, controlVars, serverVars, programVars, box, ops,
                  faults>>
  BY DEF is_connected, pack_call
<1>2. call[t] \in CallRecord /\ now \in Values
  BY ArgumentHasContents DEF Shape
<1>3. /\ call[t].at \in {"dispatch", "call_op"} /\ call[t].level > 0
      /\ call'[t].at \in {"call_op", "packed"}
      /\ call'[t].level = call[t].level /\ call'[t].kind = call[t].kind
      /\ call'[t].arg = call[t].arg /\ call'[t].via = call[t].via
      /\ call'[t].at = "packed" => call'[t].sent = now
      /\ \A u \in Threads \ {t} : call'[u] = call[u]
      /\ call' \in [Threads -> CallRecord]
  <2>1. CASE is_connected(t)
    <3>1. call' = [call EXCEPT ![t] = [call[t] EXCEPT !.at = "call_op"]]
      BY <2>1 DEF is_connected, Goes
    <3> QED BY <1>2, <2>1, <3>1 DEF is_connected, Dispatches, At, Shape, CallRecord, Places
  <2>2. CASE pack_call(t)
    <3>1. call' = [call EXCEPT ![t] = [call[t] EXCEPT !.at = "packed", !.sent = now]]
      BY <2>2 DEF pack_call
    <3>2. call[t].at = "call_op" /\ call[t].level > 0
      BY <2>2 DEF pack_call, At, CallOK
    <3> QED BY <1>2, <3>1, <3>2 DEF Shape, CallRecord, Places
  <2> QED BY <2>1, <2>2
<1> USE DEF modeVars, linkVars, controlVars, serverVars, programVars
<1>4. LinkOK' /\ CountsOK' /\ PoolOK'
  BY <1>1 DEF LinkOK, Counted, CountsOK, PoolOK
<1>5. \A u \in Threads : CallOK(u)'
  <2>1. CallOK(t)'
    BY <1>1, <1>3 DEF CallOK
  <2>2. \A u \in Threads \ {t} : CallOK(u)'
    BY <1>1, <1>3 DEF CallOK
  <2> QED BY <2>1, <2>2
<1>6. Shape'
  BY <1>1, <1>3 DEF Shape, At
<1>7. Jobs'
  <2>1. \A u \in Threads : At(u, "waiting") => u # t /\ At(u, "waiting")'
    BY <1>3 DEF At
  <2>2. \A i \in DOMAIN queue : queue[i] # Nobody => queue[i] \in Threads
    BY LenProperties, ElementOfSeq DEF PoolOK
  <2> QED BY <1>1, <2>1, <2>2 DEF Jobs, PoolOK, At
<1>8. Carried'
  BY <1>1, <1>2, <1>3 DEF Carried, CallOK, At
<1>9. Running' = Running
  BY <1>3 DEF Running
<1>10. Worlds' /\ Names'
  BY <1>1, <1>9 DEF Worlds, Names
<1>11. Alone'
  <2>1. \A u \in Threads : call'[u].kind = call[u].kind /\ call'[u].arg = call[u].arg
    BY <1>3
  <2> QED BY <1>1, <1>3, <1>9, <2>1 DEF Alone, At, Real, Running
<1> QED BY <1>4, <1>5, <1>6, <1>7, <1>8, <1>10, <1>11

(* The thread's job is new in the queue: it had none. *)
LEMMA SendingKeepsIInv ==
  ASSUME IInv, NEW t \in Threads, ExecuteOp(t)
  PROVE  IInv'
<1> USE DEF IInv
<1>1. /\ UNCHANGED <<modeVars, linkVars, controlVars, working, strays, answer,
                     programVars, box, ops, faults>>
      /\ call[t].at = "packed" /\ queue' = Append(queue, t)
  BY DEF ExecuteOp, At
<1>2. stub \in Nat /\ stub \in 0 .. opened
  BY DEF LinkOK
<1>3. /\ call'[t].at = "waiting" /\ call'[t].via = stub /\ call'[t].level = call[t].level
      /\ call'[t].kind = call[t].kind /\ call'[t].arg = call[t].arg
      /\ call'[t].sent = call[t].sent
      /\ \A u \in Threads \ {t} : call'[u] = call[u]
      /\ call' \in [Threads -> CallRecord]
  <2>1. call' = [call EXCEPT ![t] = [call[t] EXCEPT !.at = "waiting", !.via = stub]]
    BY DEF ExecuteOp
  <2> QED BY <1>2, <2>1, ZenonT(60) DEF Shape, CallRecord, Places
<1> USE DEF modeVars, linkVars, controlVars, programVars
<1>4. LinkOK' /\ CountsOK'
  BY <1>1 DEF LinkOK, Counted, CountsOK
<1>5. \A u \in Threads : CallOK(u)'
  <2>1. CallOK(t)'
    BY <1>1, <1>2, <1>3 DEF CallOK
  <2>2. \A u \in Threads \ {t} : CallOK(u)'
    BY <1>1, <1>3 DEF CallOK
  <2> QED BY <2>1, <2>2
<1>6. /\ queue' \in Seq(Threads \cup {Nobody}) /\ Len(queue) \in Nat
      /\ DOMAIN queue = 1 .. Len(queue) /\ DOMAIN queue' = 1 .. Len(queue) + 1
      /\ \A i \in DOMAIN queue : queue'[i] = queue[i]
      /\ queue'[Len(queue) + 1] = t
  BY <1>1, AppendProperties, LenProperties DEF PoolOK
<1>7. PoolOK'
  BY <1>1, <1>6 DEF PoolOK
<1>8. Shape'
  BY <1>1, <1>3 DEF Shape, At
<1>9. /\ ~ answer[t].came /\ t \notin working
      /\ \A i \in DOMAIN queue : queue[i] # t
  BY <1>1, MainIsAThread DEF CallOK, Jobs, At
<1>10. Jobs'
  <2>1. \A u \in working' : call'[u].at = "waiting" /\ ~ answer'[u].came
    BY <1>1, <1>3, <1>9 DEF Jobs, At, PoolOK
  <2>2. ASSUME NEW i \in DOMAIN queue', queue'[i] # Nobody
        PROVE  /\ call'[queue'[i]].at = "waiting" /\ ~ answer'[queue'[i]].came
               /\ queue'[i] \notin working'
               /\ \A j \in DOMAIN queue' : queue'[j] = queue'[i] => j = i
    <3>1. CASE i = Len(queue) + 1
      <4>1. \A j \in DOMAIN queue' : j # i => j \in DOMAIN queue
        BY <1>6, <3>1
      <4> QED BY <1>1, <1>3, <1>6, <1>9, <3>1, <4>1
    <3>2. CASE i # Len(queue) + 1
      <4>1. i \in DOMAIN queue /\ queue'[i] = queue[i] /\ queue[i] # t
        BY <1>6, <1>9, <3>2
      <4>2. queue[i] \in Threads
        BY <2>2, <4>1, LenProperties, ElementOfSeq DEF PoolOK
      <4>3. \A j \in DOMAIN queue' : queue'[j] = queue'[i] => j \in DOMAIN queue
        BY <1>6, <4>1
      <4> QED BY <1>1, <1>3, <1>6, <2>2, <4>1, <4>2, <4>3 DEF Jobs, At
    <3> QED BY <3>1, <3>2
  <2> QED BY <1>1, <2>1, <2>2 DEF Jobs, At
<1>11. Carried'
  BY <1>1, <1>3 DEF Carried, At
<1>12. Running' = Running
  BY <1>1, <1>3 DEF Running
<1>13. Worlds' /\ Names'
  BY <1>1, <1>12 DEF Worlds, Names
<1>14. Alone'
  <2>1. \A u \in Threads : call'[u].kind = call[u].kind /\ call'[u].arg = call[u].arg
    BY <1>3
  <2> QED BY <1>1, <1>3, <1>12, <2>1 DEF Alone, At, Real, Running
<1> QED BY <1>4, <1>5, <1>7, <1>8, <1>10, <1>11, <1>13, <1>14

(* The answer is to what was sent, and what was sent is still there. *)
LEMMA UnpackingKeepsIInv ==
  ASSUME IInv, NEW t \in Threads, unpack_worker(t)
  PROVE  IInv'
<1> USE DEF IInv
<1>1. /\ UNCHANGED <<modeVars, linkVars, controlVars, queue, working, strays,
                     programVars, ops, faults>>
      /\ call[t].at = "waiting" /\ answer[t].came
  BY DEF unpack_worker, Answered, At
<1>2. /\ call'[t].at = "unpacked" /\ call'[t].via = call[t].via
      /\ call'[t].level = call[t].level
      /\ call'[t].kind = call[t].kind /\ call'[t].arg = call[t].arg
      /\ \A u \in Threads \ {t} : call'[u] = call[u]
      /\ call' \in [Threads -> CallRecord]
  <2>1. call' = [call EXCEPT ![t] = [call[t] EXCEPT !.at = "unpacked"]]
    BY DEF unpack_worker, Goes
  <2> QED BY <2>1 DEF Shape, CallRecord, Places
<1>3. /\ answer' \in [Threads -> AnswerRecord] /\ ~ answer'[t].came
      /\ \A u \in Threads \ {t} : answer'[u] = answer[u]
  BY DEF unpack_worker, Shape, AnswerRecord, NoAnswer
<1>4. /\ box' \in [Threads -> Values \cup {0}] /\ box'[t] = answer[t].value
      /\ \A u \in Threads \ {t} : box'[u] = box[u]
      /\ answer[t].value \in Values
      /\ answer[t].value = Result(call[t].kind, call[t].sent)
  BY <1>1 DEF unpack_worker, Shape, CallOK, Carried
<1> USE DEF modeVars, linkVars, controlVars, programVars
<1>5. LinkOK' /\ CountsOK' /\ PoolOK'
  BY <1>1 DEF LinkOK, Counted, CountsOK, PoolOK
<1>6. \A u \in Threads : CallOK(u)'
  <2>1. CallOK(t)'
    BY <1>1, <1>2, <1>3 DEF CallOK
  <2>2. \A u \in Threads \ {t} : CallOK(u)'
    BY <1>1, <1>2, <1>3 DEF CallOK
  <2> QED BY <2>1, <2>2
<1>7. Shape'
  BY <1>1, <1>2, <1>3, <1>4 DEF Shape, At
<1>8. /\ t \notin working
      /\ \A i \in DOMAIN queue : queue[i] # t
  BY <1>1, MainIsAThread DEF Jobs
<1>9. Jobs'
  <2>1. \A i \in DOMAIN queue : queue[i] # Nobody => queue[i] \in Threads \ {t}
    BY <1>8, LenProperties, ElementOfSeq DEF PoolOK
  <2> QED BY <1>1, <1>2, <1>3, <1>8, <2>1 DEF Jobs, PoolOK, At
<1>10. Carried'
  BY <1>1, <1>2, <1>3, <1>4 DEF Carried, At
<1>11. Running' = Running
  BY <1>1, <1>2 DEF Running
<1>12. Worlds' /\ Names'
  BY <1>1, <1>11 DEF Worlds, Names
<1>13. Alone'
  <2>1. \A u \in Threads : call'[u].kind = call[u].kind /\ call'[u].arg = call[u].arg
    BY <1>2
  <2> QED BY <1>1, <1>2, <1>4, <1>11, <2>1 DEF Alone, At, Real, Running
<1> QED BY <1>5, <1>6, <1>7, <1>9, <1>10, <1>12, <1>13
------------------------------------------------------------------------------
(* Steps of the server. *)
LEMMA PoolStepsKeepIInv ==
  ASSUME IInv, \/ pool_begins \/ stray_ends \/ \E t \in Threads : server_answers(t)
  PROVE  IInv'
<1> USE DEF IInv
<1>1. UNCHANGED <<modeVars, linkVars, controlVars, programVars, call, box, ops, faults>>
  BY DEF pool_begins, stray_ends, server_answers
<1> USE DEF modeVars, linkVars, controlVars, programVars
<1>2. LinkOK' /\ CountsOK' /\ Worlds' /\ Names' /\ Alone'
  BY <1>1 DEF LinkOK, Counted, CountsOK, Worlds, Names, Running, Alone, Real, At
<1>3. /\ Cardinality(working) \in Nat /\ IsFiniteSet(working) /\ strays \in Nat
      /\ Workers \in Nat /\ strays + Cardinality(working) <= Workers
  BY FS_CardinalityType, WorkersAreANumber DEF Jobs, PoolOK
<1>4. Len(queue) \in Nat /\ DOMAIN queue = 1 .. Len(queue)
      /\ \A i \in DOMAIN queue : queue[i] \in Threads \cup {Nobody}
  BY LenProperties, ElementOfSeq DEF PoolOK
<1>5. CASE pool_begins
  <2>1. UNCHANGED answer /\ queue # <<>> /\ Cardinality(working) + strays < Workers
        /\ queue' = Tail(queue) /\ Head(queue) = queue[1]
    BY <1>5 DEF pool_begins
  <2>2. /\ queue' \in Seq(Threads \cup {Nobody}) /\ 1 \in DOMAIN queue
        /\ DOMAIN queue' = 1 .. Len(queue) - 1
        /\ \A i \in DOMAIN queue' : queue'[i] = queue[i + 1] /\ i + 1 \in DOMAIN queue
    <3>1. queue \in Seq(Threads \cup {Nobody}) /\ queue # <<>>
      BY <2>1 DEF PoolOK
    <3>2. queue' \in Seq(Threads \cup {Nobody}) /\ Len(queue') = Len(queue) - 1
          /\ \A i \in 1 .. Len(queue') : queue'[i] = queue[i + 1]
      BY <2>1, <3>1, HeadTailProperties
    <3>3. Len(queue) # 0
      BY <3>1, EmptySeq
    <3>4. DOMAIN queue' = 1 .. Len(queue')
      BY <3>2, LenProperties
    <3> QED BY <1>4, <3>2, <3>3, <3>4
  <2>3. CASE queue[1] = Nobody
    <3>1. strays' = strays + 1 /\ UNCHANGED working
      BY <1>5, <2>1, <2>3 DEF pool_begins
    <3>2. PoolOK'
      BY <1>3, <2>1, <2>2, <3>1 DEF PoolOK
    <3>3. Jobs'
      <4>1. \A i, j \in DOMAIN queue' : i + 1 = j + 1 => i = j
        BY <1>4, <2>2
      <4> QED BY <1>1, <2>1, <2>2, <3>1, <4>1 DEF Jobs, At
    <3>4. Shape' /\ Carried' /\ \A t \in Threads : CallOK(t)'
      BY <1>1, <2>1 DEF Shape, Carried, CallOK, At
    <3> QED BY <1>2, <3>2, <3>3, <3>4
  <2>4. CASE queue[1] # Nobody
    <3> DEFINE t == queue[1]
    <3>1. working' = working \cup {t} /\ UNCHANGED strays /\ t \in Threads
      BY <1>4, <1>5, <2>1, <2>2, <2>4 DEF pool_begins
    <3>2. IsFiniteSet(working') /\ Cardinality(working') <= Cardinality(working) + 1
          /\ Cardinality(working') \in Nat
      <4>1. IsFiniteSet(working')
        BY <1>3, <3>1, FS_AddElement
      <4>2. Cardinality(working') \in Nat
        BY <4>1, FS_CardinalityType
      <4> QED BY <1>3, <3>1, <4>1, <4>2, FS_AddElement
    <3>3. PoolOK'
      BY <1>3, <2>1, <2>2, <3>1, <3>2 DEF PoolOK
    <3>4. Jobs'
      <4>1. At(t, "waiting") /\ ~ answer[t].came
        BY <2>2, <2>4 DEF Jobs
      <4>2. \A u \in working' : At(u, "waiting")' /\ ~ answer'[u].came
        BY <1>1, <2>1, <3>1, <4>1 DEF Jobs, At
      <4>3. \A i \in DOMAIN queue' : queue'[i] = queue[i + 1] /\ queue[i + 1] # t
        <5>1. \A i \in DOMAIN queue' : i + 1 # 1
          BY <1>4, <2>2
        <5> QED BY <2>2, <2>4, <5>1 DEF Jobs
      <4>4. \A i, j \in DOMAIN queue' : i + 1 = j + 1 => i = j
        BY <1>4, <2>2
      <4> QED BY <1>1, <2>1, <2>2, <3>1, <3>2, <4>2, <4>3, <4>4 DEF Jobs, At
    <3>5. Shape' /\ Carried' /\ \A u \in Threads : CallOK(u)'
      BY <1>1, <2>1 DEF Shape, Carried, CallOK, At
    <3> QED BY <1>2, <3>3, <3>4, <3>5
  <2> QED BY <2>3, <2>4
<1>6. CASE stray_ends
  <2>1. UNCHANGED <<queue, working, answer>> /\ strays > 0 /\ strays' = strays - 1
    BY <1>6 DEF stray_ends
  <2>2. PoolOK'
    BY <1>3, <2>1 DEF PoolOK
  <2>3. Jobs' /\ Shape' /\ Carried' /\ \A u \in Threads : CallOK(u)'
    BY <1>1, <2>1 DEF Jobs, Shape, Carried, CallOK, At
  <2> QED BY <1>2, <2>2, <2>3
<1>7. CASE \E t \in Threads : server_answers(t)
  <2> PICK t \in Threads : server_answers(t)
    BY <1>7
  <2> PICK error \in BOOLEAN :
        answer' = [answer EXCEPT ![t] = [came |-> TRUE, error |-> error,
                                         value |-> Result(call[t].kind, call[t].sent)]]
    BY DEF server_answers
  <2>1. UNCHANGED <<queue, strays>> /\ t \in working /\ working' = working \ {t}
    BY DEF server_answers
  <2>2. /\ call[t].at = "waiting" /\ Result(call[t].kind, call[t].sent) \in Values
        /\ ~ answer[t].came
    BY <2>1, ResultsAreValues DEF Jobs, Shape, Carried, CallRecord, At
  <2>3. /\ answer'[t].came
        /\ answer'[t].value = Result(call[t].kind, call[t].sent)
        /\ \A u \in Threads \ {t} : answer'[u] = answer[u]
        /\ answer' \in [Threads -> AnswerRecord]
    BY <2>2 DEF Shape, AnswerRecord
  <2>4. IsFiniteSet(working') /\ Cardinality(working') <= Cardinality(working)
        /\ Cardinality(working') \in Nat
    <3>1. IsFiniteSet(working')
      BY <1>3, <2>1, FS_RemoveElement
    <3>2. Cardinality(working') \in Nat
      BY <3>1, FS_CardinalityType
    <3> QED BY <1>3, <2>1, <3>1, <3>2, FS_RemoveElement
  <2>5. PoolOK'
    BY <1>3, <2>1, <2>4 DEF PoolOK
  <2>6. Jobs'
    <3>1. \A i \in DOMAIN queue : queue[i] # Nobody => queue[i] \in Threads \ {t}
      BY <1>4, <2>1 DEF Jobs
    <3> QED BY <1>1, <2>1, <2>3, <2>4, <3>1 DEF Jobs, PoolOK, At
  <2>7. Shape' /\ Carried'
    BY <1>1, <2>3 DEF Shape, Carried, At
  <2>8. \A u \in Threads : CallOK(u)'
    <3>1. CallOK(t)'
      BY <1>1, <2>2, <2>3 DEF CallOK
    <3> QED BY <1>1, <2>3, <3>1 DEF CallOK
  <2> QED BY <1>2, <2>5, <2>6, <2>7, <2>8
<1> QED BY <1>5, <1>6, <1>7

------------------------------------------------------------------------------
(* Operations begin and end. *)
LEMMA BeginKeepsIInv ==
  ASSUME IInv, NEW t \in Threads, NEW kind \in Kinds, NEW arg \in DOMAIN store,
         NEW plain \in BOOLEAN, Begin(t, kind, arg, plain)
  PROVE  IInv'
<1> USE KindsAreKnown DEF IInv
<1>1. /\ UNCHANGED <<modeVars, linkVars, controlVars, serverVars, programVars, box, faults>>
      /\ call[t].at = "idle" /\ ops < MaxOps /\ ops' = ops + 1
  BY DEF Begin, Free
<1>2. arg \in Tensors /\ modes[t] \in Nat
  BY DEF Worlds, IsWorld, LinkOK, Counted
<1>3. /\ call'[t].at = "dispatch" /\ call'[t].kind = kind /\ call'[t].arg = arg
      /\ call'[t].level = modes[t] /\ call'[t].via = 0
      /\ \A u \in Threads \ {t} : call'[u] = call[u]
      /\ call' \in [Threads -> CallRecord]
  BY <1>2 DEF Begin, Shape, CallRecord, Places
<1> USE DEF modeVars, linkVars, controlVars, serverVars, programVars
<1>4. LinkOK' /\ CountsOK' /\ PoolOK' /\ Worlds'
  BY <1>1 DEF LinkOK, Counted, CountsOK, PoolOK, Worlds
<1>5. \A u \in Threads : CallOK(u)'
  <2>1. CallOK(t)'
    BY <1>1, <1>2, <1>3 DEF CallOK, LinkOK
  <2>2. \A u \in Threads \ {t} : CallOK(u)'
    BY <1>1, <1>3 DEF CallOK
  <2> QED BY <2>1, <2>2
<1>6. Shape'
  BY <1>1, <1>3 DEF Shape, At
<1>7. Jobs'
  <2>1. \A u \in Threads : At(u, "waiting") => u # t /\ At(u, "waiting")'
    BY <1>1, <1>3 DEF At
  <2>2. \A i \in DOMAIN queue : queue[i] # Nobody => queue[i] \in Threads
    BY LenProperties, ElementOfSeq DEF PoolOK
  <2> QED BY <1>1, <2>1, <2>2 DEF Jobs, PoolOK, At
<1>8. Carried'
  BY <1>1, <1>3 DEF Carried, CallOK, At
<1>9. Running' = Running \cup {t} /\ t \notin Running
  BY <1>1, <1>3 DEF Running
<1>10. Names'
  <2>1. IsFiniteSet(Running') /\ Cardinality(Running') = Cardinality(Running) + 1
    BY <1>9, FS_AddElement DEF Names
  <2>2. Cardinality(Running) \in Nat /\ Cardinality(DOMAIN store) \in Nat
    BY FS_CardinalityType DEF Names
  <2> QED BY <1>1, <2>1, <2>2, BoundsAreNumbers DEF Names, CountsOK
<1>11. Alone'
  <2> SUFFICES ASSUME ~ diverted
               PROVE  Alone'
    BY <1>1 DEF Alone
  <2>1. ideal = Real /\ Real' = Real
    BY <1>1 DEF Alone, Real
  <2>2. \A u \in Threads \ {t} :
          call[u].at # "idle" /\ "in_place" \in {kind, call[u].kind}
            => store[arg] # store[call[u].arg]
    BY <2>1 DEF Begin, SameStore, Real
  <2>3. ASSUME NEW u \in Running', NEW v \in Running', u # v,
               "in_place" \in {call'[u].kind, call'[v].kind}
        PROVE  store'[call'[u].arg] # store'[call'[v].arg]
    <3>1. CASE u = t
      BY <1>1, <1>3, <2>2, <2>3, <3>1 DEF Running
    <3>2. CASE v = t
      BY <1>1, <1>3, <2>2, <2>3, <3>2 DEF Running
    <3>3. CASE u # t /\ v # t
      BY <1>1, <1>3, <1>9, <2>3, <3>3 DEF Alone, Running
    <3> QED BY <3>1, <3>2, <3>3
  <2>4. \A u \in Threads :
          LET now == heap'[store'[call'[u].arg]]
          IN  /\ At(u, "packed")' \/ At(u, "waiting")' => call'[u].sent = now
              /\ At(u, "unpacked")' => box'[u] = Result(call'[u].kind, now)
    BY <1>1, <1>3 DEF Alone, At
  <2> QED BY <1>1, <2>1, <2>3, <2>4 DEF Alone, Real
<1> QED BY <1>4, <1>5, <1>6, <1>7, <1>8, <1>10, <1>11
(* A new name, and what it may name, make a world out of a world. *)
LEMMA WithKeepsWorld ==
  ASSUME NEW s, NEW h, IsWorld(s, h), NEW n \in Tensors, n \notin DOMAIN s
  PROVE  /\ \A v \in Values : IsWorld(With(s, n, n), With(h, n, v))
         /\ \A old \in DOMAIN h : IsWorld(With(s, n, old), h)
         /\ \A v \in Values, old \in DOMAIN h : IsWorld(s, [h EXCEPT ![old] = v])
<1> USE DEF IsWorld
<1>1. ASSUME NEW v \in Values PROVE IsWorld(With(s, n, n), With(h, n, v))
  BY DEF With
<1>2. ASSUME NEW old \in DOMAIN h PROVE IsWorld(With(s, n, old), h)
  BY DEF With
<1>3. ASSUME NEW v \in Values, NEW old \in DOMAIN h
      PROVE  IsWorld(s, [h EXCEPT ![old] = v])
  OBVIOUS
<1> QED BY <1>1, <1>2, <1>3

(* An operation makes a world out of a world, and names at most one tensor. *)
LEMMA ExecutedIsAWorld ==
  ASSUME NEW s, NEW h, IsWorld(s, h), NEW kind \in AllKinds, NEW arg \in DOMAIN s,
         Fresh \in Tensors, Fresh \notin DOMAIN s
  PROVE  LET w == Executed([store |-> s, heap |-> h], kind, arg)
         IN  /\ w = [store |-> w.store, heap |-> w.heap] /\ IsWorld(w.store, w.heap)
             /\ DOMAIN w.store = IF kind = "in_place" THEN DOMAIN s ELSE DOMAIN s \cup {Fresh}
<1> DEFINE world == [store |-> s, heap |-> h]
           w == Executed(world, kind, arg)
           fresh == Fresh
<1>1. s[arg] \in DOMAIN h /\ h[s[arg]] \in Values /\ Result(kind, h[s[arg]]) \in Values
  BY ResultsAreValues DEF IsWorld
<1>2. CASE kind = "functional"
  <2>1. w = [store |-> With(s, fresh, fresh), heap |-> With(h, fresh, Result(kind, h[s[arg]]))]
    BY <1>2 DEF Executed
  <2> HIDE DEF w, fresh
  <2>2. w.store = With(s, fresh, fresh) /\ w.heap = With(h, fresh, Result(kind, h[s[arg]]))
    BY <2>1
  <2>3. IsWorld(w.store, w.heap)
    BY <1>1, <2>2, WithKeepsWorld DEF fresh
  <2> QED BY <1>2, <2>1, <2>2, <2>3 DEF w, fresh, With
<1>3. CASE kind = "view"
  <2>1. w = [store |-> With(s, fresh, s[arg]), heap |-> h]
    BY <1>3 DEF Executed
  <2> HIDE DEF w, fresh
  <2>2. w.store = With(s, fresh, s[arg]) /\ w.heap = h
    BY <2>1
  <2>3. IsWorld(w.store, w.heap)
    BY <1>1, <2>2, WithKeepsWorld DEF fresh
  <2> QED BY <1>3, <2>1, <2>2, <2>3 DEF w, fresh, With
<1>4. CASE kind = "in_place"
  <2>1. w = [store |-> s, heap |-> [h EXCEPT ![s[arg]] = Result(kind, h[s[arg]])]]
    BY <1>4 DEF Executed
  <2> HIDE DEF w
  <2>2. w.store = s /\ w.heap = [h EXCEPT ![s[arg]] = Result(kind, h[s[arg]])]
    BY <2>1
  <2>3. IsWorld(w.store, w.heap)
    BY <1>1, <2>2, WithKeepsWorld
  <2> QED BY <1>4, <2>1, <2>2, <2>3 DEF w
<1> QED BY <1>2, <1>3, <1>4 DEF AllKinds

LEMMA ReturnedIsAWorld ==
  ASSUME NEW s, NEW h, IsWorld(s, h), NEW kind \in AllKinds, NEW v \in Values,
         Fresh \in Tensors, Fresh \notin DOMAIN s
  PROVE  LET w == Returned([store |-> s, heap |-> h], kind, v)
         IN  /\ w = [store |-> w.store, heap |-> w.heap] /\ IsWorld(w.store, w.heap)
             /\ DOMAIN w.store = IF kind = "in_place" THEN DOMAIN s ELSE DOMAIN s \cup {Fresh}
<1> DEFINE w == Returned([store |-> s, heap |-> h], kind, v)
           fresh == Fresh
<1>1. CASE kind = "in_place"
  BY <1>1 DEF Returned
<1>2. CASE kind # "in_place"
  <2>1. w = [store |-> With(s, fresh, fresh), heap |-> With(h, fresh, v)]
    BY <1>2 DEF Returned
  <2> HIDE DEF w, fresh
  <2>2. w.store = With(s, fresh, fresh) /\ w.heap = With(h, fresh, v)
    BY <2>1
  <2>3. IsWorld(w.store, w.heap)
    BY <2>2, WithKeepsWorld DEF fresh
  <2> QED BY <1>2, <2>1, <2>2, <2>3 DEF w, fresh, With
<1> QED BY <1>1, <1>2
(* An operation leaves the contents of other names alone, unless it is in  *)
(* place and they share its storage.                                       *)
LEMMA ExecutedKeepsOthers ==
  ASSUME NEW s, NEW h, IsWorld(s, h), NEW kind \in AllKinds, NEW arg \in DOMAIN s,
         Fresh \in Tensors, Fresh \notin DOMAIN s, NEW n \in DOMAIN s,
         kind = "in_place" => s[n] # s[arg]
  PROVE  LET w == Executed([store |-> s, heap |-> h], kind, arg)
         IN  w.store[n] = s[n] /\ w.heap[s[n]] = h[s[n]]
<1> DEFINE w == Executed([store |-> s, heap |-> h], kind, arg)
           fresh == Fresh
<1>1. /\ s[n] \in DOMAIN h /\ s[arg] \in DOMAIN h /\ n # fresh
      /\ \A m \in DOMAIN h : m # fresh
  BY DEF IsWorld
<1>2. CASE kind = "functional"
  <2>1. w = [store |-> With(s, fresh, fresh), heap |-> With(h, fresh, Result(kind, h[s[arg]]))]
    BY <1>2 DEF Executed
  <2> HIDE DEF w, fresh
  <2> QED BY <1>1, <2>1 DEF w, With
<1>3. CASE kind = "view"
  <2>1. w = [store |-> With(s, fresh, s[arg]), heap |-> h]
    BY <1>3 DEF Executed
  <2> HIDE DEF w, fresh
  <2> QED BY <1>1, <2>1 DEF w, With
<1>4. CASE kind = "in_place"
  <2>1. w = [store |-> s, heap |-> [h EXCEPT ![s[arg]] = Result(kind, h[s[arg]])]]
    BY <1>4 DEF Executed
  <2> HIDE DEF w
  <2> QED BY <1>1, <1>4, <2>1 DEF w
<1> QED BY <1>2, <1>3, <1>4 DEF AllKinds

LEMMA EndingKeepsIInv ==
  ASSUME IInv, NEW t \in Threads, return_remote(t) \/ execute_locally(t)
  PROVE  IInv'
<1> USE DEF IInv
<1> DEFINE kind == call[t].kind
           arg == call[t].arg
           alone == Executed(ideal, kind, arg)
<1>1. /\ UNCHANGED <<modeVars, linkVars, controlVars, serverVars, box, ops, faults>>
      /\ call' = [call EXCEPT ![t] = NoCall(First)]
      /\ ideal' = alone
      /\ call[t].at \in {"dispatch", "unpacked"}
      /\ diverted' \in BOOLEAN
  BY DEF return_remote, execute_locally, Ends, At, CountsOK
<1>2. Fresh \in Tensors /\ Fresh \notin DOMAIN store
  BY <1>1, FreshIsNew
<1>3. kind \in AllKinds /\ arg \in DOMAIN store /\ First \in DOMAIN store
      /\ DOMAIN store \subseteq Tensors
  BY DEF Shape, CallRecord, CallOK, Worlds, IsWorld
<1>4. /\ call'[t].at = "idle" /\ call'[t].arg = First /\ call'[t].level = 0
      /\ call'[t].via = 0
      /\ \A u \in Threads \ {t} : call'[u] = call[u]
      /\ call' \in [Threads -> CallRecord]
  BY <1>1, <1>3 DEF NoCall, Shape, CallRecord, Places, AllKinds
<1>5. /\ alone = [store |-> alone.store, heap |-> alone.heap]
      /\ IsWorld(alone.store, alone.heap)
      /\ DOMAIN alone.store = IF kind = "in_place" THEN DOMAIN store
                                                 ELSE DOMAIN store \cup {Fresh}
  <2> DEFINE s == ideal.store
             h == ideal.heap
  <2>1. ideal = [store |-> s, heap |-> h] /\ IsWorld(s, h) /\ DOMAIN s = DOMAIN store
    BY DEF Worlds
  <2> HIDE DEF kind, arg, s, h, IInv
  <2>2. Fresh \notin DOMAIN s /\ arg \in DOMAIN s
    BY <1>2, <1>3, <2>1
  <2>3. LET w == Executed([store |-> s, heap |-> h], kind, arg)
        IN  /\ w = [store |-> w.store, heap |-> w.heap] /\ IsWorld(w.store, w.heap)
            /\ DOMAIN w.store = IF kind = "in_place" THEN DOMAIN s ELSE DOMAIN s \cup {Fresh}
    BY <1>2, <1>3, <2>1, <2>2, ExecutedIsAWorld
  <2>4. alone = Executed([store |-> s, heap |-> h], kind, arg)
    BY <2>1
  <2> HIDE DEF alone
  <2> QED BY <2>1, <2>3, <2>4
<1>6. /\ IsWorld(store', heap')
      /\ DOMAIN store' = IF kind = "in_place" THEN DOMAIN store ELSE DOMAIN store \cup {Fresh}
  <2>1. IsWorld(store, heap)
    BY DEF Worlds
  <2>2. CASE return_remote(t)
    <3> DEFINE world == Returned([store |-> store, heap |-> heap], kind, box[t])
    <3>1. box[t] \in Values
      BY <2>2 DEF return_remote, Carried
    <3>2. store' = world.store /\ heap' = world.heap
      BY <2>2 DEF return_remote, Ends, Real
    <3> HIDE DEF kind, arg, IInv
    <3>3. /\ world = [store |-> world.store, heap |-> world.heap]
          /\ IsWorld(world.store, world.heap)
          /\ DOMAIN world.store = IF kind = "in_place" THEN DOMAIN store
                                                      ELSE DOMAIN store \cup {Fresh}
      BY <1>2, <1>3, <2>1, <3>1, ReturnedIsAWorld
    <3> HIDE DEF world
    <3> QED BY <3>2, <3>3
  <2>3. CASE execute_locally(t)
    <3> DEFINE world == Executed([store |-> store, heap |-> heap], kind, arg)
    <3>1. store' = world.store /\ heap' = world.heap
      BY <2>3 DEF execute_locally, Ends, Real
    <3> HIDE DEF kind, arg, IInv
    <3>2. /\ world = [store |-> world.store, heap |-> world.heap]
          /\ IsWorld(world.store, world.heap)
          /\ DOMAIN world.store = IF kind = "in_place" THEN DOMAIN store
                                                      ELSE DOMAIN store \cup {Fresh}
      BY <1>2, <1>3, <2>1, ExecutedIsAWorld
    <3> HIDE DEF world
    <3> QED BY <3>1, <3>2
  <2> QED BY <2>2, <2>3
<1>7. Worlds'
  BY <1>1, <1>3, <1>5, <1>6 DEF Worlds
<1> USE DEF modeVars, linkVars, controlVars, serverVars
<1>8. LinkOK' /\ CountsOK' /\ PoolOK'
  BY <1>1 DEF LinkOK, Counted, CountsOK, PoolOK
<1>9. \A u \in Threads : CallOK(u)'
  <2>1. DOMAIN store \subseteq DOMAIN store'
    BY <1>6
  <2>2. CallOK(t)'
    <3>1. modes'[t] \in Nat /\ opened' \in Nat
      BY <1>1 DEF LinkOK, Counted
    <3>2. ~ answer'[t].came
      BY <1>1 DEF CallOK
    <3> QED BY <1>3, <1>4, <2>1, <3>1, <3>2 DEF CallOK
  <2>3. \A u \in Threads \ {t} : CallOK(u)'
    BY <1>1, <1>4, <2>1 DEF CallOK
  <2> QED BY <2>2, <2>3
<1>10. Shape'
  BY <1>1, <1>4 DEF Shape, At
<1>11. Jobs'
  <2>1. \A u \in Threads : At(u, "waiting") => u # t /\ At(u, "waiting")'
    BY <1>1, <1>4 DEF At
  <2>2. \A i \in DOMAIN queue : queue[i] # Nobody => queue[i] \in Threads
    BY LenProperties, ElementOfSeq DEF PoolOK
  <2> QED BY <1>1, <2>1, <2>2 DEF Jobs, PoolOK, At
<1>12. Carried'
  BY <1>1, <1>4 DEF Carried, CallOK, At
<1>13. Running' = Running \ {t} /\ t \in Running
  BY <1>1, <1>4 DEF Running
<1>14. Names'
  <2>1. IsFiniteSet(Running') /\ Cardinality(Running') = Cardinality(Running) - 1
    BY <1>13, FS_RemoveElement DEF Names
  <2>2. Cardinality(Running) \in Nat /\ Cardinality(DOMAIN store) \in Nat
    BY FS_CardinalityType DEF Names
  <2>3. IsFiniteSet(DOMAIN store') /\ Cardinality(DOMAIN store') <= Cardinality(DOMAIN store) + 1
    BY <1>2, <1>6, <2>2, FS_AddElement DEF Names
  <2>4. Cardinality(DOMAIN store') \in Nat
    BY <2>3, FS_CardinalityType
  <2> QED BY <1>1, <2>1, <2>2, <2>3, <2>4, BoundsAreNumbers DEF Names, CountsOK
<1>15. Alone'
  <2> SUFFICES ASSUME ~ diverted'
               PROVE  Alone'
    BY DEF Alone
  <2>1. ~ diverted /\ ideal = Real
    BY DEF return_remote, execute_locally, Ends, CountsOK, Alone
  <2>2. store' = alone.store /\ heap' = alone.heap
    <3>1. CASE return_remote(t)
      <4>1. kind = "functional" /\ box[t] = Result(kind, heap[store[arg]])
        BY <2>1, <3>1 DEF return_remote, Ends, Alone
      <4>2. store' = Returned(Real, kind, box[t]).store /\ heap' = Returned(Real, kind, box[t]).heap
        BY <3>1 DEF return_remote, Ends
      <4> HIDE DEF kind, arg, IInv
      <4>3. Returned(Real, kind, box[t]) = Executed(Real, kind, arg)
        BY <4>1 DEF Returned, Executed, Real
      <4> QED BY <2>1, <4>2, <4>3
    <3>2. CASE execute_locally(t)
      BY <2>1, <3>2 DEF execute_locally, Ends
    <3> QED BY <3>1, <3>2
  <2>3. ideal' = Real'
    BY <1>1, <1>5, <2>2 DEF Real
  <2>4. ASSUME NEW u \in Running'
        PROVE  /\ store'[call'[u].arg] = store[call[u].arg]
               /\ heap'[store'[call'[u].arg]] = heap[store[call[u].arg]]
    <3> DEFINE n == call[u].arg
    <3>1. u \in Running /\ u # t /\ u \in Threads /\ call'[u] = call[u]
      BY <1>4, <1>13 DEF Running
    <3>2. n \in DOMAIN store /\ (kind = "in_place" => store[n] # store[arg])
      BY <1>13, <2>1, <3>1 DEF CallOK, Alone
    <3>3. IsWorld(store, heap)
      BY DEF Worlds
    <3>4. alone = Executed([store |-> store, heap |-> heap], kind, arg)
      BY <2>1 DEF Real
    <3> HIDE DEF kind, arg, n, IInv, alone
    <3>5. alone.store[n] = store[n] /\ alone.heap[store[n]] = heap[store[n]]
      BY <1>2, <1>3, <3>2, <3>3, <3>4, ExecutedKeepsOthers
    <3> QED BY <2>2, <3>1, <3>5 DEF n
  <2>5. \A u \in Threads : u \notin Running' => call'[u].at = "idle"
    BY DEF Running
  <2>6. \A u \in Running' : call'[u] = call[u] /\ u \in Running /\ u \in Threads
    BY <1>4, <1>13 DEF Running
  <2> HIDE DEF alone
  <2>7. \A u \in Threads :
          LET now == heap'[store'[call'[u].arg]]
          IN  /\ At(u, "packed")' \/ At(u, "waiting")' => call'[u].sent = now
              /\ At(u, "unpacked")' => box'[u] = Result(call'[u].kind, now)
    BY <1>1, <2>1, <2>4, <2>5, <2>6 DEF Alone, At
  <2>8. \A u, v \in Running' :
          u # v /\ "in_place" \in {call'[u].kind, call'[v].kind}
            => store'[call'[u].arg] # store'[call'[v].arg]
    BY <2>1, <2>4, <2>6 DEF Alone
  <2> QED BY <2>3, <2>7, <2>8 DEF Alone
<1> QED BY <1>7, <1>8, <1>9, <1>10, <1>11, <1>12, <1>14, <1>15
------------------------------------------------------------------------------
LEMMA FallingBackKeepsIInv ==
  ASSUME IInv, NEW t \in Threads,
         \/ not_connected(t) \/ pack_raises(t) \/ ExecuteOp_raises(t)
         \/ call_cancelled(t) \/ server_error(t) \/ call_lost(t)
  PROVE  IInv'
<1>1. FallBack(t)
  BY DEF not_connected, pack_raises, ExecuteOp_raises, call_cancelled, server_error,
         call_lost
<1>2. faults' \in Nat
  BY DEF not_connected, pack_raises, ExecuteOp_raises, call_cancelled, server_error,
         call_lost, IInv, CountsOK
<1>3. call[t].level > 0 /\ call[t].at # "idle"
  BY DEF not_connected, pack_raises, ExecuteOp_raises, call_cancelled, server_error,
         call_lost, Dispatches, Answered, At, IInv, CallOK
<1> QED BY <1>1, <1>2, <1>3, FallBackKeepsIInv

LEMMA NextKeepsIInv == IInv /\ [Next]_vars => IInv'
<1> SUFFICES ASSUME IInv, [Next]_vars PROVE IInv'
  OBVIOUS
<1>1. CASE \/ enable_locally \/ enable_remotely \/ disable \/ ControlStep
           \/ \E t \in Threads : intercept(t)
  BY <1>1, LinkStepsKeepIInv
<1>2. ASSUME NEW t \in Threads, NEW k \in Kinds, NEW a \in DOMAIN store,
             NEW p \in BOOLEAN, Begin(t, k, a, p)
      PROVE  IInv'
  BY <1>2, BeginKeepsIInv
<1>3. ASSUME NEW t \in Threads, ThreadStep(t) \/ call_lost(t)
      PROVE  IInv'
  BY <1>3, FallingBackKeepsIInv, PackingKeepsIInv, SendingKeepsIInv,
     UnpackingKeepsIInv, EndingKeepsIInv DEF ThreadStep
<1>4. CASE \/ pool_begins \/ stray_ends \/ \E t \in Threads : server_answers(t)
  BY <1>4, PoolStepsKeepIInv
<1>5. CASE UNCHANGED vars
  <2> USE <1>5 DEF vars, modeVars, linkVars, controlVars, serverVars, programVars
  <2>1. LinkOK' /\ PoolOK' /\ CountsOK' /\ \A t \in Threads : CallOK(t)'
    BY DEF IInv, LinkOK, Counted, PoolOK, CountsOK, CallOK
  <2>2. Shape' /\ Jobs' /\ Carried'
    BY DEF IInv, Shape, Jobs, Carried, At
  <2>3. Worlds' /\ Names' /\ Alone'
    BY DEF IInv, Worlds, Names, Running, Alone, Real, At
  <2> QED BY <2>1, <2>2, <2>3 DEF IInv
<1> QED BY <1>1, <1>2, <1>3, <1>4, <1>5 DEF Next

(* For any threads, tensors, operations and bounds: the stacks of modes    *)
(* hold what enable and the open contexts put there, calls and their       *)
(* answers have the shape the code gives them, and the pool is never over  *)
(* its limit.                                                              *)
THEOREM TypeCorrect == Spec => []TypeOK
<1>1. Init => IInv
  BY InitIInv
<1>2. IInv /\ [Next]_vars => IInv'
  BY NextKeepsIInv
<1>3. IInv => TypeOK
  BY IInvImpliesTypeOK
<1> QED BY <1>1, <1>2, <1>3, PTL DEF Spec

(* For any threads, tensors, operations and bounds: as long as no view and *)
(* no operation in place was answered by the server, a program that does   *)
(* not race with itself computes what it computes alone.                   *)
THEOREM OnlyEffectsEverDiffer == Spec => []OnlyEffectsDiffer
<1>1. Init => IInv
  BY InitIInv
<1>2. IInv /\ [Next]_vars => IInv'
  BY NextKeepsIInv
<1>3. IInv => OnlyEffectsDiffer
  BY IInvImpliesOnlyEffectsDiffer
<1> QED BY <1>1, <1>2, <1>3, PTL DEF Spec
==============================================================================
