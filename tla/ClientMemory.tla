----------------------------- MODULE ClientMemory -----------------------------
(***************************************************************************)
(* What checkpoint and restart promise a client (cr.c, resource-mg.h):     *)
(* device memory that a restart sets back to the last checkpoint, under    *)
(* the same pointers, and that is never changed by anything but its own    *)
(* calls.  A checkpoint replaces the one before from its first step on;    *)
(* without a good one a restart loses the memory.                          *)
(***************************************************************************)
CONSTANTS
  Pointers,   \* what a client may be given by cudaMalloc
  Sizes,      \* the sizes a client asks for
  Values,     \* what a client writes into a block
  Undefined   \* the contents of memory nobody has written

VARIABLES
  state,      \* "up", "down", or "lost": up, with nothing promised of it
  memory,     \* the client's blocks, by its pointers to them
  good,       \* whether there is a checkpoint to restart from
  saved       \* the client's blocks in it

memoryVars == <<state, memory, good, saved>>

NoMemory == [p \in {} |-> Undefined]
With(p, block) == [q \in DOMAIN memory \cup {p} |-> IF q = p THEN block ELSE memory[q]]

Init == state = "up" /\ memory = NoMemory /\ good = FALSE /\ saved = NoMemory

(* A pointer that is given away leads to no block the client has.          *)
Malloc(p, size) ==
  /\ state = "up" /\ p \notin DOMAIN memory
  /\ memory' = With(p, [size |-> size, data |-> Undefined])
  /\ UNCHANGED <<state, good, saved>>

Free(p) ==
  /\ state = "up" /\ p \in DOMAIN memory
  /\ memory' = [q \in DOMAIN memory \ {p} |-> memory[q]]
  /\ UNCHANGED <<state, good, saved>>

Store(p, v) ==
  /\ state = "up" /\ p \in DOMAIN memory
  /\ memory' = With(p, [size |-> memory[p].size, data |-> v])
  /\ UNCHANGED <<state, good, saved>>

Checkpoint ==
  /\ state = "up"
  /\ good' = TRUE /\ saved' = memory
  /\ UNCHANGED <<state, memory>>

(* The files are written over the old ones.                                *)
Spoil ==
  /\ state # "down"
  /\ good' = FALSE /\ saved' = NoMemory
  /\ UNCHANGED <<state, memory>>

Stop ==
  /\ state # "down"
  /\ state' = "down" /\ memory' = NoMemory
  /\ UNCHANGED <<good, saved>>

Restart ==
  /\ state = "down" /\ good
  /\ state' = "up" /\ memory' = saved
  /\ UNCHANGED <<good, saved>>

(* No good checkpoint, or no room for its blocks.                          *)
Lose ==
  /\ state = "down"
  /\ state' = "lost"
  /\ UNCHANGED <<memory, good, saved>>

Next ==
  \/ \E p \in Pointers : \/ Free(p)
                         \/ \E size \in Sizes : Malloc(p, size)
                         \/ \E v \in Values : Store(p, v)
  \/ Checkpoint \/ Spoil \/ Stop \/ Restart \/ Lose

Spec == Init /\ [][Next]_memoryVars
===============================================================================
