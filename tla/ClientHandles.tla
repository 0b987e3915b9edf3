----------------------------- MODULE ClientHandles -----------------------------
(***************************************************************************)
(* What checkpoint and restart promise a client of what it holds beside    *)
(* memory (cr.c, resource-mg.h): each handle names one object, with the    *)
(* flags, the device and the stream the client's calls gave it, and each   *)
(* stub a function of the module it was registered for.  Only the client's *)
(* calls change any of it, and a restart sets it back to the last          *)
(* checkpoint, under the same names.                                       *)
(***************************************************************************)
CONSTANTS
  Kinds,      \* the kinds of objects, streams among them
  Handle,     \* what a client may be given as the name of an object
  None,       \* no stream
  Confs,      \* flags, priorities
  Devices,    \* the first one is current in a new process
  Modules,    \* the client's fat binaries
  Functions   \* the client's kernels, by their stubs

VARIABLES
  state,      \* "up", "down", or "lost": up, with nothing promised
  holds,      \* the client's objects, device, modules and functions
  good,       \* whether there is a checkpoint to restart from
  saved       \* what the client holds in it

handleVars == <<state, holds, good, saved>>

Empty == [x \in {} |-> None]
NothingHeld == [objects |-> [k \in Kinds |-> Empty], device |-> 0,
                modules |-> Empty, functions |-> Empty]
With(f, a, b) == [x \in DOMAIN f \cup {a} |-> IF x = a THEN b ELSE f[x]]

Init == state = "up" /\ holds = NothingHeld /\ good = FALSE /\ saved = NothingHeld

Call == state = "up" /\ UNCHANGED <<state, good, saved>>

(* A handle that is given away names no object the client has.             *)
Create(k, h, conf) ==
  /\ Call /\ h \notin DOMAIN holds.objects[k]
  /\ holds' = [holds EXCEPT !.objects[k] =
                 With(@, h, [conf |-> conf, dev |-> holds.device, on |-> None])]

(* What was bound to a stream that is destroyed is bound to none.          *)
Destroy(k, h) ==
  LET gone(j) == IF j = k THEN {h} ELSE {}
      freed(o) == IF k = "stream" /\ o.on = h THEN [o EXCEPT !.on = None] ELSE o
  IN  /\ Call /\ h \in DOMAIN holds.objects[k]
      /\ holds' = [holds EXCEPT !.objects =
                     [j \in Kinds |-> [x \in DOMAIN @[j] \ gone(j) |-> freed(@[j][x])]]]

Bind(k, h, s) ==
  /\ Call /\ h \in DOMAIN holds.objects[k] /\ s \in DOMAIN holds.objects["stream"]
  /\ holds.objects[k][h].dev = holds.objects["stream"][s].dev
  /\ holds' = [holds EXCEPT !.objects[k][h].on = s]

SetDevice(d) == Call /\ holds' = [holds EXCEPT !.device = d]

Load(m) ==
  /\ Call /\ m \notin DOMAIN holds.modules
  /\ holds' = [holds EXCEPT !.modules = With(@, m, holds.device)]

(* A function is that of the module of the fat binary, where that is.      *)
Register(f, m) ==
  /\ Call /\ m \in DOMAIN holds.modules /\ f \notin DOMAIN holds.functions
  /\ holds' = [holds EXCEPT !.functions =
                 With(@, f, [key |-> m, dev |-> holds.modules[m]])]

Checkpoint ==
  /\ state = "up"
  /\ good' = TRUE /\ saved' = holds
  /\ UNCHANGED <<state, holds>>

(* The files are written over the old ones, and the server may end there.  *)
Spoil ==
  /\ state # "down"
  /\ good' = FALSE /\ saved' = NothingHeld
  /\ UNCHANGED <<state, holds>> \/ (state' = "down" /\ holds' = NothingHeld)

Stop ==
  /\ state # "down"
  /\ state' = "down" /\ holds' = NothingHeld
  /\ UNCHANGED <<good, saved>>

Restart ==
  /\ state = "down" /\ good
  /\ state' = "up" /\ holds' = saved
  /\ UNCHANGED <<good, saved>>

(* No good checkpoint, or a replay that gave up.                           *)
Lose ==
  /\ state = "down"
  /\ state' = "lost"
  /\ UNCHANGED <<holds, good, saved>>

Next ==
  \/ \E k \in Kinds, h \in Handle : \/ Destroy(k, h)
                                    \/ \E conf \in Confs : Create(k, h, conf)
                                    \/ \E s \in Handle : Bind(k, h, s)
  \/ \E d \in Devices : SetDevice(d)
  \/ \E m \in Modules : Load(m) \/ \E f \in Functions : Register(f, m)
  \/ Checkpoint \/ Spoil \/ Stop \/ Restart \/ Lose

Spec == Init /\ [][Next]_handleVars
===============================================================================
