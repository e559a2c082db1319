------------------------------ MODULE ObjectPool ------------------------------
(***************************************************************************)
(* What a pool of reusable objects promises, without slots, indices, locks *)
(* or growth in steps: an object that exists is held by one client or by   *)
(* nobody, only clean objects are given out, and an object that is given   *)
(* back is clean again.  CoroutinePool implements this specification; an   *)
(* object is clean when neither of its two flags is set.                   *)
(***************************************************************************)

CONSTANTS Client, Object, Nobody, Absent

VARIABLES
  holder,  \* per object, the client that holds it, Nobody, or Absent
  clean    \* the clean objects

TypeOK ==
  /\ holder \in [Object -> Client \cup {Nobody, Absent}]
  /\ clean \subseteq Object

Init ==
  /\ holder = [c \in Object |-> Absent]
  /\ clean = Object

Move(c, from, to) ==
  /\ holder[c] = from
  /\ holder' = [holder EXCEPT ![c] = to]

Create(c) == Move(c, Absent, Nobody) /\ c \in clean /\ UNCHANGED clean

Acquire(p, c) == Move(c, Nobody, p) /\ c \in clean /\ UNCHANGED clean

Use(p, c) ==
  /\ holder[c] = p
  /\ clean' \in {clean \ {c}, clean \cup {c}}
  /\ UNCHANGED holder

Release(p, c) == Move(c, p, Nobody) /\ clean' = clean \cup {c}

Next == \E c \in Object :
  \/ Create(c)
  \/ \E p \in Client : Acquire(p, c) \/ Use(p, c) \/ Release(p, c)

Spec == Init /\ [][Next]_<<holder, clean>>
=============================================================================
