--------------------------- MODULE AsymmetricSwitch ---------------------------
(***************************************************************************)
(* What asymmetric coroutines promise, without flags, saved registers or   *)
(* current-coroutine pointers: control of a thread is either with its main *)
(* program or in one coroutine, goes from main to a coroutine that has     *)
(* something to run, and always comes back to the main program of the same *)
(* thread.  A coroutine that is suspended in the middle of its callback is *)
(* continued or dropped, never restarted.  A thread that resumes a         *)
(* coroutine with nothing left to run is lost, with that coroutine and no  *)
(* other.  Coroutine implements this.                                      *)
(***************************************************************************)

CONSTANTS Thread, Task, Main

VARIABLES
  at,    \* per thread, who has control: Main or a coroutine
  life   \* per coroutine, "idle", "ready", "running", "suspended", "done"
         \* or "lost"

Lives == {"idle", "ready", "running", "suspended", "done", "lost"}

TypeOK ==
  /\ at \in [Thread -> Task \cup {Main}]
  /\ life \in [Task -> Lives]

Init ==
  /\ at = [t \in Thread |-> Main]
  /\ life = [c \in Task |-> "idle"]

Become(c, l) == life' = [life EXCEPT ![c] = l]

Arm(c) ==
  /\ life[c] \in {"idle", "ready", "done"}
  /\ Become(c, "ready")
  /\ UNCHANGED at

SwitchTo(t, c) ==
  /\ at[t] = Main
  /\ life[c] \in {"ready", "suspended"}
  /\ at' = [at EXCEPT ![t] = c]
  /\ Become(c, "running")

Lose(t, c) ==
  /\ at[t] = Main
  /\ life[c] = "done"
  /\ at' = [at EXCEPT ![t] = c]
  /\ Become(c, "lost")

SwitchBack(t) ==
  /\ at[t] # Main
  /\ life[at[t]] = "running"
  /\ at' = [at EXCEPT ![t] = Main]
  /\ \E l \in {"suspended", "done"} : Become(at[t], l)

Drop(c) ==
  /\ life[c] \notin {"running", "lost"}
  /\ Become(c, "idle")
  /\ UNCHANGED at

Next ==
  \/ \E c \in Task : Arm(c) \/ Drop(c)
  \/ \E t \in Thread : SwitchBack(t) \/ \E c \in Task : SwitchTo(t, c) \/ Lose(t, c)

Spec == Init /\ [][Next]_<<at, life>>
=============================================================================
