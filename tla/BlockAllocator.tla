---------------------------- MODULE BlockAllocator ----------------------------
(***************************************************************************)
(* What a memory pool promises to its clients, without groups, flags,      *)
(* counters or locks: every block goes round one cycle                     *)
(*                                                                         *)
(*     free -> granting -> held -> returning -> free                       *)
(*                                                                         *)
(* one block at a time.  A block is granted only when it is free, so two   *)
(* clients never own the same block; a returned block becomes free again,  *)
(* so none is lost.  MemoryPool implements this specification.             *)
(***************************************************************************)

CONSTANT Block

VARIABLE status

Stages == {"free", "granting", "held", "returning"}

TypeOK == status \in [Block -> Stages]

Init == status = [a \in Block |-> "free"]

Move(a, from, to) ==
  /\ status[a] = from
  /\ status' = [status EXCEPT ![a] = to]

\* getBlock picks a block, then hands it to its caller.
Reserve(a) == Move(a, "free", "granting")
Grant(a)   == Move(a, "granting", "held")

\* backBlock takes a block from its caller, then frees it.
Return(a)  == Move(a, "held", "returning")
Free(a)    == Move(a, "returning", "free")

Next == \E a \in Block : Reserve(a) \/ Grant(a) \/ Return(a) \/ Free(a)

Spec == Init /\ [][Next]_status
=============================================================================
