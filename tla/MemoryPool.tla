------------------------------ MODULE MemoryPool ------------------------------
(***************************************************************************)
(* The memory pool of memory.h and memory.cc, used by several threads.     *)
(*                                                                         *)
(* A block address is a pair <<region, index>>: the heap region of its     *)
(* group (m_start) and the index of the block in that group.  A step of    *)
(* the model is what one thread does between two points where another      *)
(* thread can look: the two counters are atomics read and changed without  *)
(* the lock, the groups are touched under m_mutex only.  Acquiring the     *)
(* lock is merged with the first step of its critical section, releasing   *)
(* it with the last.  m_block_groups is 0-based in C++, 1-based here.      *)
(***************************************************************************)
EXTENDS Integers, Sequences, FiniteSets

CONSTANTS
  Threads,     \* threads that call the pool
  NoThread,    \* value of the mutex when nobody holds it
  NoBlock,     \* value of addr[t] when thread t is in no call
  Regions,     \* heap regions operator new can return for a group
  GroupSize,   \* m_block_group_size
  BlockCount,  \* block_count, first argument of the constructor
  CounterMax,  \* UINT32_MAX, the largest value of the two counters
  MaxUsed,     \* bound: clients call getBlock only below this many used blocks
  Quiescent    \* TRUE: recovery() is never called while a backBlock() is under way

ASSUME ThreadsAssumption == NoThread \notin Threads
ASSUME NoBlockAssumption == NoBlock \notin Regions \X (0 .. GroupSize - 1)
ASSUME SizesAssumption ==
  /\ GroupSize \in Nat \ {0}
  /\ BlockCount \in Nat
  /\ CounterMax \in Nat
  /\ MaxUsed \in Nat
  /\ (BlockCount \div GroupSize + 1) * GroupSize <= CounterMax
ASSUME QuiescentAssumption == Quiescent \in BOOLEAN

VARIABLES
  groups,   \* m_block_groups: sequence of [start, flags]
  use,      \* m_use_counts
  all,      \* m_all_counts
  mutex,    \* m_mutex: the thread that holds it, or NoThread
  pc,       \* per thread, the next step of the call it is in
  addr,     \* per thread, the block that call is about (argument or result)
  index,    \* per thread, temp.second in backBlock, i in recovery
  held      \* the blocks clients own: returned by getBlock, not yet given back

vars == <<groups, use, all, mutex, pc, addr, index, held>>

-----------------------------------------------------------------------------
(* Data *)

Indices == 0 .. GroupSize - 1
Address == Regions \X Indices
Group   == [start : Regions, flags : [Indices -> BOOLEAN]]

\* Mutant: one flag more than the group has blocks.
NewGroupExtraFlag(r) == [start |-> r, flags |-> [b \in 0 .. GroupSize |-> FALSE]]

\* A group that has just been built: every flag false.
NewGroup(r) == [start |-> r, flags |-> [b \in Indices |-> FALSE]]

\* The atomic counters are uint32_t and wrap round.
Plus(n, d)  == IF n + d > CounterMax THEN n + d - (CounterMax + 1) ELSE n + d
Minus(n, d) == IF n < d THEN n - d + (CounterMax + 1) ELSE n - d

Starts(s) == {s[i].start : i \in DOMAIN s}

\* hasBlockHelp: address a lies in group i.
InGroup(i, a) == i \in DOMAIN groups /\ groups[i].start = a[1]

\* usedBlockHelp, for every address: the blocks whose flag is set.
Used == {a \in Address : \E i \in DOMAIN groups :
                            InGroup(i, a) /\ groups[i].flags[a[2]]}

\* The block getBlock finds: first false flag of the first group that has one.
FirstFree(i, b) ==
  /\ ~ groups[i].flags[b]
  /\ \A c \in Indices : c < b => groups[i].flags[c]
  /\ \A j \in DOMAIN groups : j < i => \A c \in Indices : groups[j].flags[c]

\* Mutant: only the newest group is searched.
NoneFreeInLast ==
  \A i \in DOMAIN groups : \A b \in Indices : i = Len(groups) => groups[i].flags[b]

NoneFree == \A i \in DOMAIN groups : \A b \in Indices : groups[i].flags[b]

\* Mutant: only the first flag is looked at.
UnusedFirst(i) == ~ groups[i].flags[0]

Unused(i) == \A b \in Indices : ~ groups[i].flags[b]

\* Mutants: pop_back without the swap; nothing popped.
PopOnly(s, i) == [j \in 1 .. Len(s) - 1 |-> s[j]]
SwapOnly(s, i) == [s EXCEPT ![i] = s[Len(s)], ![Len(s)] = s[i]]

\* Mutant: the group is erased, those behind it move up.
Shift(s, i) == [j \in 1 .. Len(s) - 1 |-> IF j < i THEN s[j] ELSE s[j + 1]]

\* recovery: swap(groups[i], groups.back()) and pop_back().
SwapPop(s, i) ==
  [j \in 1 .. Len(s) - 1 |-> IF j = i THEN s[Len(s)] ELSE s[j]]

-----------------------------------------------------------------------------
(* Threads by the step they are at *)

GrowSteps == {"growUse", "growAll", "growFlag"}
BackSteps == {"backUse", "backClear"}
LockSteps == {"count", "sweep"} \cup GrowSteps
OwnerSteps == {"count"} \cup BackSteps   \* the call owns the used block addr[t]
Steps     == {"idle"} \cup LockSteps \cup BackSteps

At(S) == {t \in Threads : pc[t] \in S}

\* Thread t calls the pool and has waited for the lock to be free.
Enter(t) == pc[t] = "idle" /\ mutex = NoThread

\* The call of thread t goes on at step s, about block a and group i.
Continue(t, s, a, i) ==
  /\ pc'    = [pc EXCEPT ![t] = s]
  /\ addr'  = [addr EXCEPT ![t] = a]
  /\ index' = [index EXCEPT ![t] = i]

Goto(t, s) == Continue(t, s, addr[t], index[t])
Leave(t)   == Continue(t, "idle", NoBlock, 0)

-----------------------------------------------------------------------------
(* The constructor: block_count \div group size + 1 groups. *)

InitialGroups == BlockCount \div GroupSize + 1

Init ==
  /\ \E r \in [1 .. InitialGroups -> Regions] :
       /\ \A i, j \in 1 .. InitialGroups : r[i] = r[j] => i = j
       /\ groups = [i \in 1 .. InitialGroups |-> NewGroup(r[i])]
  /\ use = 0
  /\ all = InitialGroups * GroupSize
  /\ mutex = NoThread
  /\ pc = [t \in Threads |-> "idle"]
  /\ addr = [t \in Threads |-> NoBlock]
  /\ index = [t \in Threads |-> 0]
  /\ held = {}

-----------------------------------------------------------------------------
(* getBlock() *)

\* Bound: clients ask for a block only while fewer than MaxUsed are in use.
Room == Cardinality(Used) < MaxUsed

\* Lock, find the first free block, set its flag.
TakeFree(t) ==
  /\ Enter(t) /\ Room
  /\ \E i \in DOMAIN groups, b \in Indices :
       /\ FirstFree(i, b)
       /\ groups' = [groups EXCEPT ![i].flags[b] = TRUE]
       /\ Continue(t, "count", <<groups[i].start, b>>, 0)
  /\ mutex' = t
  /\ UNCHANGED <<use, all, held>>

\* m_use_counts++, unlock, return the block.
CountTaken(t) ==
  /\ pc[t] = "count"
  /\ use' = Plus(use, 1)
  /\ held' = held \cup {addr[t]}
  /\ mutex' = NoThread
  /\ Leave(t)
  /\ UNCHANGED <<groups, all>>

\* Lock, find no free block, append a group.  operator new returns a region
\* that no live group occupies (when it cannot, the noexcept constructor of
\* the group ends the process).
Grow(t) ==
  /\ Enter(t) /\ Room
  /\ NoneFree
  /\ \E r \in Regions \ Starts(groups) :
       /\ groups' = Append(groups, NewGroup(r))
       /\ Continue(t, "growUse", <<r, 0>>, 0)
  /\ mutex' = t
  /\ UNCHANGED <<use, all, held>>

\* Mutant: the growth path forgets m_use_counts++.
GrowUncounted(t) ==
  /\ pc[t] = "growUse"
  /\ Goto(t, "growAll")
  /\ UNCHANGED <<groups, use, all, mutex, held>>

GrowUse(t) ==
  /\ pc[t] = "growUse"
  /\ use' = Plus(use, 1)
  /\ Goto(t, "growAll")
  /\ UNCHANGED <<groups, all, mutex, held>>

GrowAll(t) ==
  /\ pc[t] = "growAll"
  /\ all' = Plus(all, GroupSize)
  /\ Goto(t, "growFlag")
  /\ UNCHANGED <<groups, use, mutex, held>>

\* Set flag 0 of the new group, unlock, return its first block.
GrowFlag(t) ==
  /\ pc[t] = "growFlag"
  /\ groups' = [groups EXCEPT ![Len(groups)].flags[0] = TRUE]
  /\ held' = held \cup {addr[t]}
  /\ mutex' = NoThread
  /\ Leave(t)
  /\ UNCHANGED <<use, all>>

-----------------------------------------------------------------------------
(* backBlock(a), called by any thread for a block that clients own *)

\* Mutant: hasBlockHelp does not take the lock.
BackFindUnlocked(t, a) ==
  /\ pc[t] = "idle"
  /\ \E i \in DOMAIN groups :
       InGroup(i, a) /\ Continue(t, "backUse", a, i)
  /\ held' = held \ {a}
  /\ UNCHANGED <<groups, use, all, mutex>>

\* hasBlockHelp, a critical section of its own: look for the group of a.
BackFind(t, a) ==
  /\ Enter(t)
  /\ \E i \in DOMAIN groups :
       InGroup(i, a) /\ Continue(t, "backUse", a, i)
  /\ held' = held \ {a}
  /\ UNCHANGED <<groups, use, all, mutex>>

\* hasBlockHelp finds no group: backBlock logs an error and returns.
BackUnknown(t, a) ==
  /\ Enter(t)
  /\ \A i \in DOMAIN groups : ~ InGroup(i, a)
  /\ held' = held \ {a}
  /\ UNCHANGED <<groups, use, all, mutex, pc, addr, index>>

\* m_use_counts-- : the lock is not held.
BackUse(t) ==
  /\ pc[t] = "backUse"
  /\ use' = Minus(use, 1)
  /\ Goto(t, "backClear")
  /\ UNCHANGED <<groups, all, mutex, held>>

\* Mutant: the flag is left set.
BackForgotten(t) ==
  /\ pc[t] = "backClear" /\ mutex = NoThread
  /\ InGroup(index[t], addr[t])
  /\ Leave(t)
  /\ UNCHANGED <<groups, use, all, mutex, held>>

\* Lock again and clear the flag in the group found above.
BackClear(t) ==
  /\ pc[t] = "backClear" /\ mutex = NoThread
  /\ InGroup(index[t], addr[t])
  /\ groups' = [groups EXCEPT ![index[t]].flags[addr[t][2]] = FALSE]
  /\ Leave(t)
  /\ UNCHANGED <<use, all, mutex, held>>

\* The group found above has moved: addr - m_start is the difference of
\* pointers into two regions, the index it gives is outside the flags of the
\* group (or the group itself is past the end of the vector).  The write is
\* undefined: it clears some flag of some group, or strikes elsewhere.
BackStray(t) ==
  /\ pc[t] = "backClear" /\ mutex = NoThread
  /\ ~ InGroup(index[t], addr[t])
  /\ \/ UNCHANGED groups
     \/ \E i \in DOMAIN groups, b \in Indices :
          groups' = [groups EXCEPT ![i].flags[b] = FALSE]
  /\ Leave(t)
  /\ UNCHANGED <<use, all, mutex, held>>

-----------------------------------------------------------------------------
(* recovery() *)

SweepStart(t) ==
  /\ Enter(t)
  /\ Quiescent => At(BackSteps) = {}
  /\ Continue(t, "sweep", NoBlock, 1)
  /\ mutex' = t
  /\ UNCHANGED <<groups, use, all, held>>

\* Mutant: m_all_counts is not reduced.
SweepUncounted(t) ==
  /\ pc[t] = "sweep" /\ index[t] <= Len(groups)
  /\ Unused(index[t])
  /\ groups' = SwapPop(groups, index[t])
  /\ UNCHANGED <<use, all, mutex, pc, addr, index, held>>

\* No block of group i is used: free the group, do not advance.
SweepRelease(t) ==
  /\ pc[t] = "sweep" /\ index[t] <= Len(groups)
  /\ Unused(index[t])
  /\ groups' = SwapPop(groups, index[t])
  /\ all' = Minus(all, GroupSize)
  /\ UNCHANGED <<use, mutex, pc, addr, index, held>>

SweepKeep(t) ==
  /\ pc[t] = "sweep" /\ index[t] <= Len(groups)
  /\ ~ Unused(index[t])
  /\ Continue(t, "sweep", NoBlock, index[t] + 1)
  /\ UNCHANGED <<groups, use, all, mutex, held>>

SweepEnd(t) ==
  /\ pc[t] = "sweep" /\ index[t] > Len(groups)
  /\ mutex' = NoThread
  /\ Leave(t)
  /\ UNCHANGED <<groups, use, all, held>>

-----------------------------------------------------------------------------
(* The specification *)

GetBlock(t) ==
  \/ TakeFree(t) \/ CountTaken(t)
  \/ Grow(t) \/ GrowUse(t) \/ GrowAll(t) \/ GrowFlag(t)

BackBlock(t) ==
  \/ \E a \in held : BackFind(t, a) \/ BackUnknown(t, a)
  \/ BackUse(t) \/ BackClear(t) \/ BackStray(t)

Recovery(t) ==
  SweepStart(t) \/ SweepRelease(t) \/ SweepKeep(t) \/ SweepEnd(t)

Next == \E t \in Threads : GetBlock(t) \/ BackBlock(t) \/ Recovery(t)

Spec == Init /\ [][Next]_vars

\* A thread that is inside a call is scheduled again: it finishes the critical
\* section it is in, and goes on when the lock it waits for stays free.
Inside(t) == pc[t] # "idle" /\ (GetBlock(t) \/ BackBlock(t) \/ Recovery(t))

FairSpec == Spec /\ \A t \in Threads : WF_vars(Inside(t))

-----------------------------------------------------------------------------
(* Properties *)

TypeOK ==
  /\ groups \in Seq(Group)
  /\ use \in 0 .. CounterMax
  /\ all \in 0 .. CounterMax
  /\ mutex \in Threads \cup {NoThread}
  /\ pc \in [Threads -> Steps]
  /\ addr \in [Threads -> Address \cup {NoBlock}]
  /\ index \in [Threads -> Nat]
  /\ held \in SUBSET Address

BlocksAt(S) == {addr[t] : t \in At(S)}

\* Every used block has exactly one owner and every owned block is used: the
\* clients, one getBlock about to return it, or one backBlock that was given
\* it.  So getBlock never hands out a block somebody still owns, recovery
\* never frees the memory under an owner, and no block is lost.
Ownership ==
  /\ Used = held \cup BlocksAt(OwnerSteps)
  /\ held \cap BlocksAt(OwnerSteps) = {}
  /\ \A t1, t2 \in At(OwnerSteps) : addr[t1] = addr[t2] => t1 = t2

\* The group backBlock found under its first lock is still the group of its
\* block when it takes the lock the second time.
ReturnedIndexValid ==
  \A t \in At(BackSteps) : InGroup(index[t], addr[t])

\* That index goes stale in one way only, whoever gets blocks, gives them back,
\* grows the pool or sweeps it meanwhile: a recovery frees the very group it
\* stands for, or that group is the last one and is moved to where it frees one.
IndexKept ==
  [][\A t \in Threads :
       /\ {pc[t], pc'[t]} \subseteq BackSteps
       /\ InGroup(index[t], addr[t])
       /\ ~ InGroup(index[t], addr[t])'
       => \E u \in Threads : SweepRelease(u) /\ index[t] \in {index[u], Len(groups)}]_vars

\* m_use_counts is the number of blocks clients own, but for calls under way;
\* it is exact when no call is, and never wraps.
UseCountExact ==
  use = Cardinality(held) + Cardinality(At({"backUse", "growAll", "growFlag"}))

\* m_all_counts is the number of blocks of all the groups, but for the group a
\* getBlock has appended and not counted yet.
AllCountExact ==
  all + GroupSize * Cardinality(At({"growUse", "growAll"})) = GroupSize * Len(groups)

\* What the two lock-free getters report: getUseCount() <= getAllCount().
UsedNeverExceedsAll == use <= all

\* Memory only grows on demand: never more groups than at the start or than
\* the peak number of used blocks needs.
CapacityBound ==
  \/ Len(groups) <= InitialGroups
  \/ GroupSize * (Len(groups) - 1) < MaxUsed

\* Whoever has the lock gives it back: recovery's loop, whose index does not
\* advance when a group is freed, always ends.
LockReleased == \A t \in Threads : mutex = t ~> mutex # t
-----------------------------------------------------------------------------
(* The inductive invariant behind Ownership, when Quiescent *)

\* The lock is held by the thread that is in a critical section.
MutexInv == \A t \in Threads : mutex = t <=> pc[t] \in LockSteps

\* Two groups never occupy the same region.
DistinctStarts ==
  \A i, j \in DOMAIN groups : groups[i].start = groups[j].start => i = j

\* The group a getBlock has appended is the last one and still untouched.
GrowInv ==
  \A t \in At(GrowSteps) :
    /\ Len(groups) > 0
    /\ addr[t] = <<groups[Len(groups)].start, 0>>
    /\ Unused(Len(groups))

\* recovery runs while no backBlock is between its two critical sections.
SweepQuiet == At({"sweep"}) # {} => At(BackSteps) = {}

\* A call that is about a block has the address of a block, recovery has the
\* index of a group or the one after the last.
CallInv == \A t \in Threads :
  /\ pc[t] \notin {"idle", "sweep"} => addr[t] \in Address
  /\ pc[t] = "sweep" => index[t] > 0

\* The state is consistent at every point where two threads can interleave:
\* the conjunction that every step preserves.
IInv ==
  /\ TypeOK
  /\ CallInv
  /\ MutexInv
  /\ DistinctStarts
  /\ GrowInv
  /\ SweepQuiet
  /\ ReturnedIndexValid
  /\ Ownership

-----------------------------------------------------------------------------
(* The promise to clients *)

Stage == [a \in Address |->
  IF a \in held THEN "held"
  ELSE IF a \in BlocksAt({"count"} \cup GrowSteps) THEN "granting"
  ELSE IF a \in BlocksAt(BackSteps) THEN "returning"
  ELSE IF a \in Used THEN "lost"
  ELSE "free"]

Allocator == INSTANCE BlockAllocator WITH Block <- Address, status <- Stage

\* The pool implements the abstract allocator.
AllocatorSpec == Allocator!Spec
=============================================================================
