----------------------------- MODULE CoroutinePool -----------------------------
(***************************************************************************)
(* One CoroutinePool (coroutine_pool.cc) used by several threads: slots    *)
(* that pair a coroutine with an in-use flag, growth by half under the     *)
(* lock, coroutine ids that serve as indices, and the memory pool the      *)
(* stacks come from (BlockAllocator: what MemoryPool is shown to be).      *)
(*                                                                         *)
(* slots[i] is m_coroutines[i] for i > 0; the dummy m_coroutines[0] is     *)
(* never given out and left out, so getPoolSize() is Len(slots) and        *)
(* m_coroutines.size() is Len(slots) + 1.  A coroutine is named by its id. *)
(***************************************************************************)
EXTENDS Integers, Sequences, FiniteSets

CONSTANTS
  Threads,
  Nobody,      \* no thread: a lock that is free, a coroutine that is not held
  Absent,      \* where a coroutine that does not exist yet is held
  Block,       \* the stack blocks of the memory pool
  PoolSize,    \* pool_size of the constructor
  MaxSlots,    \* bound: the pool does not grow beyond it
  MaxOthers,   \* bound: number of coroutines made outside of this pool
  Mixed,       \* TRUE: the program makes them at any time; FALSE: only when this
               \* pool has reached its final size, MaxSlots
  Unlocked     \* TRUE: the program calls resize at any time, without the lock;
               \* FALSE: it keeps other threads out of the pool meanwhile

ASSUME SentinelAssumption ==
  Nobody \notin Threads /\ Absent \notin Threads \cup Block /\ Nobody # Absent
ASSUME BoundsAssumption ==
  PoolSize \in Nat /\ MaxSlots \in Nat /\ MaxOthers \in Nat /\ PoolSize <= MaxSlots
ASSUME ClientAssumption == Unlocked \in BOOLEAN /\ Mixed \in BOOLEAN

VARIABLES
  slots,    \* m_coroutines without its first element
  open,     \* calls are let in: the constructor has ended (call_once), and no
            \* resize is under way for which the program keeps others out
  mutex,    \* m_mutex: the thread that has it
  nextId,   \* t_cur_coroutine_id, shared by all pools of the process
  stack,    \* per coroutine, m_stack_sp: a block, or Absent
  running,  \* per coroutine, m_cbfunc_running_flag
  resume,   \* per coroutine, m_resume_flag
  pc,       \* per thread, the step it is at
  next,     \* per thread, i in resize
  goal,     \* per thread, new_size in resize
  old,      \* per thread, old_size in getCoroutine; 0 in other calls of resize
  block,    \* per thread, the block getBlock has returned
  made,     \* per thread, the coroutine just constructed
  end,      \* per thread, the slot emplace_back is about to fill
  status,   \* the blocks of the memory pool
  owner,    \* per coroutine, the thread it was given to
  peak,     \* most coroutines in use at a time, the call under way included
  asked     \* largest size the constructor or a call of resize was given

allocVars  == <<status, block>>
growVars   == <<next, goal, old, made, end>>
flagVars   == <<running, resume>>
clientVars == <<owner, peak, asked>>
vars == <<slots, open, mutex, nextId, stack, flagVars, pc, growVars, allocVars, clientVars>>

-----------------------------------------------------------------------------
(* Values *)

MaxId == MaxSlots + MaxOthers
Ids == 1 .. MaxId

\* "out": not in a call, or waiting for the lock.  The others are the steps of
\* resize: the head of its loop, getBlock, the constructor of the coroutine, the
\* end of emplace_back.
Steps == {"out", "loop", "grant", "make", "store"}

Memory == INSTANCE BlockAllocator

Larger(m, n) == IF m > n THEN m ELSE n

\* Thread t is at step s; only a pool that is open can be called.
At(t, s) == pc[t] = s /\ (s = "out" => open)

Goto(t, s) == pc' = [pc EXCEPT ![t] = s]

Owned == {c \in Ids : owner[c] # Nobody}

Unused == {i \in DOMAIN slots : ~ slots[i].second}

\* static_cast<uint32_t>(1.5 * size)
Half(size) == (3 * size) \div 2

\* Before the loop of resize, called by the constructor in one of the threads.
Init ==
  /\ slots = << >>
  /\ open = (PoolSize = 0)
  /\ mutex = Nobody
  /\ nextId = 1
  /\ stack = [c \in Ids |-> Absent]
  /\ running = [c \in Ids |-> FALSE]
  /\ resume = [c \in Ids |-> FALSE]
  /\ \E t \in Threads :
       pc = [u \in Threads |-> IF u = t /\ PoolSize > 0 THEN "loop" ELSE "out"]
  /\ next = [t \in Threads |-> 1]
  /\ goal = [t \in Threads |-> IF pc[t] = "loop" THEN PoolSize ELSE 0]
  /\ old = [t \in Threads |-> 0]
  /\ block = [t \in Threads |-> Absent]
  /\ made = [t \in Threads |-> 0]
  /\ end = [t \in Threads |-> 0]
  /\ Memory!Init
  /\ owner = [c \in Ids |-> Nobody]
  /\ peak = 0
  /\ asked = PoolSize

-----------------------------------------------------------------------------
(* getCoroutine *)

\* One more coroutine is asked for.
Demand == peak' = Larger(peak, Cardinality(Owned) + 1)

Give(t, i) == owner' = [owner EXCEPT ![slots[i].first] = t]

\* Mutant: the slot is not marked.
GetFreeUnmarked(t, i) ==
  /\ At(t, "out") /\ mutex = Nobody
  /\ i \in Unused /\ \A j \in Unused : i <= j
  /\ Give(t, i)
  /\ Demand
  /\ UNCHANGED <<slots, open, mutex, nextId, stack, flagVars, pc, growVars, allocVars, asked>>

\* The first slot that is not in use, in one critical section.
GetFree(t, i) ==
  /\ At(t, "out") /\ mutex = Nobody
  /\ i \in Unused /\ \A j \in Unused : i <= j
  /\ slots' = [slots EXCEPT ![i].second = TRUE]
  /\ Give(t, i)
  /\ Demand
  /\ UNCHANGED <<open, mutex, nextId, stack, flagVars, pc, growVars, allocVars, asked>>

\* resize(size) begins its loop.
StartLoop(t, size) ==
  /\ size > Len(slots)
  /\ size <= MaxSlots
  /\ next' = [next EXCEPT ![t] = Len(slots) + 1]
  /\ goal' = [goal EXCEPT ![t] = size]
  /\ Goto(t, "loop")

\* Mutants: the search stops before the last slot; the lock is not held.
GetNoneShort(t) ==
  /\ At(t, "out") /\ mutex = Nobody
  /\ Unused \subseteq {Len(slots)}
  /\ mutex' = t
  /\ old' = [old EXCEPT ![t] = Len(slots) + 1]
  /\ StartLoop(t, Half(Len(slots) + 1))
  /\ Demand
  /\ UNCHANGED <<slots, open, nextId, stack, flagVars, made, end, allocVars, owner, asked>>

GetNoneUnlocked(t) ==
  /\ At(t, "out") /\ mutex = Nobody
  /\ Unused = {}
  /\ old' = [old EXCEPT ![t] = Len(slots) + 1]
  /\ StartLoop(t, Half(Len(slots) + 1))
  /\ Demand
  /\ UNCHANGED <<slots, open, mutex, nextId, stack, flagVars, made, end, allocVars, owner, asked>>

\* None: the lock is kept, old_size = m_coroutines.size(), and resize.
GetNone(t) ==
  /\ At(t, "out") /\ mutex = Nobody
  /\ Unused = {}
  /\ mutex' = t
  /\ old' = [old EXCEPT ![t] = Len(slots) + 1]
  /\ StartLoop(t, Half(Len(slots) + 1))
  /\ Demand
  /\ UNCHANGED <<slots, open, nextId, stack, flagVars, made, end, allocVars, owner, asked>>

\* The locals of the call are gone.
Return(t) ==
  /\ next' = [next EXCEPT ![t] = 1]
  /\ goal' = [goal EXCEPT ![t] = 0]
  /\ old' = [old EXCEPT ![t] = 0]
  /\ block' = [block EXCEPT ![t] = Absent]
  /\ made' = [made EXCEPT ![t] = 0]
  /\ end' = [end EXCEPT ![t] = 0]
  /\ Goto(t, "out")

\* Mutant: the lock is not released.
GetNewLocked(t) ==
  /\ At(t, "loop") /\ next[t] > goal[t] /\ old[t] # 0
  /\ slots' = [slots EXCEPT ![old[t]].second = TRUE]
  /\ Give(t, old[t])
  /\ Return(t)
  /\ UNCHANGED <<open, mutex, nextId, stack, flagVars, status, peak, asked>>

\* After resize: slot old_size is marked and given out, the lock is released.
GetNew(t) ==
  /\ At(t, "loop") /\ next[t] > goal[t] /\ old[t] # 0
  /\ slots' = [slots EXCEPT ![old[t]].second = TRUE]
  /\ Give(t, old[t])
  /\ mutex' = Nobody
  /\ Return(t)
  /\ UNCHANGED <<open, nextId, stack, flagVars, status, peak, asked>>

-----------------------------------------------------------------------------
(* resize *)

\* Called by the program.
Resize(t) ==
  /\ At(t, "out")
  /\ IF Unlocked THEN UNCHANGED open ELSE mutex = Nobody /\ open' = FALSE
  /\ \E size \in 1 .. MaxSlots :
       StartLoop(t, size) /\ asked' = Larger(asked, size)
  /\ UNCHANGED <<slots, mutex, nextId, stack, flagVars, old, made, end, allocVars, owner, peak>>

\* getBlock picks a block ...
PickBlock(t) ==
  /\ At(t, "loop") /\ next[t] <= goal[t]
  /\ \E b \in Block : Memory!Reserve(b) /\ block' = [block EXCEPT ![t] = b]
  /\ Goto(t, "grant")
  /\ UNCHANGED <<slots, open, mutex, nextId, stack, flagVars, growVars, clientVars>>

\* ... and returns it.
GetBlock(t) ==
  /\ At(t, "grant")
  /\ Memory!Grant(block[t])
  /\ Goto(t, "make")
  /\ UNCHANGED <<slots, open, mutex, nextId, stack, flagVars, growVars, block, clientVars>>

\* Mutant: ids count from 0, the id of the main coroutines.
MakeFromZero(t) ==
  /\ At(t, "make")
  /\ end' = [end EXCEPT ![t] = Len(slots) + 1]
  /\ made' = [made EXCEPT ![t] = nextId - 1]
  /\ nextId' = nextId + 1
  /\ stack' = [stack EXCEPT ![nextId] = block[t]]
  /\ Goto(t, "store")
  /\ UNCHANGED <<slots, open, mutex, flagVars, next, goal, old, allocVars, clientVars>>

\* emplace_back finds the end of the vector and constructs the coroutine there,
\* which draws its id.
Make(t) ==
  /\ At(t, "make")
  /\ end' = [end EXCEPT ![t] = Len(slots) + 1]
  /\ made' = [made EXCEPT ![t] = nextId]
  /\ nextId' = nextId + 1
  /\ stack' = [stack EXCEPT ![nextId] = block[t]]
  /\ Goto(t, "store")
  /\ UNCHANGED <<slots, open, mutex, flagVars, next, goal, old, allocVars, clientVars>>

\* The new slot is the last one.  (Two emplace_backs that overlap are a data
\* race: in the outcome modelled here the later one wins.)
Emplace(t) ==
  slots' = [i \in 1 .. end[t] |-> IF i = end[t]
              THEN [first |-> made[t], second |-> FALSE] ELSE slots[i]]

\* Mutants: the block is used for the next coroutine as well; the pair is pushed
\* in front.
StoreKeepBlock(t) ==
  /\ At(t, "store")
  /\ Emplace(t)
  /\ next' = [next EXCEPT ![t] = @ + 1]
  /\ Goto(t, IF next[t] < goal[t] THEN "make" ELSE "loop")
  /\ UNCHANGED <<open, mutex, nextId, stack, flagVars, goal, old, made, end, allocVars, clientVars>>

StoreFront(t) ==
  /\ At(t, "store")
  /\ slots' = <<[first |-> made[t], second |-> FALSE]>> \o slots
  /\ next' = [next EXCEPT ![t] = @ + 1]
  /\ Goto(t, "loop")
  /\ UNCHANGED <<open, mutex, nextId, stack, flagVars, goal, old, made, end, allocVars, clientVars>>

Store(t) ==
  /\ At(t, "store")
  /\ Emplace(t)
  /\ next' = [next EXCEPT ![t] = @ + 1]
  /\ Goto(t, "loop")
  /\ UNCHANGED <<open, mutex, nextId, stack, flagVars, goal, old, made, end, allocVars, clientVars>>

\* The loop ends, in the constructor or in a call of the program.
ResizeEnd(t) ==
  /\ At(t, "loop") /\ next[t] > goal[t] /\ old[t] = 0
  /\ open' = TRUE
  /\ Return(t)
  /\ UNCHANGED <<slots, mutex, nextId, stack, flagVars, status, clientVars>>

-----------------------------------------------------------------------------
(* backCoroutine(c), by the thread that c was given to; index is its id *)

\* Mutants: the resume flag stays; the flag of the slot before is cleared.
BackResumable(t, c) ==
  /\ At(t, "out") /\ mutex = Nobody /\ owner[c] = t
  /\ slots[c].second
  /\ slots' = [slots EXCEPT ![c].second = FALSE]
  /\ running' = [running EXCEPT ![slots[c].first] = FALSE]
  /\ owner' = [owner EXCEPT ![c] = Nobody]
  /\ UNCHANGED <<open, mutex, nextId, stack, resume, pc, growVars, allocVars, peak, asked>>

BackByOffset(t, c) ==
  /\ At(t, "out") /\ mutex = Nobody /\ owner[c] = t
  /\ slots' = [slots EXCEPT ![Larger(c - 1, 1)].second = FALSE]
  /\ running' = [running EXCEPT ![c] = FALSE]
  /\ resume' = [resume EXCEPT ![c] = FALSE]
  /\ owner' = [owner EXCEPT ![c] = Nobody]
  /\ UNCHANGED <<open, mutex, nextId, stack, pc, growVars, allocVars, peak, asked>>

\* A slot that is not in use is left alone.  (An index past the end, which only
\* a coroutine of another pool can have, is undefined and not followed.)
Back(t, c) ==
  /\ At(t, "out") /\ mutex = Nobody /\ owner[c] = t
  /\ c \in DOMAIN slots
  /\ IF slots[c].second
     THEN /\ slots' = [slots EXCEPT ![c].second = FALSE]
          /\ running' = [running EXCEPT ![slots[c].first] = FALSE]
          /\ resume' = [resume EXCEPT ![slots[c].first] = FALSE]
     ELSE UNCHANGED <<slots, flagVars>>
  /\ owner' = [owner EXCEPT ![c] = Nobody]
  /\ UNCHANGED <<open, mutex, nextId, stack, pc, growVars, allocVars, peak, asked>>

-----------------------------------------------------------------------------
(* Around the pool *)

\* The owner sets, resumes, suspends or finishes callbacks (module Coroutine):
\* the resume flag stays set, the running flag comes and goes.
Use(t, c) ==
  /\ At(t, "out") /\ owner[c] = t
  /\ resume' = [resume EXCEPT ![c] = TRUE]
  /\ running' = [running EXCEPT ![c] = ~ @]
  /\ UNCHANGED <<slots, open, mutex, nextId, stack, pc, growVars, allocVars, clientVars>>

\* A coroutine that does not belong to this pool draws an id.
Elsewhere ==
  /\ Mixed \/ Len(slots) = MaxSlots
  /\ nextId - 1 - Cardinality({c \in Ids : stack[c] # Absent}) < MaxOthers
  /\ nextId' = nextId + 1
  /\ UNCHANGED <<slots, open, mutex, stack, flagVars, pc, growVars, allocVars, clientVars>>

-----------------------------------------------------------------------------
Grow(t) == PickBlock(t) \/ GetBlock(t) \/ Make(t) \/ Store(t) \/ GetNew(t) \/ ResizeEnd(t)

Next ==
  \/ \E t \in Threads :
       \/ Grow(t) \/ GetNone(t) \/ Resize(t)
       \/ \E i \in DOMAIN slots : GetFree(t, i)
       \/ \E c \in Ids : Back(t, c) \/ Use(t, c)
  \/ Elsewhere

Spec == Init /\ [][Next]_vars

\* A thread that grows the pool is scheduled.
FairSpec == Spec /\ \A t \in Threads : WF_vars(Grow(t))
-----------------------------------------------------------------------------
(* Properties *)

TypeOK ==
  /\ slots \in Seq([first : Ids, second : BOOLEAN])
  /\ open \in BOOLEAN
  /\ mutex \in Threads \cup {Nobody}
  /\ nextId \in 1 .. MaxId + 1
  /\ stack \in [Ids -> Block \cup {Absent}]
  /\ running \in [Ids -> BOOLEAN] /\ resume \in [Ids -> BOOLEAN]
  /\ pc \in [Threads -> Steps]
  /\ next \in [Threads -> 1 .. MaxSlots + 1]
  /\ goal \in [Threads -> 0 .. MaxSlots]
  /\ old \in [Threads -> 0 .. MaxSlots]
  /\ block \in [Threads -> Block \cup {Absent}]
  /\ made \in [Threads -> Ids \cup {0}]
  /\ end \in [Threads -> 0 .. MaxSlots]
  /\ Memory!TypeOK
  /\ owner \in [Ids -> Threads \cup {Nobody}]
  /\ peak \in Nat /\ asked \in 0 .. MaxSlots

\* backCoroutine takes the id of a coroutine for the index of its slot; the
\* test of the pool expects CHECK_EQ(test_cor_f->getCorId(), i).  Ids are drawn
\* by a constructor that runs before the slot exists, from a counter the whole
\* process shares.
IdIsIndex == \A i \in DOMAIN slots : slots[i].first = i

\* A slot is in use exactly while some thread has its coroutine: a coroutine is
\* never given to a second thread and never lost to the pool.
UsedIsOwned == \A i \in DOMAIN slots :
  slots[i].second <=> owner[slots[i].first] # Nobody

\* Whoever gets a coroutine finds both flags false, whatever its last owner did
\* with it (the test checks it after every getCoroutine).
FreeIsClean == \A c \in Ids : owner[c] = Nobody => ~ running[c] /\ ~ resume[c]

\* No two coroutines of the pool have the same stack, and the memory pool has
\* not taken any of the stacks back.
StacksDisjoint == \A i, j \in DOMAIN slots :
  /\ stack[slots[i].first] \in Block
  /\ status[stack[slots[i].first]] = "held"
  /\ stack[slots[i].first] = stack[slots[j].first] => i = j

\* The pool follows demand: it is never more than half as large again as the
\* most coroutines that were asked for at a time, or as large as the constructor
\* or a resize was told to make it.
GrowthBound == Len(slots) <= Larger(asked, Half(peak))

\* A coroutine stays in its slot for the life of the pool, so that a pointer
\* that was given out stays good: resize says "the coroutine pools can only be
\* scaled up!" (coroutine_pool.cc:108).
SlotsStay ==
  [][\A i \in DOMAIN slots : i \in DOMAIN slots' /\ slots'[i].first = slots[i].first]_vars

\* Growth ends, and with it the lock it holds is released.
GrowthEnds == \A t \in Threads : pc[t] # "out" ~> pc[t] = "out" /\ mutex # t

-----------------------------------------------------------------------------
(* The inductive invariant, for a program that keeps other threads out of a  *)
(* resize of its own, and other coroutines away until the pool is complete   *)

\* At most one thread grows the pool.  It has the lock, or keeps the others out.
GrowerInv == \A t \in Threads :
  IF pc[t] = "out" THEN old[t] = 0
  ELSE /\ \A u \in Threads \ {t} : pc[u] = "out"
       /\ IF old[t] = 0 THEN mutex = Nobody /\ ~open ELSE mutex = t

\* What it has done, and that the slots from old_size on are its own.
LoopInv == \A t \in Threads : pc[t] # "out" =>
  /\ next[t] = Len(slots) + 1
  /\ next[t] <= goal[t] + (IF pc[t] = "loop" THEN 1 ELSE 0)
  /\ old[t] <= goal[t] /\ old[t] <= next[t]
  /\ old[t] # 0 => Unused = {i \in DOMAIN slots : i >= old[t]}
  /\ pc[t] = "store" => end[t] = next[t] /\ made[t] = next[t]

\* The coroutines of the pool: those in slots and the one about to be stored.
Constructed == Len(slots) + (IF \E t \in Threads : pc[t] = "store" THEN 1 ELSE 0)

\* While the pool may still grow, nobody else draws an id.
IdInv ==
  /\ Constructed < nextId
  /\ Constructed < MaxSlots => nextId = Constructed + 1
  /\ \A c \in Ids : stack[c] # Absent <=> c <= Constructed

\* Stacks are held blocks, each of one coroutine, and so is the next one.
StackInv ==
  /\ \A c \in Ids : stack[c] # Absent => status[stack[c]] = "held"
  /\ \A c, d \in Ids : stack[c] # Absent /\ stack[c] = stack[d] => c = d
  /\ \A t \in Threads : pc[t] \in {"grant", "make"} =>
       /\ block[t] \in Block
       /\ status[block[t]] = IF pc[t] = "grant" THEN "granting" ELSE "held"
       /\ \A c \in Ids : stack[c] # block[t]

\* Nobody has a coroutine that is in no slot.
OwnerInv == \A c \in Owned : c \in DOMAIN slots

\* The size the pool grows to is bounded by demand.
GoalInv == \A t \in Threads : goal[t] <= Larger(asked, Half(peak))

IInv ==
  /\ TypeOK /\ IdIsIndex /\ UsedIsOwned /\ FreeIsClean /\ GrowthBound
  /\ GrowerInv /\ LoopInv /\ IdInv /\ StackInv /\ OwnerInv /\ GoalInv

-----------------------------------------------------------------------------
\* The pool implements the abstract pool of objects.
Holder == [c \in Ids |-> IF \E i \in DOMAIN slots : slots[i].first = c
                         THEN owner[c] ELSE Absent]

Clean == {c \in Ids : ~ running[c] /\ ~ resume[c]}

Abstract == INSTANCE ObjectPool
              WITH Client <- Threads, Object <- Ids, holder <- Holder, clean <- Clean

PoolSpec == Abstract!Spec
=============================================================================
