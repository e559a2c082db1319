------------------------- MODULE CoroutinePool_proof -------------------------
(***************************************************************************)
(* Theorems about CoroutinePool, for any threads, blocks and sizes, and a  *)
(* program that keeps other threads out of its own calls of resize         *)
(* (Unlocked = FALSE) and other coroutines away until the pool is complete *)
(* (Mixed = FALSE).                                                        *)
(***************************************************************************)
EXTENDS CoroutinePool, FiniteSetTheorems, TLAPS

\* What the program takes care of.
Careful == Unlocked = FALSE /\ Mixed = FALSE

Slot == [first : Ids, second : BOOLEAN]

-----------------------------------------------------------------------------
(* Lemmas about the data *)

LEMMA IdsFinite == IsFiniteSet(Ids)
BY FS_Interval, BoundsAssumption DEF Ids, MaxId

\* How many coroutines are in use is a number.
LEMMA OwnedCount == Cardinality(Owned) \in Nat
<1>1. IsFiniteSet(Owned)
  BY IdsFinite, FS_Subset DEF Owned
<1> QED BY <1>1, FS_CardinalityType

\* 1.5 times the size, rounded down, grows with the size.
LEMMA HalfMonotone ==
  ASSUME NEW m \in Nat, NEW n \in Nat, m <= n
  PROVE  Half(m) <= Half(n) /\ Half(m) \in Nat /\ Half(n) \in Nat
BY DEF Half

LEMMA LargerType ==
  ASSUME NEW m \in Nat, NEW n \in Nat
  PROVE  Larger(m, n) \in Nat /\ m <= Larger(m, n) /\ n <= Larger(m, n)
BY DEF Larger

\* The bound on the size of the pool rises with demand.
LEMMA BoundRises ==
  ASSUME NEW a \in Nat, NEW b \in Nat, a <= b, NEW m \in Nat, NEW n \in Nat, m <= n
  PROVE  /\ Larger(a, Half(m)) <= Larger(b, Half(n))
         /\ Larger(a, Half(m)) \in Nat /\ Larger(b, Half(n)) \in Nat
BY HalfMonotone DEF Larger

\* Marking or clearing a slot changes nothing else.
LEMMA FlagSlot ==
  ASSUME NEW s \in Seq(Slot), NEW i \in DOMAIN s, NEW v \in BOOLEAN
  PROVE  LET u == [s EXCEPT ![i].second = v] IN
         /\ u \in Seq(Slot)
         /\ Len(u) = Len(s) /\ DOMAIN u = DOMAIN s
         /\ \A j \in DOMAIN s :
              /\ u[j].first = s[j].first
              /\ u[j].second = IF j = i THEN v ELSE s[j].second
<1> DEFINE u == [s EXCEPT ![i].second = v]
<1>1. DOMAIN u = 1 .. Len(s)
  OBVIOUS
<1>a. \A j \in 1 .. Len(s) : s[j] \in Slot
  OBVIOUS
<1>b. ASSUME NEW j \in 1 .. Len(s)
      PROVE  u[j] = IF j = i THEN [s[j] EXCEPT !.second = v] ELSE s[j]
  OBVIOUS
<1>2. ASSUME NEW j \in 1 .. Len(s)
      PROVE  /\ u[j] \in Slot /\ u[j].first = s[j].first
             /\ u[j].second = IF j = i THEN v ELSE s[j].second
  <2> HIDE DEF u
  <2> QED BY <1>a, <1>b DEF Slot
<1>3. u \in [1 .. Len(s) -> Slot]
  BY <1>1, <1>2
<1>4. u \in Seq(Slot) /\ Len(u) = Len(s)
  BY <1>3
<1> QED BY <1>1, <1>2, <1>4

\* What emplace_back stores goes behind the slots there are.
LEMMA EmplaceSlot ==
  ASSUME NEW s \in Seq(Slot), NEW x \in Slot
  PROVE  LET u == [i \in 1 .. Len(s) + 1 |-> IF i = Len(s) + 1 THEN x ELSE s[i]] IN
         /\ u \in Seq(Slot)
         /\ Len(u) = Len(s) + 1 /\ DOMAIN u = 1 .. Len(s) + 1
         /\ u[Len(s) + 1] = x
         /\ \A j \in 1 .. Len(s) : u[j] = s[j]
<1> DEFINE u == [i \in 1 .. Len(s) + 1 |-> IF i = Len(s) + 1 THEN x ELSE s[i]]
<1>1. Len(s) + 1 \in Nat /\ \A i \in 1 .. Len(s) : s[i] \in Slot
  OBVIOUS
<1>2. u \in [1 .. Len(s) + 1 -> Slot]
  BY <1>1
<1>3. u \in Seq(Slot) /\ Len(u) = Len(s) + 1
  BY <1>1, <1>2
<1> QED BY <1>3, <1>1

-----------------------------------------------------------------------------
(* What the invariant says of the threads *)

\* A call that finds the pool open and unlocked finds nobody growing it.
LEMMA NobodyGrows ==
  ASSUME TypeOK, GrowerInv, open, mutex = Nobody
  PROVE  \A u \in Threads : pc[u] = "out" /\ old[u] = 0
BY SentinelAssumption DEF GrowerInv, TypeOK

\* A thread that grows the pool is the only one that does.
LEMMA OnlyGrower ==
  ASSUME TypeOK, GrowerInv, NEW t \in Threads, pc[t] # "out"
  PROVE  /\ \A u \in Threads \ {t} : pc[u] = "out" /\ old[u] = 0
         /\ IF old[t] = 0 THEN mutex = Nobody /\ ~open ELSE mutex = t
BY DEF GrowerInv, TypeOK

LEMMA ConstructedIs ==
  /\ (\A u \in Threads : pc[u] # "store") => Constructed = Len(slots)
  /\ (\E u \in Threads : pc[u] = "store") => Constructed = Len(slots) + 1
BY SMT DEF Constructed

\* The slots are those of the first coroutines.
LEMMA SlotsAre ==
  ASSUME TypeOK, IdIsIndex
  PROVE  /\ slots \in Seq(Slot) /\ Len(slots) \in Nat /\ Len(slots) <= MaxId
         /\ DOMAIN slots = 1 .. Len(slots) /\ DOMAIN slots \subseteq Ids
         /\ MaxId \in Nat
<1>1. slots \in Seq(Slot) /\ MaxId \in Nat
  BY BoundsAssumption DEF TypeOK, Slot, MaxId
<1>2. \A i \in 1 .. Len(slots) : slots[i] \in Slot
  BY <1>1
<1>3. \A i \in 1 .. Len(slots) : i \in Ids
  BY <1>2, <1>1 DEF IdIsIndex, Slot
<1>4. Len(slots) <= MaxId
  BY <1>1, <1>3 DEF Ids
<1> QED BY <1>1, <1>3, <1>4

\* When no slot is free, as many coroutines are in use as there are slots.
LEMMA AllOwned ==
  ASSUME TypeOK, IdIsIndex, UsedIsOwned, OwnerInv, Unused = {}
  PROVE  Cardinality(Owned) = Len(slots)
<1>1. Owned = 1 .. Len(slots)
  BY SlotsAre DEF Unused, UsedIsOwned, IdIsIndex, OwnerInv, Owned
<1>2. Cardinality(1 .. Len(slots)) = IF 1 > Len(slots) THEN 0 ELSE Len(slots) - 1 + 1
  <2>1. 1 \in Int /\ Len(slots) \in Int
    BY SlotsAre
  <2> QED BY <2>1, FS_Interval
<1>3. Cardinality(1 .. Len(slots)) = Len(slots)
  BY <1>2, SlotsAre
<1> QED BY <1>1, <1>3

-----------------------------------------------------------------------------
LEMMA InvInit == Init => IInv
<1> SUFFICES ASSUME Init PROVE IInv
  OBVIOUS
<1>1. TypeOK
  <2>1. pc \in [Threads -> Steps]
    BY DEF Init, Steps
  <2>2. goal \in [Threads -> 0 .. MaxSlots] /\ next \in [Threads -> 1 .. MaxSlots + 1]
    BY BoundsAssumption DEF Init
  <2>3. /\ slots \in Seq([first : Ids, second : BOOLEAN])
        /\ open \in BOOLEAN /\ mutex \in Threads \cup {Nobody} /\ peak \in Nat
    BY DEF Init
  <2>4. nextId \in 1 .. MaxId + 1 /\ asked \in 0 .. MaxSlots /\ 0 \in 0 .. MaxSlots
    BY BoundsAssumption DEF Init, MaxId
  <2>5. Memory!TypeOK
    BY DEF Init, Memory!Init, Memory!TypeOK, Memory!Stages
  <2> QED BY <2>1, <2>2, <2>3, <2>4, <2>5 DEF Init, TypeOK
<1>2. /\ Len(slots) = 0 /\ DOMAIN slots = {} /\ Unused = {}
      /\ \A u \in Threads : pc[u] \in {"loop", "out"} /\ old[u] = 0 /\ next[u] = 1
  BY DEF Init, Unused
<1>3. IdIsIndex /\ UsedIsOwned /\ FreeIsClean /\ OwnerInv
  BY <1>2 DEF Init, IdIsIndex, UsedIsOwned, FreeIsClean, OwnerInv, Owned
<1>4. GrowthBound /\ GoalInv
  BY <1>2, BoundsAssumption DEF Init, GrowthBound, GoalInv, Larger, Half
<1>5. GrowerInv /\ LoopInv
  <2>1. PICK t \in Threads :
          pc = [u \in Threads |-> IF u = t /\ PoolSize > 0 THEN "loop" ELSE "out"]
    BY DEF Init
  <2>2. GrowerInv
    <3>1. ASSUME NEW u \in Threads, pc[u] # "out"
          PROVE  u = t /\ ~open
      <4>1. u = t /\ PoolSize > 0
        BY <2>1, <3>1
      <4>2. PoolSize # 0
        BY <4>1, BoundsAssumption
      <4>3. open = (PoolSize = 0)
        BY DEF Init
      <4> QED BY <4>1, <4>2, <4>3, Zenon
    <3>2. mutex = Nobody
      BY DEF Init
    <3>3. \A u \in Threads : old[u] = 0
      BY <1>2
    <3>4. ASSUME NEW u \in Threads, pc[u] # "out"
          PROVE  \A v \in Threads \ {u} : pc[v] = "out"
      BY <3>1, <3>4
    <3>5. ASSUME NEW u \in Threads
          PROVE  IF pc[u] = "out" THEN old[u] = 0
                 ELSE /\ \A v \in Threads \ {u} : pc[v] = "out"
                      /\ IF old[u] = 0 THEN mutex = Nobody /\ ~open ELSE mutex = u
      <4>1. CASE pc[u] = "out"
        BY <4>1, <3>3
      <4>2. CASE pc[u] # "out"
        BY <4>2, <3>1, <3>2, <3>3, <3>4
      <4> QED BY <4>1, <4>2
    <3> QED BY <3>5 DEF GrowerInv
  <2>3. LoopInv
    <3>1. ASSUME NEW u \in Threads, pc[u] # "out"
          PROVE  pc[u] = "loop" /\ goal[u] = PoolSize
      BY <3>1, <1>2 DEF Init
    <3> QED BY <3>1, <1>2, BoundsAssumption DEF LoopInv
  <2> QED BY <2>2, <2>3
<1>6. Constructed = 0
  BY <1>2, ConstructedIs
<1>7. IdInv /\ StackInv
  BY <1>2, <1>6, BoundsAssumption DEF Init, IdInv, StackInv, Ids
<1> QED BY <1>1, <1>3, <1>4, <1>5, <1>7 DEF IInv

-----------------------------------------------------------------------------
(* Each step preserves the invariant *)

LEMMA UseInv == ASSUME IInv, NEW t \in Threads, NEW c \in Ids, Use(t, c) PROVE IInv'
<1>1. TypeOK'
  BY DEF IInv, TypeOK, Use, growVars, allocVars, clientVars, Memory!TypeOK
<1>2. FreeIsClean'
  BY SentinelAssumption DEF IInv, TypeOK, FreeIsClean, Use, clientVars
<1>3. IdIsIndex' /\ UsedIsOwned' /\ GrowthBound' /\ OwnerInv' /\ GoalInv'
  BY DEF IInv, IdIsIndex, UsedIsOwned, GrowthBound, OwnerInv, Owned, GoalInv, Use, growVars, clientVars
<1>4. GrowerInv' /\ LoopInv'
  BY DEF IInv, GrowerInv, LoopInv, Unused, Use, growVars
<1>5. IdInv' /\ StackInv'
  BY DEF IInv, IdInv, Constructed, StackInv, Use, allocVars
<1> QED BY <1>1, <1>2, <1>3, <1>4, <1>5 DEF IInv

\* A coroutine that is in a slot changes hands while nobody grows the pool.
LEMMA HandInv ==
  ASSUME IInv, open, mutex = Nobody,
         NEW i \in DOMAIN slots, NEW v \in BOOLEAN, NEW w \in Threads \cup {Nobody},
         v <=> w # Nobody,
         slots' = [slots EXCEPT ![i].second = v],
         owner' = [owner EXCEPT ![i] = w],
         running' \in [Ids -> BOOLEAN], resume' \in [Ids -> BOOLEAN],
         \A c \in Ids : c # i => running'[c] = running[c] /\ resume'[c] = resume[c],
         w = Nobody => ~ running'[i] /\ ~ resume'[i],
         peak' \in Nat, peak <= peak',
         UNCHANGED <<open, mutex, nextId, stack, pc, growVars, allocVars, asked>>
  PROVE  IInv'
<1>a. /\ TypeOK /\ IdIsIndex /\ UsedIsOwned /\ FreeIsClean /\ GrowthBound
      /\ GrowerInv /\ LoopInv /\ IdInv /\ StackInv /\ OwnerInv /\ GoalInv
  BY DEF IInv
<1>b. /\ slots' \in Seq(Slot) /\ Len(slots') = Len(slots) /\ DOMAIN slots' = DOMAIN slots
      /\ \A j \in DOMAIN slots :
           /\ slots'[j].first = slots[j].first
           /\ slots'[j].second = IF j = i THEN v ELSE slots[j].second
  BY <1>a, SlotsAre, FlagSlot
<1>c. \A u \in Threads : pc[u] = "out" /\ old[u] = 0
  BY <1>a, NobodyGrows
<1>d. i \in Ids /\ DOMAIN slots \subseteq Ids
  BY <1>a, SlotsAre
<1>e. /\ Larger(asked, Half(peak)) <= Larger(asked', Half(peak'))
      /\ Larger(asked, Half(peak)) \in Nat /\ Larger(asked', Half(peak')) \in Nat
  <2>1. asked \in Nat /\ asked' = asked /\ asked <= asked' /\ peak \in Nat
    BY <1>a, BoundsAssumption DEF TypeOK
  <2> QED BY <2>1, BoundRises
<1>1. TypeOK'
  BY <1>a, <1>b, <1>d DEF TypeOK, Slot, growVars, allocVars, Memory!TypeOK
<1>2. IdIsIndex'
  BY <1>a, <1>b DEF IdIsIndex
<1>3. UsedIsOwned'
  BY <1>a, <1>b, <1>d DEF UsedIsOwned, IdIsIndex, TypeOK
<1>4. FreeIsClean'
  BY <1>a, <1>d DEF FreeIsClean, TypeOK
<1>5. OwnerInv'
  BY <1>a, <1>b, <1>d DEF OwnerInv, Owned, TypeOK
<1>6. GrowthBound' /\ GoalInv'
  <2>1. Len(slots) \in Nat /\ \A t \in Threads : goal[t] \in Nat
    BY <1>a, SlotsAre, BoundsAssumption DEF TypeOK
  <2> QED BY <2>1, <1>a, <1>b, <1>e DEF GrowthBound, GoalInv, growVars
<1>7. GrowerInv' /\ LoopInv'
  BY <1>c DEF GrowerInv, LoopInv, growVars
<1>8. IdInv' /\ StackInv'
  <2>1. Constructed' = Constructed
    BY <1>b DEF Constructed
  <2> QED BY <2>1, <1>a DEF IdInv, StackInv, allocVars
<1> QED BY <1>1, <1>2, <1>3, <1>4, <1>5, <1>6, <1>7, <1>8 DEF IInv

LEMMA DemandRises ==
  ASSUME TypeOK, Demand
  PROVE  peak' \in Nat /\ peak <= peak' /\ Cardinality(Owned) + 1 <= peak'
BY OwnedCount, LargerType DEF TypeOK, Demand

LEMMA GetFreeInv ==
  ASSUME IInv, NEW t \in Threads, NEW i \in DOMAIN slots, GetFree(t, i)
  PROVE  IInv'
<1>1. /\ open /\ mutex = Nobody /\ slots[i].first = i /\ i \in Ids
      /\ ~ slots[i].second /\ owner[i] = Nobody /\ t # Nobody
  BY SlotsAre, SentinelAssumption DEF IInv, GetFree, At, IdIsIndex, UsedIsOwned, Unused
<1>2. /\ slots' = [slots EXCEPT ![i].second = TRUE]
      /\ owner' = [owner EXCEPT ![i] = t]
      /\ UNCHANGED <<open, mutex, nextId, stack, flagVars, pc, growVars, allocVars, asked>>
  BY <1>1 DEF GetFree, Give
<1>3. running' = running /\ resume' = resume
  BY <1>2 DEF flagVars
<1>4. peak' \in Nat /\ peak <= peak'
  BY DemandRises DEF IInv, GetFree
<1>5. running \in [Ids -> BOOLEAN] /\ resume \in [Ids -> BOOLEAN]
  BY DEF IInv, TypeOK
<1> QED BY <1>1, <1>2, <1>3, <1>4, <1>5, HandInv

LEMMA BackInv ==
  ASSUME IInv, NEW t \in Threads, NEW c \in Ids, Back(t, c)
  PROVE  IInv'
<1>1. /\ open /\ mutex = Nobody /\ c \in DOMAIN slots /\ slots[c].first = c
      /\ slots[c].second
  BY SentinelAssumption DEF IInv, Back, At, IdIsIndex, UsedIsOwned
<1>2. /\ slots' = [slots EXCEPT ![c].second = FALSE]
      /\ owner' = [owner EXCEPT ![c] = Nobody]
      /\ running' = [running EXCEPT ![c] = FALSE]
      /\ resume' = [resume EXCEPT ![c] = FALSE]
      /\ UNCHANGED <<open, mutex, nextId, stack, pc, growVars, allocVars, peak, asked>>
  BY <1>1 DEF Back
<1>3. peak' \in Nat /\ peak <= peak'
  BY <1>2 DEF IInv, TypeOK
<1>4. /\ running' \in [Ids -> BOOLEAN] /\ resume' \in [Ids -> BOOLEAN]
      /\ ~ running'[c] /\ ~ resume'[c]
      /\ \A d \in Ids : d # c => running'[d] = running[d] /\ resume'[d] = resume[d]
  BY <1>2 DEF IInv, TypeOK
<1> QED BY <1>1, <1>2, <1>3, <1>4, HandInv

\* resize begins in a thread, while nobody else grows the pool.
LEMMA BeginInv ==
  ASSUME IInv, open, mutex = Nobody,
         NEW t \in Threads, NEW size \in Nat, StartLoop(t, size),
         size <= Larger(asked', Half(peak')),
         asked' \in 0 .. MaxSlots, asked <= asked', peak' \in Nat, peak <= peak',
         \/ /\ old' = [old EXCEPT ![t] = Len(slots) + 1] /\ Unused = {}
            /\ mutex' = t /\ open' = open
         \/ old' = old /\ mutex' = mutex /\ open' = FALSE,
         UNCHANGED <<slots, nextId, stack, flagVars, made, end, allocVars, owner>>
  PROVE  IInv'
<1>a. /\ TypeOK /\ IdIsIndex /\ UsedIsOwned /\ FreeIsClean /\ GrowthBound
      /\ GrowerInv /\ LoopInv /\ IdInv /\ StackInv /\ OwnerInv /\ GoalInv
  BY DEF IInv
<1>b. \A u \in Threads : pc[u] = "out" /\ old[u] = 0
  BY <1>a, NobodyGrows
<1>c. Len(slots) \in Nat /\ DOMAIN slots = 1 .. Len(slots)
  BY <1>a, SlotsAre
<1>d. /\ size > Len(slots) /\ size <= MaxSlots /\ MaxSlots \in Nat
      /\ next' = [next EXCEPT ![t] = Len(slots) + 1]
      /\ goal' = [goal EXCEPT ![t] = size]
      /\ pc' = [pc EXCEPT ![t] = "loop"]
  BY BoundsAssumption DEF StartLoop, Goto
<1>e. /\ Larger(asked, Half(peak)) <= Larger(asked', Half(peak'))
      /\ Larger(asked, Half(peak)) \in Nat /\ Larger(asked', Half(peak')) \in Nat
  <2>1. asked \in Nat /\ asked' \in Nat /\ peak \in Nat
    BY <1>a, <1>d DEF TypeOK
  <2> QED BY <2>1, BoundRises
<1>f. pc'[t] = "loop" /\ \A u \in Threads \ {t} : pc'[u] = "out"
  BY <1>a, <1>b, <1>d DEF TypeOK
<1>1. TypeOK'
  <2>1. next' \in [Threads -> 1 .. MaxSlots + 1]
    BY <1>a, <1>c, <1>d DEF TypeOK
  <2>2. goal' \in [Threads -> 0 .. MaxSlots]
    BY <1>a, <1>c, <1>d DEF TypeOK
  <2>3. pc' \in [Threads -> Steps]
    BY <1>a, <1>d DEF TypeOK, Steps
  <2>4. old' \in [Threads -> 0 .. MaxSlots]
    <3>1. old \in [Threads -> 0 .. MaxSlots] /\ Len(slots) + 1 \in 0 .. MaxSlots
      BY <1>a, <1>c, <1>d DEF TypeOK
    <3>2. CASE old' = old
      BY <3>1, <3>2
    <3>3. CASE old' = [old EXCEPT ![t] = Len(slots) + 1]
      BY <3>1, <3>3
    <3> QED BY <3>2, <3>3
  <2>5. open' \in BOOLEAN /\ mutex' \in Threads \cup {Nobody}
    BY <1>a DEF TypeOK
  <2> QED BY <1>a, <2>1, <2>2, <2>3, <2>4, <2>5 DEF TypeOK, flagVars, allocVars, Memory!TypeOK
<1>2. IdIsIndex' /\ UsedIsOwned' /\ FreeIsClean' /\ OwnerInv'
  BY <1>a DEF IdIsIndex, UsedIsOwned, FreeIsClean, OwnerInv, Owned, flagVars
<1>3. GrowthBound'
  BY <1>a, <1>c, <1>e DEF GrowthBound
<1>4. GoalInv'
  <2>1. ASSUME NEW u \in Threads PROVE goal'[u] <= Larger(asked', Half(peak'))
    <3>1. goal[u] \in Nat /\ goal[u] <= Larger(asked, Half(peak))
      BY <1>a, <1>d DEF TypeOK, GoalInv
    <3> QED BY <3>1, <1>a, <1>d, <1>e DEF TypeOK
  <2> QED BY <2>1 DEF GoalInv
<1>5. GrowerInv'
  <2>1. old \in [Threads -> 0 .. MaxSlots]
    BY <1>a DEF TypeOK
  <2>2. /\ \A u \in Threads \ {t} : old'[u] = 0
        /\ IF old'[t] = 0 THEN mutex' = Nobody /\ ~open' ELSE mutex' = t
    <3>1. CASE old' = old /\ mutex' = mutex /\ open' = FALSE
      BY <2>1, <3>1, <1>b
    <3>2. CASE old' = [old EXCEPT ![t] = Len(slots) + 1] /\ mutex' = t
      BY <2>1, <3>2, <1>b, <1>c
    <3> QED BY <3>1, <3>2
  <2> QED BY <1>f, <2>2 DEF GrowerInv
<1>6. LoopInv'
  <2>1. /\ next'[t] = Len(slots) + 1 /\ goal'[t] = size
        /\ old'[t] \in {0, Len(slots) + 1} /\ (old'[t] # 0 => Unused = {})
    BY <1>a, <1>b, <1>d DEF TypeOK
  <2>2. Unused' = Unused /\ slots' = slots
    BY DEF Unused
  <2> QED BY <1>c, <1>d, <1>f, <2>1, <2>2 DEF LoopInv
<1>7. IdInv' /\ StackInv'
  <2>1. Constructed' = Constructed
    BY <1>b, <1>f DEF Constructed
  <2>2. \A u \in Threads : pc'[u] \notin {"grant", "make"}
    BY <1>f
  <2> QED BY <2>1, <2>2, <1>a DEF IdInv, StackInv, allocVars
<1> QED BY <1>1, <1>2, <1>3, <1>4, <1>5, <1>6, <1>7 DEF IInv

LEMMA GetNoneInv == ASSUME IInv, NEW t \in Threads, GetNone(t) PROVE IInv'
<1> DEFINE size == Half(Len(slots) + 1)
<1>1. /\ open /\ mutex = Nobody /\ Unused = {} /\ mutex' = t
      /\ old' = [old EXCEPT ![t] = Len(slots) + 1]
      /\ StartLoop(t, size)
      /\ UNCHANGED <<slots, open, nextId, stack, flagVars, made, end, allocVars, owner, asked>>
  BY DEF GetNone, At
<1>2. peak' \in Nat /\ peak <= peak' /\ Cardinality(Owned) + 1 <= peak'
  BY DemandRises DEF IInv, GetNone
<1>3. Len(slots) \in Nat /\ Cardinality(Owned) = Len(slots)
  BY <1>1, SlotsAre, AllOwned DEF IInv
<1>4. size \in Nat /\ size <= Half(peak') /\ Half(peak') \in Nat
  BY <1>2, <1>3, HalfMonotone
<1>5. asked \in 0 .. MaxSlots /\ asked' = asked
  BY <1>1 DEF IInv, TypeOK
<1>6. size <= Larger(asked', Half(peak'))
  <2> HIDE DEF size
  <2>1. asked' \in Nat
    BY <1>5, BoundsAssumption
  <2> QED BY <2>1, <1>4, LargerType
<1>7. asked <= asked' /\ asked' \in 0 .. MaxSlots
  BY <1>5, BoundsAssumption
<1> HIDE DEF size
<1> QED BY <1>1, <1>2, <1>4, <1>6, <1>7, BeginInv

LEMMA ResizeInv ==
  ASSUME Careful, IInv, NEW t \in Threads, Resize(t)
  PROVE  IInv'
<1>1. PICK size \in 1 .. MaxSlots : StartLoop(t, size) /\ asked' = Larger(asked, size)
  BY DEF Resize
<1>2. /\ open /\ mutex = Nobody /\ open' = FALSE
      /\ UNCHANGED <<slots, mutex, nextId, stack, flagVars, old, made, end, allocVars, owner, peak>>
  BY DEF Careful, Resize, At
<1>3. asked \in 0 .. MaxSlots /\ size \in Nat /\ peak \in Nat
  BY BoundsAssumption DEF IInv, TypeOK
<1>4. asked' \in 0 .. MaxSlots /\ asked <= asked' /\ size <= asked'
  BY <1>1, <1>3, BoundsAssumption DEF Larger
<1>5. size <= Larger(asked', Half(peak'))
  <2>1. asked' \in Nat /\ Half(peak') \in Nat /\ peak' = peak
    BY <1>2, <1>3, <1>4, BoundsAssumption, HalfMonotone
  <2> QED BY <2>1, <1>3, <1>4, LargerType DEF Larger
<1>6. peak' \in Nat /\ peak <= peak'
  BY <1>2, <1>3
<1> QED BY <1>1, <1>2, <1>3, <1>4, <1>5, <1>6, BeginInv

\* The steps of the loop before the slot is stored leave most of it alone.
LEMMA LoopStep ==
  ASSUME IInv, NEW t \in Threads, pc[t] # "out", next[t] <= goal[t],
         NEW s \in {"grant", "make", "store"}, pc' = [pc EXCEPT ![t] = s],
         s = "store" => end'[t] = next[t] /\ made'[t] = next[t],
         UNCHANGED <<slots, open, mutex, flagVars, next, goal, old, clientVars>>
  PROVE  /\ pc' \in [Threads -> Steps] /\ pc'[t] = s
         /\ \A u \in Threads \ {t} : pc[u] = "out" /\ pc'[u] = "out"
         /\ IdIsIndex' /\ UsedIsOwned' /\ FreeIsClean' /\ GrowthBound'
         /\ GrowerInv' /\ LoopInv' /\ OwnerInv' /\ GoalInv'
<1>a. TypeOK /\ GrowerInv /\ LoopInv
  BY DEF IInv
<1>b. /\ \A u \in Threads \ {t} : pc[u] = "out" /\ old[u] = 0
      /\ IF old[t] = 0 THEN mutex = Nobody /\ ~open ELSE mutex = t
  BY <1>a, OnlyGrower
<1>c. pc'[t] = s /\ \A u \in Threads \ {t} : pc'[u] = "out"
  BY <1>a, <1>b DEF TypeOK
<1>1. pc' \in [Threads -> Steps]
  BY <1>a DEF TypeOK, Steps
<1>2. IdIsIndex' /\ UsedIsOwned' /\ FreeIsClean' /\ GrowthBound' /\ OwnerInv' /\ GoalInv'
  BY DEF IInv, IdIsIndex, UsedIsOwned, FreeIsClean, GrowthBound, OwnerInv, Owned, GoalInv,
         flagVars, clientVars
<1>3. GrowerInv'
  BY <1>b, <1>c DEF GrowerInv
<1>4. LoopInv'
  <2>1. Unused' = Unused
    BY DEF Unused
  <2>2. /\ next[t] = Len(slots) + 1 /\ old[t] <= goal[t] /\ old[t] <= next[t]
        /\ old[t] # 0 => Unused = {i \in DOMAIN slots : i >= old[t]}
    BY <1>a DEF LoopInv
  <2>3. goal[t] + 0 = goal[t]
    BY <1>a, BoundsAssumption DEF TypeOK
  <2> QED BY <2>1, <2>2, <2>3, <1>c DEF LoopInv
<1> QED BY <1>b, <1>c, <1>1, <1>2, <1>3, <1>4

LEMMA PickBlockInv == ASSUME IInv, NEW t \in Threads, PickBlock(t) PROVE IInv'
<1>1. PICK b \in Block : Memory!Reserve(b) /\ block' = [block EXCEPT ![t] = b]
  BY DEF PickBlock
<1>2. /\ pc[t] = "loop" /\ next[t] <= goal[t] /\ pc' = [pc EXCEPT ![t] = "grant"]
      /\ UNCHANGED <<slots, open, mutex, nextId, stack, flagVars, growVars, clientVars>>
  BY DEF PickBlock, At, Goto
<1>3. status[b] = "free" /\ status' = [status EXCEPT ![b] = "granting"]
  BY <1>1 DEF Memory!Reserve, Memory!Move
<1>4. /\ pc' \in [Threads -> Steps] /\ pc'[t] = "grant"
      /\ \A u \in Threads \ {t} : pc[u] = "out" /\ pc'[u] = "out"
      /\ IdIsIndex' /\ UsedIsOwned' /\ FreeIsClean' /\ GrowthBound'
      /\ GrowerInv' /\ LoopInv' /\ OwnerInv' /\ GoalInv'
  BY <1>2, LoopStep DEF growVars
<1>5. TypeOK'
  BY <1>1, <1>2, <1>3, <1>4
  DEF IInv, TypeOK, Memory!TypeOK, Memory!Stages, flagVars, growVars, clientVars
<1>6. Constructed' = Constructed
  BY <1>2, <1>4 DEF Constructed
<1>7. IdInv'
  BY <1>2, <1>6 DEF IInv, IdInv
<1>8. StackInv'
  <2>1. /\ block'[t] = b /\ status'[b] = "granting"
        /\ \A c \in Ids : stack[c] # Absent => stack[c] # b /\ status'[stack[c]] = status[stack[c]]
    BY <1>1, <1>3 DEF IInv, TypeOK, StackInv, Memory!TypeOK
  <2>2. b # Absent
    BY SentinelAssumption
  <2> QED BY <1>2, <1>4, <2>1, <2>2 DEF IInv, StackInv
<1> QED BY <1>4, <1>5, <1>7, <1>8 DEF IInv

LEMMA GetBlockInv == ASSUME IInv, NEW t \in Threads, GetBlock(t) PROVE IInv'
<1>1. /\ pc[t] = "grant" /\ pc' = [pc EXCEPT ![t] = "make"] /\ block' = block
      /\ UNCHANGED <<slots, open, mutex, nextId, stack, flagVars, growVars, clientVars>>
      /\ status' = [status EXCEPT ![block[t]] = "held"]
  BY DEF GetBlock, At, Goto, Memory!Grant, Memory!Move
<1>2. /\ next[t] <= goal[t] /\ block[t] \in Block /\ status[block[t]] = "granting"
      /\ \A c \in Ids : stack[c] # block[t]
  <2>1. goal[t] + 0 = goal[t]
    BY BoundsAssumption DEF IInv, TypeOK
  <2> QED BY <1>1, <2>1 DEF IInv, LoopInv, StackInv
<1>3. /\ pc' \in [Threads -> Steps] /\ pc'[t] = "make"
      /\ \A u \in Threads \ {t} : pc[u] = "out" /\ pc'[u] = "out"
      /\ IdIsIndex' /\ UsedIsOwned' /\ FreeIsClean' /\ GrowthBound'
      /\ GrowerInv' /\ LoopInv' /\ OwnerInv' /\ GoalInv'
  BY <1>1, <1>2, LoopStep DEF growVars
<1>4. TypeOK'
  BY <1>1, <1>2, <1>3
  DEF IInv, TypeOK, Memory!TypeOK, Memory!Stages, flagVars, growVars, clientVars
<1>5. Constructed' = Constructed
  BY <1>1, <1>3 DEF Constructed
<1>6. IdInv'
  BY <1>1, <1>5 DEF IInv, IdInv
<1>7. StackInv'
  <2>1. /\ status'[block[t]] = "held"
        /\ \A c \in Ids : stack[c] # Absent => status'[stack[c]] = "held"
    BY <1>1, <1>2 DEF IInv, TypeOK, StackInv, Memory!TypeOK
  <2> QED BY <1>1, <1>2, <1>3, <2>1 DEF IInv, StackInv
<1> QED BY <1>3, <1>4, <1>6, <1>7 DEF IInv

LEMMA MakeInv == ASSUME IInv, NEW t \in Threads, Make(t) PROVE IInv'
<1> DEFINE n == Len(slots) + 1
<1>1. /\ pc[t] = "make" /\ pc' = [pc EXCEPT ![t] = "store"]
      /\ end' = [end EXCEPT ![t] = n] /\ made' = [made EXCEPT ![t] = nextId]
      /\ nextId' = nextId + 1 /\ stack' = [stack EXCEPT ![nextId] = block[t]]
      /\ UNCHANGED <<slots, open, mutex, flagVars, next, goal, old, allocVars, clientVars>>
  BY DEF Make, At, Goto
<1>2. /\ next[t] <= goal[t] /\ next[t] = n /\ goal[t] \in 0 .. MaxSlots
      /\ block[t] \in Block /\ status[block[t]] = "held"
      /\ \A c \in Ids : stack[c] # block[t]
  <2>1. goal[t] + 0 = goal[t] /\ goal[t] \in 0 .. MaxSlots
    BY BoundsAssumption DEF IInv, TypeOK
  <2> QED BY <1>1, <2>1 DEF IInv, LoopInv, StackInv
<1>3. /\ Len(slots) \in Nat /\ n <= MaxSlots /\ n \in Ids /\ n + 1 \in 1 .. MaxId + 1
      /\ n \in 0 .. MaxSlots
  <2>1. Len(slots) \in Nat
    BY SlotsAre DEF IInv
  <2> QED BY <2>1, <1>2, BoundsAssumption DEF Ids, MaxId
<1>4. Constructed = Len(slots) /\ nextId = n
  <2>1. \A u \in Threads : pc[u] # "store"
    BY <1>1, OnlyGrower DEF IInv
  <2>2. Constructed = Len(slots)
    BY <2>1, ConstructedIs
  <2> QED BY <2>2, <1>3, BoundsAssumption DEF IInv, IdInv
<1>5. /\ pc' \in [Threads -> Steps] /\ pc'[t] = "store"
      /\ \A u \in Threads \ {t} : pc[u] = "out" /\ pc'[u] = "out"
      /\ IdIsIndex' /\ UsedIsOwned' /\ FreeIsClean' /\ GrowthBound'
      /\ GrowerInv' /\ LoopInv' /\ OwnerInv' /\ GoalInv'
  <2>1. end'[t] = next[t] /\ made'[t] = next[t]
    BY <1>1, <1>2, <1>4 DEF IInv, TypeOK
  <2> QED BY <1>1, <1>2, <2>1, LoopStep
<1>6. TypeOK'
  BY <1>1, <1>2, <1>3, <1>4, <1>5 DEF IInv, TypeOK, Memory!TypeOK, flagVars, allocVars, clientVars
<1>7. Constructed' = n
  BY <1>1, <1>5 DEF Constructed
<1>8. IdInv'
  <2>1. \A c \in Ids : stack'[c] = IF c = n THEN block[t] ELSE stack[c]
    BY <1>1, <1>4 DEF IInv, TypeOK
  <2>2. \A c \in Ids : stack'[c] # Absent <=> c <= n
    BY <2>1, <1>2, <1>3, <1>4, SentinelAssumption DEF IInv, IdInv, Ids
  <2> QED BY <2>2, <1>1, <1>3, <1>4, <1>7 DEF IInv, IdInv
<1>9. StackInv'
  <2>1. \A c \in Ids : stack'[c] = IF c = n THEN block[t] ELSE stack[c]
    BY <1>1, <1>4 DEF IInv, TypeOK
  <2> QED BY <2>1, <1>1, <1>2, <1>5 DEF IInv, StackInv, allocVars
<1> QED BY <1>5, <1>6, <1>8, <1>9 DEF IInv

LEMMA StoreInv == ASSUME IInv, NEW t \in Threads, Store(t) PROVE IInv'
<1> DEFINE n == Len(slots) + 1
<1> DEFINE x == [first |-> n, second |-> FALSE]
<1>1. /\ pc[t] = "store" /\ pc' = [pc EXCEPT ![t] = "loop"]
      /\ next' = [next EXCEPT ![t] = next[t] + 1]
      /\ UNCHANGED <<open, mutex, nextId, stack, flagVars, goal, old, made, end, allocVars, clientVars>>
  BY DEF Store, At, Goto
<1>2. /\ next[t] = n /\ end[t] = n /\ made[t] = n
      /\ n <= goal[t] /\ goal[t] \in 0 .. MaxSlots /\ old[t] <= goal[t] /\ old[t] <= n
      /\ old[t] # 0 => Unused = {i \in DOMAIN slots : i >= old[t]}
  <2>1. goal[t] + 0 = goal[t] /\ goal[t] \in 0 .. MaxSlots
    BY BoundsAssumption DEF IInv, TypeOK
  <2> QED BY <1>1, <2>1 DEF IInv, LoopInv
<1>3. /\ slots \in Seq(Slot) /\ Len(slots) \in Nat /\ n <= MaxSlots /\ n \in Ids /\ x \in Slot
      /\ DOMAIN slots = 1 .. Len(slots) /\ DOMAIN slots \subseteq Ids
      /\ n + 1 \in 1 .. MaxSlots + 1
  <2>1. /\ slots \in Seq(Slot) /\ Len(slots) \in Nat /\ DOMAIN slots = 1 .. Len(slots)
        /\ DOMAIN slots \subseteq Ids
    BY SlotsAre DEF IInv
  <2> QED BY <2>1, <1>2, BoundsAssumption DEF Ids, MaxId, Slot
<1>4. /\ slots' \in Seq(Slot) /\ Len(slots') = n /\ DOMAIN slots' = 1 .. n
      /\ slots'[n] = x
      /\ \A i \in 1 .. Len(slots) : slots'[i] = slots[i]
  <2>1. slots' = [i \in 1 .. n |-> IF i = n THEN x ELSE slots[i]]
    BY <1>2 DEF Store, Emplace
  <2> QED BY <2>1, <1>3, EmplaceSlot
<1>5. /\ \A u \in Threads \ {t} : pc[u] = "out" /\ pc'[u] = "out" /\ old[u] = 0
      /\ IF old[t] = 0 THEN mutex = Nobody /\ ~open ELSE mutex = t
      /\ pc'[t] = "loop"
  BY <1>1, OnlyGrower DEF IInv, TypeOK
<1>6. TypeOK'
  <2>1. pc' \in [Threads -> Steps] /\ next' \in [Threads -> 1 .. MaxSlots + 1]
    BY <1>1, <1>2, <1>3 DEF IInv, TypeOK, Steps
  <2> QED BY <2>1, <1>1, <1>4
      DEF IInv, TypeOK, Slot, Memory!TypeOK, flagVars, allocVars, clientVars
<1>7. IdIsIndex'
  BY <1>3, <1>4 DEF IInv, IdIsIndex
<1>8. owner[n] = Nobody /\ owner' = owner
  BY <1>1, <1>3 DEF IInv, OwnerInv, Owned, clientVars
<1>9. UsedIsOwned'
  <2>1. ASSUME NEW i \in 1 .. n
        PROVE  slots'[i].second <=> owner[slots'[i].first] # Nobody
    <3>1. CASE i = n
      BY <3>1, <1>4, <1>8
    <3>2. CASE i \in 1 .. Len(slots)
      BY <3>2, <1>3, <1>4 DEF IInv, UsedIsOwned
    <3> QED BY <3>1, <3>2, <1>3
  <2> QED BY <2>1, <1>4, <1>8 DEF UsedIsOwned
<1>10. FreeIsClean' /\ OwnerInv' /\ GoalInv'
  BY <1>1, <1>3, <1>4, <1>8
  DEF IInv, FreeIsClean, OwnerInv, Owned, GoalInv, flagVars, clientVars
<1>11. GrowthBound'
  <2>1. goal[t] <= Larger(asked, Half(peak)) /\ Larger(asked, Half(peak)) \in Nat
    <3>1. asked \in Nat /\ peak \in Nat
      BY BoundsAssumption DEF IInv, TypeOK
    <3> QED BY <3>1, BoundRises DEF IInv, GoalInv
  <2> QED BY <2>1, <1>1, <1>2, <1>3, <1>4 DEF GrowthBound, clientVars
<1>12. GrowerInv'
  BY <1>1, <1>5 DEF GrowerInv
<1>13. LoopInv'
  <2>1. next'[t] = n + 1 /\ goal' = goal /\ old' = old /\ old[t] \in Nat
    BY <1>1, <1>2, BoundsAssumption DEF IInv, TypeOK
  <2>2. old[t] # 0 => Unused' = {i \in DOMAIN slots' : i >= old[t]}
    <3>1. ASSUME old[t] # 0, NEW i \in 1 .. n
          PROVE  ~ slots'[i].second <=> i >= old[t]
      <4>1. CASE i = n
        BY <4>1, <1>2, <1>3, <1>4
      <4>2. CASE i \in 1 .. Len(slots)
        BY <4>2, <3>1, <1>2, <1>3, <1>4 DEF Unused
      <4> QED BY <4>1, <4>2, <1>3
    <3> QED BY <3>1, <1>4 DEF Unused
  <2> QED BY <2>1, <2>2, <1>2, <1>3, <1>4, <1>5 DEF LoopInv
<1>14. Constructed' = Constructed
  <2>1. Constructed = n
    BY <1>1, ConstructedIs
  <2>2. Constructed' = n
    BY <1>3, <1>4, <1>5 DEF Constructed
  <2> QED BY <2>1, <2>2
<1>15. IdInv' /\ StackInv'
  BY <1>1, <1>5, <1>14 DEF IInv, IdInv, StackInv, allocVars
<1> QED BY <1>6, <1>7, <1>9, <1>10, <1>11, <1>12, <1>13, <1>15 DEF IInv

\* The locals after a call of resize.
LEMMA ReturnStep ==
  ASSUME TypeOK, GrowerInv, NEW t \in Threads, pc[t] # "out", Return(t)
  PROVE  /\ pc' \in [Threads -> Steps] /\ next' \in [Threads -> 1 .. MaxSlots + 1]
         /\ goal' \in [Threads -> 0 .. MaxSlots] /\ old' \in [Threads -> 0 .. MaxSlots]
         /\ block' \in [Threads -> Block \cup {Absent}]
         /\ made' \in [Threads -> Ids \cup {0}] /\ end' \in [Threads -> 0 .. MaxSlots]
         /\ \A u \in Threads : /\ pc'[u] = "out" /\ old'[u] = 0
                              /\ goal'[u] \in {0, goal[u]}
         /\ GrowerInv' /\ LoopInv'
<1>1. \A u \in Threads \ {t} : pc[u] = "out" /\ old[u] = 0
  BY OnlyGrower
<1>2. \A u \in Threads : /\ pc'[u] = "out" /\ old'[u] = 0
                         /\ goal'[u] \in {0, goal[u]}
  BY <1>1 DEF Return, Goto, TypeOK
<1>3. GrowerInv' /\ LoopInv'
  BY <1>2 DEF GrowerInv, LoopInv
<1>4. /\ pc' \in [Threads -> Steps] /\ next' \in [Threads -> 1 .. MaxSlots + 1]
      /\ goal' \in [Threads -> 0 .. MaxSlots] /\ old' \in [Threads -> 0 .. MaxSlots]
      /\ block' \in [Threads -> Block \cup {Absent}]
      /\ made' \in [Threads -> Ids \cup {0}] /\ end' \in [Threads -> 0 .. MaxSlots]
  BY BoundsAssumption DEF Return, Goto, TypeOK, Steps
<1> QED BY <1>2, <1>3, <1>4

LEMMA GetNewInv == ASSUME IInv, NEW t \in Threads, GetNew(t) PROVE IInv'
<1> DEFINE i == old[t]
<1>1. /\ pc[t] = "loop" /\ next[t] > goal[t] /\ i # 0 /\ Return(t) /\ mutex' = Nobody
      /\ slots' = [slots EXCEPT ![i].second = TRUE]
      /\ owner' = [owner EXCEPT ![slots[i].first] = t]
      /\ UNCHANGED <<open, nextId, stack, flagVars, status, peak, asked>>
  BY DEF GetNew, At, Give
<1>2. /\ slots \in Seq(Slot) /\ Len(slots) \in Nat
      /\ DOMAIN slots = 1 .. Len(slots) /\ DOMAIN slots \subseteq Ids
  BY SlotsAre DEF IInv
<1>3. i \in DOMAIN slots /\ i \in Ids /\ slots[i].first = i /\ t # Nobody
  <2>1. next[t] = Len(slots) + 1 /\ i <= goal[t] /\ i \in Nat /\ goal[t] \in Nat
    BY <1>1, BoundsAssumption DEF IInv, TypeOK, LoopInv
  <2> QED BY <2>1, <1>1, <1>2, SentinelAssumption DEF IInv, IdIsIndex
<1>4. /\ slots' \in Seq(Slot) /\ Len(slots') = Len(slots) /\ DOMAIN slots' = DOMAIN slots
      /\ \A j \in DOMAIN slots :
           /\ slots'[j].first = slots[j].first
           /\ slots'[j].second = IF j = i THEN TRUE ELSE slots[j].second
  <2>1. TRUE \in BOOLEAN
    OBVIOUS
  <2> QED BY <2>1, <1>1, <1>2, <1>3, FlagSlot
<1>5. /\ pc' \in [Threads -> Steps] /\ next' \in [Threads -> 1 .. MaxSlots + 1]
      /\ goal' \in [Threads -> 0 .. MaxSlots] /\ old' \in [Threads -> 0 .. MaxSlots]
      /\ block' \in [Threads -> Block \cup {Absent}]
      /\ made' \in [Threads -> Ids \cup {0}] /\ end' \in [Threads -> 0 .. MaxSlots]
      /\ \A u \in Threads : /\ pc'[u] = "out" /\ old'[u] = 0
                           /\ goal'[u] \in {0, goal[u]}
      /\ GrowerInv' /\ LoopInv'
  BY <1>1, ReturnStep DEF IInv
<1>6. TypeOK'
  BY <1>1, <1>3, <1>4, <1>5 DEF IInv, TypeOK, Slot, Memory!TypeOK, flagVars
<1>7. IdIsIndex' /\ UsedIsOwned' /\ FreeIsClean' /\ OwnerInv'
  BY <1>1, <1>2, <1>3, <1>4
  DEF IInv, TypeOK, IdIsIndex, UsedIsOwned, FreeIsClean, OwnerInv, Owned, flagVars
<1>8. GrowthBound' /\ GoalInv'
  <2>1. Larger(asked, Half(peak)) \in Nat
    <3>1. asked \in Nat /\ peak \in Nat
      BY BoundsAssumption DEF IInv, TypeOK
    <3> QED BY <3>1, BoundRises
  <2>2. asked' = asked /\ peak' = peak
    BY <1>1
  <2>3. GrowthBound'
    BY <2>2, <1>4 DEF IInv, GrowthBound
  <2>4. \A u \in Threads : goal'[u] <= Larger(asked, Half(peak))
    <3>1. \A u \in Threads : goal'[u] \in {0, goal[u]} /\ goal[u] <= Larger(asked, Half(peak))
      BY <1>5 DEF IInv, GoalInv
    <3> QED BY <2>1, <3>1
  <2> QED BY <2>2, <2>3, <2>4 DEF GoalInv
<1>9. IdInv' /\ StackInv'
  <2>1. Constructed' = Constructed
    <3>1. Constructed = Len(slots)
      <4>1. \A u \in Threads : pc[u] # "store"
        BY <1>1, OnlyGrower DEF IInv
      <4> QED BY <4>1, ConstructedIs
    <3>2. Constructed' = Len(slots)
      <4>1. (\A u \in Threads : pc'[u] # "store") /\ Len(slots') = Len(slots)
        BY <1>4, <1>5
      <4> QED BY <4>1, <1>2 DEF Constructed
    <3> QED BY <3>1, <3>2
  <2> QED BY <2>1, <1>1, <1>5 DEF IInv, IdInv, StackInv
<1> QED BY <1>5, <1>6, <1>7, <1>8, <1>9 DEF IInv

LEMMA ResizeEndInv == ASSUME IInv, NEW t \in Threads, ResizeEnd(t) PROVE IInv'
<1>1. /\ pc[t] = "loop" /\ Return(t) /\ open' = TRUE
      /\ UNCHANGED <<slots, mutex, nextId, stack, flagVars, status, clientVars>>
  BY DEF ResizeEnd, At
<1>2. /\ pc' \in [Threads -> Steps] /\ next' \in [Threads -> 1 .. MaxSlots + 1]
      /\ goal' \in [Threads -> 0 .. MaxSlots] /\ old' \in [Threads -> 0 .. MaxSlots]
      /\ block' \in [Threads -> Block \cup {Absent}]
      /\ made' \in [Threads -> Ids \cup {0}] /\ end' \in [Threads -> 0 .. MaxSlots]
      /\ \A u \in Threads : /\ pc'[u] = "out" /\ old'[u] = 0
                           /\ goal'[u] \in {0, goal[u]}
      /\ GrowerInv' /\ LoopInv'
  BY <1>1, ReturnStep DEF IInv
<1>3. TypeOK'
  BY <1>1, <1>2 DEF IInv, TypeOK, Memory!TypeOK, flagVars, clientVars
<1>4. IdIsIndex' /\ UsedIsOwned' /\ FreeIsClean' /\ OwnerInv' /\ GrowthBound'
  BY <1>1
  DEF IInv, IdIsIndex, UsedIsOwned, FreeIsClean, OwnerInv, Owned, GrowthBound, flagVars, clientVars
<1>5. GoalInv'
  <2>1. Larger(asked, Half(peak)) \in Nat
    <3>1. asked \in Nat /\ peak \in Nat
      BY BoundsAssumption DEF IInv, TypeOK
    <3> QED BY <3>1, BoundRises
  <2> QED BY <2>1, <1>1, <1>2 DEF IInv, GoalInv, clientVars
<1>6. IdInv' /\ StackInv'
  <2>1. Constructed' = Constructed
    <3>1. \A u \in Threads : pc[u] # "store"
      BY <1>1, OnlyGrower DEF IInv
    <3> QED BY <3>1, <1>1, <1>2 DEF Constructed
  <2> QED BY <2>1, <1>1, <1>2 DEF IInv, IdInv, StackInv
<1> QED BY <1>2, <1>3, <1>4, <1>5, <1>6 DEF IInv

\* A coroutine made elsewhere draws an id when the pool has its final size.
LEMMA ElsewhereInv == ASSUME Careful, IInv, Elsewhere PROVE IInv'
<1> DEFINE S == {c \in Ids : stack[c] # Absent}
<1>1. /\ Len(slots) = MaxSlots /\ nextId - 1 - Cardinality(S) < MaxOthers
      /\ nextId' = nextId + 1
      /\ UNCHANGED <<slots, open, mutex, stack, flagVars, pc, growVars, allocVars, clientVars>>
  BY DEF Careful, Elsewhere
<1>2. Constructed = MaxSlots
  <2>1. ASSUME NEW t \in Threads, pc[t] = "store" PROVE FALSE
    <3>1. /\ next[t] = Len(slots) + 1 /\ next[t] <= goal[t] + 0
          /\ goal[t] \in 0 .. MaxSlots
      BY <2>1 DEF IInv, TypeOK, LoopInv
    <3> QED BY <3>1, <1>1, BoundsAssumption
  <2> QED BY <2>1, <1>1, ConstructedIs
<1>3. S = 1 .. MaxSlots
  BY <1>2, BoundsAssumption DEF IInv, IdInv, Ids, MaxId
<1>4. Cardinality(S) = MaxSlots
  <2>1. 1 \in Int /\ MaxSlots \in Int
    BY BoundsAssumption
  <2>2. Cardinality(1 .. MaxSlots) = IF 1 > MaxSlots THEN 0 ELSE MaxSlots - 1 + 1
    BY <2>1, FS_Interval
  <2>3. Cardinality(1 .. MaxSlots) = MaxSlots
    BY <2>2, BoundsAssumption
  <2> QED BY <2>3, <1>3
<1> HIDE DEF S
<1>5. nextId \in Nat /\ nextId' \in 1 .. MaxId + 1
  BY <1>1, <1>4, BoundsAssumption DEF IInv, TypeOK, MaxId
<1>6. TypeOK'
  BY <1>1, <1>5 DEF IInv, TypeOK, Memory!TypeOK, flagVars, growVars, allocVars, clientVars
<1>7. Constructed' = Constructed
  BY <1>1 DEF Constructed
<1>8. IdInv'
  BY <1>1, <1>2, <1>5, <1>7, BoundsAssumption DEF IInv, IdInv
<1>9. /\ IdIsIndex' /\ UsedIsOwned' /\ FreeIsClean' /\ GrowthBound' /\ OwnerInv' /\ GoalInv'
      /\ GrowerInv' /\ LoopInv' /\ StackInv'
  BY <1>1
  DEF IInv, IdIsIndex, UsedIsOwned, FreeIsClean, GrowthBound, OwnerInv, Owned, GoalInv,
      GrowerInv, LoopInv, Unused, StackInv, flagVars, growVars, allocVars, clientVars
<1> QED BY <1>6, <1>8, <1>9 DEF IInv

LEMMA StutterInv == ASSUME IInv, UNCHANGED vars PROVE IInv'
<1>1. TypeOK'
  BY DEF IInv, vars, TypeOK, Memory!TypeOK, flagVars, growVars, allocVars, clientVars
<1>2. /\ IdIsIndex' /\ UsedIsOwned' /\ FreeIsClean' /\ GrowthBound' /\ OwnerInv' /\ GoalInv'
      /\ GrowerInv' /\ LoopInv'
  BY DEF IInv, vars, IdIsIndex, UsedIsOwned, FreeIsClean, GrowthBound, OwnerInv, Owned, GoalInv,
         GrowerInv, LoopInv, Unused, flagVars, growVars, allocVars, clientVars
<1>3. IdInv' /\ StackInv'
  BY DEF IInv, vars, IdInv, Constructed, StackInv, allocVars
<1> QED BY <1>1, <1>2, <1>3 DEF IInv

LEMMA Inductive == ASSUME Careful PROVE IInv /\ [Next]_vars => IInv'
<1> SUFFICES ASSUME IInv, [Next]_vars PROVE IInv'
  OBVIOUS
<1>1. ASSUME NEW t \in Threads, Grow(t) \/ GetNone(t) \/ Resize(t)
      PROVE  IInv'
  BY <1>1, PickBlockInv, GetBlockInv, MakeInv, StoreInv, GetNewInv, ResizeEndInv, GetNoneInv,
     ResizeInv DEF Grow
<1>2. ASSUME NEW t \in Threads, NEW i \in DOMAIN slots, GetFree(t, i)
      PROVE  IInv'
  BY <1>2, GetFreeInv
<1>3. ASSUME NEW t \in Threads, NEW c \in Ids, Back(t, c) \/ Use(t, c)
      PROVE  IInv'
  BY <1>3, BackInv, UseInv
<1> QED BY <1>1, <1>2, <1>3, ElsewhereInv, StutterInv DEF Next

-----------------------------------------------------------------------------
\* Every reachable state satisfies the inductive invariant.
THEOREM Invariance == ASSUME Careful PROVE Spec => []IInv
BY InvInit, Inductive, PTL DEF Spec

\* The id of a coroutine is the index of its slot, as backCoroutine assumes.
THEOREM IdIsIndexCorrect == ASSUME Careful PROVE Spec => []IdIsIndex
<1>1. IInv => IdIsIndex
  BY DEF IInv
<1> QED BY Invariance, <1>1, PTL

\* A slot is in use exactly while a thread has its coroutine, through growth and
\* give-backs: no coroutine is given twice, none is lost to the pool.
THEOREM UsedIsOwnedCorrect == ASSUME Careful PROVE Spec => []UsedIsOwned
<1>1. IInv => UsedIsOwned
  BY DEF IInv
<1> QED BY Invariance, <1>1, PTL

\* A coroutine that is free has both flags false.
THEOREM FreeIsCleanCorrect == ASSUME Careful PROVE Spec => []FreeIsClean
<1>1. IInv => FreeIsClean
  BY DEF IInv
<1> QED BY Invariance, <1>1, PTL

\* No step takes a coroutine from its slot or a slot from the pool, so the
\* pointers that were given out stay good (resize: "can only be scaled up!").
THEOREM SlotsStayCorrect == ASSUME Careful PROVE Spec => SlotsStay
<1> DEFINE Stay == \A i \in DOMAIN slots : i \in DOMAIN slots' /\ slots'[i].first = slots[i].first
<1>1. ASSUME IInv, IInv', [Next]_vars PROVE Stay
  <2> SUFFICES DOMAIN slots \subseteq DOMAIN slots'
    \* In its slot before and after, a coroutine has the number of the slot.
    BY <1>1 DEF IInv, IdIsIndex
  <2>1. slots \in Seq([first : Ids, second : BOOLEAN])
    BY <1>1 DEF IInv, TypeOK
  <2>2. ASSUME NEW t \in Threads, Store(t) PROVE DOMAIN slots \subseteq DOMAIN slots'
    <3>1. end[t] = Len(slots) + 1
      BY <1>1, <2>2 DEF IInv, LoopInv, Store, At
    <3> QED
      BY <2>1, <2>2, <3>1 DEF Store, Emplace
  <2>3. ASSUME NEW t \in Threads, Grow(t), ~ Store(t) PROVE DOMAIN slots' = DOMAIN slots
    BY <2>1, <2>3 DEF Grow, PickBlock, GetBlock, Make, GetNew, ResizeEnd
  <2>4. ASSUME NEW t \in Threads, GetNone(t) \/ Resize(t) PROVE slots' = slots
    BY <2>4 DEF GetNone, Resize
  <2>5. ASSUME NEW t \in Threads, NEW i \in DOMAIN slots, GetFree(t, i)
        PROVE  DOMAIN slots' = DOMAIN slots
    BY <2>1, <2>5 DEF GetFree
  <2>6. ASSUME NEW t \in Threads, NEW c \in Ids, Back(t, c) \/ Use(t, c)
        PROVE  DOMAIN slots' = DOMAIN slots
    BY <2>1, <2>6 DEF Back, Use
  <2>7. CASE Elsewhere \/ UNCHANGED vars
    BY <2>7 DEF Elsewhere, vars
  <2> QED
    BY <1>1, <2>2, <2>3, <2>4, <2>5, <2>6, <2>7 DEF Next
<1>2. IInv /\ IInv' /\ [Next]_vars => [Stay]_vars
  BY <1>1
<1> QED
  BY Invariance, <1>2, PTL DEF Spec, SlotsStay

\* The stacks of the pool are distinct blocks that the memory pool has granted.
THEOREM StacksDisjointCorrect == ASSUME Careful PROVE Spec => []StacksDisjoint
<1>1. IInv => StacksDisjoint
  <2> SUFFICES ASSUME IInv PROVE StacksDisjoint
    OBVIOUS
  <2>1. ASSUME NEW i \in DOMAIN slots
        PROVE  /\ slots[i].first = i /\ i \in Ids
               /\ stack[i] \in Block /\ status[stack[i]] = "held"
    <3>1. /\ slots[i].first = i /\ i \in Ids /\ Len(slots) \in Nat
          /\ i \in 1 .. Len(slots)
      BY <2>1, SlotsAre DEF IInv, IdIsIndex
    <3>2. i <= Constructed
      BY <3>1, ConstructedIs
    <3>3. stack[i] # Absent
      BY <3>1, <3>2 DEF IInv, IdInv
    <3> QED BY <3>1, <3>3 DEF IInv, TypeOK, StackInv
  <2>2. ASSUME NEW i \in DOMAIN slots, NEW j \in DOMAIN slots,
               stack[slots[i].first] = stack[slots[j].first]
        PROVE  i = j
    BY <2>1, <2>2, SentinelAssumption DEF IInv, StackInv
  <2> QED BY <2>1, <2>2 DEF StacksDisjoint
<1> QED BY Invariance, <1>1, PTL

\* The pool is no larger than one and a half times what was asked for at a time,
\* or than it was told to be.
THEOREM GrowthBoundCorrect == ASSUME Careful PROVE Spec => []GrowthBound
<1>1. IInv => GrowthBound
  BY DEF IInv
<1> QED BY Invariance, <1>1, PTL

-----------------------------------------------------------------------------
(* The refinement of ObjectPool *)

LEMMA HolderIs ==
  ASSUME IdIsIndex
  PROVE  Holder = [c \in Ids |-> IF c \in DOMAIN slots THEN owner[c] ELSE Absent]
BY DEF Holder, IdIsIndex

LEMMA HolderNext ==
  ASSUME IdIsIndex'
  PROVE  Holder' = [c \in Ids |-> IF c \in DOMAIN slots' THEN owner'[c] ELSE Absent]
BY DEF Holder, IdIsIndex

\* A step that gives a coroutine of the pool to somebody, or to nobody.
LEMMA HolderMoves ==
  ASSUME IInv, IdIsIndex', NEW i \in DOMAIN slots, NEW w,
         DOMAIN slots' = DOMAIN slots, owner' = [owner EXCEPT ![i] = w]
  PROVE  Holder[i] = owner[i] /\ Holder' = [Holder EXCEPT ![i] = w]
<1>1. i \in Ids /\ owner \in [Ids -> Threads \cup {Nobody}]
  BY SlotsAre DEF IInv, TypeOK
<1>2. Holder = [c \in Ids |-> IF c \in DOMAIN slots THEN owner[c] ELSE Absent]
  BY HolderIs DEF IInv
<1>3. Holder' = [c \in Ids |-> IF c \in DOMAIN slots THEN owner'[c] ELSE Absent]
  BY HolderNext
<1> QED BY <1>1, <1>2, <1>3

LEMMA HolderStays ==
  ASSUME UNCHANGED <<slots, owner>>
  PROVE  UNCHANGED Holder
BY DEF Holder

LEMMA CleanStays ==
  ASSUME UNCHANGED flagVars
  PROVE  UNCHANGED Clean
BY DEF Clean, flagVars

LEMMA RefineInit == Init => Abstract!Init
<1> SUFFICES ASSUME Init PROVE Abstract!Init
  OBVIOUS
<1>1. Holder = [c \in Ids |-> Absent]
  BY DEF Init, Holder
<1>2. Clean = Ids
  BY DEF Init, Clean
<1> QED BY <1>1, <1>2 DEF Abstract!Init

LEMMA RefineStep ==
  ASSUME Careful, IInv, IInv', [Next]_vars
  PROVE  [Abstract!Next]_<<Holder, Clean>>
<1>a. IdIsIndex /\ IdIsIndex' /\ DOMAIN slots \subseteq Ids /\ DOMAIN slots = 1 .. Len(slots)
  BY SlotsAre DEF IInv
<1>1. ASSUME NEW t \in Threads, NEW i \in DOMAIN slots, GetFree(t, i)
      PROVE  Abstract!Next
  <2>1. owner[i] = Nobody /\ slots[i].first = i /\ i \in Ids
    BY <1>1, <1>a DEF IInv, GetFree, Unused, UsedIsOwned, IdIsIndex
  <2>2. owner' = [owner EXCEPT ![i] = t] /\ DOMAIN slots' = DOMAIN slots
    BY <1>1, <2>1 DEF GetFree, Give
  <2>3. Holder[i] = Nobody /\ Holder' = [Holder EXCEPT ![i] = t]
    BY <1>a, <2>1, <2>2, HolderMoves
  <2>4. i \in Clean /\ Clean' = Clean
    <3>1. UNCHANGED flagVars
      BY <1>1 DEF GetFree
    <3> QED BY <3>1, <2>1, CleanStays DEF IInv, FreeIsClean, Clean
  <2> QED BY <2>1, <2>3, <2>4 DEF Abstract!Next, Abstract!Acquire, Abstract!Move
<1>2. ASSUME NEW t \in Threads, GetNew(t)
      PROVE  Abstract!Next
  <2> DEFINE i == old[t]
  <2>1. i \in DOMAIN slots /\ i \in Unused
    <3>1. /\ next[t] = Len(slots) + 1 /\ next[t] > goal[t] /\ i # 0 /\ i <= goal[t]
          /\ Unused = {j \in DOMAIN slots : j >= i}
      BY <1>2 DEF IInv, GetNew, At, LoopInv
    <3>2. i \in Nat /\ goal[t] \in Nat /\ Len(slots) \in Nat
      BY BoundsAssumption, SlotsAre DEF IInv, TypeOK
    <3> QED BY <3>1, <3>2, <1>a
  <2>2. owner[i] = Nobody /\ slots[i].first = i /\ i \in Ids
    BY <2>1, <1>a DEF IInv, Unused, UsedIsOwned, IdIsIndex
  <2>3. owner' = [owner EXCEPT ![i] = t] /\ DOMAIN slots' = DOMAIN slots
    BY <1>2, <2>2 DEF GetNew, Give
  <2>4. Holder[i] = Nobody /\ Holder' = [Holder EXCEPT ![i] = t]
    BY <1>a, <2>1, <2>2, <2>3, HolderMoves
  <2>5. i \in Clean /\ Clean' = Clean
    <3>1. UNCHANGED flagVars
      BY <1>2 DEF GetNew
    <3> QED BY <3>1, <2>2, CleanStays DEF IInv, FreeIsClean, Clean
  <2> QED BY <2>2, <2>4, <2>5 DEF Abstract!Next, Abstract!Acquire, Abstract!Move
<1>3. ASSUME NEW t \in Threads, Store(t)
      PROVE  Abstract!Next
  <2> DEFINE n == Len(slots) + 1
  <2>1. /\ end[t] = n /\ n \in Ids /\ n \notin DOMAIN slots /\ DOMAIN slots' = 1 .. n
        /\ 1 .. n = DOMAIN slots \cup {n}
    <3>1. end[t] = n /\ n <= goal[t] + 0 /\ goal[t] \in 0 .. MaxSlots
      <4>1. pc[t] = "store"
        BY <1>3 DEF Store, At
      <4>2. goal[t] \in 0 .. MaxSlots
        BY DEF IInv, TypeOK
      <4>3. end[t] = next[t] /\ next[t] = n /\ next[t] <= goal[t] + 0
        BY <4>1 DEF IInv, LoopInv
      <4> QED BY <4>2, <4>3
    <3>2. Len(slots) \in Nat
      BY SlotsAre DEF IInv
    <3> QED BY <3>1, <3>2, <1>3, <1>a, BoundsAssumption DEF Store, Emplace, Ids, MaxId
  <2>2. owner' = owner /\ owner[n] = Nobody
    BY <1>3, <2>1 DEF IInv, Store, clientVars, OwnerInv, Owned
  <2>3. Holder[n] = Absent /\ Holder' = [Holder EXCEPT ![n] = Nobody]
    <3>1. Holder = [c \in Ids |-> IF c \in DOMAIN slots THEN owner[c] ELSE Absent]
      BY <1>a, HolderIs
    <3>2. Holder' = [c \in Ids |-> IF c \in DOMAIN slots \cup {n} THEN owner[c] ELSE Absent]
      BY <1>a, <2>1, <2>2, HolderNext
    <3> QED BY <3>1, <3>2, <2>1, <2>2
  <2>4. n \in Clean /\ Clean' = Clean
    <3>1. UNCHANGED flagVars
      BY <1>3 DEF Store
    <3> QED BY <3>1, <2>1, <2>2, CleanStays DEF IInv, FreeIsClean, Clean
  <2> QED BY <2>1, <2>3, <2>4 DEF Abstract!Next, Abstract!Create, Abstract!Move
<1>4. ASSUME NEW t \in Threads, NEW c \in Ids, Back(t, c)
      PROVE  Abstract!Next
  <2>1. /\ c \in DOMAIN slots /\ owner[c] = t /\ slots[c].first = c /\ slots[c].second
    BY <1>4, <1>a, SentinelAssumption DEF IInv, Back, IdIsIndex, UsedIsOwned
  <2>2. /\ owner' = [owner EXCEPT ![c] = Nobody] /\ DOMAIN slots' = DOMAIN slots
        /\ running' = [running EXCEPT ![c] = FALSE] /\ resume' = [resume EXCEPT ![c] = FALSE]
    BY <1>4, <2>1 DEF Back
  <2>3. Holder[c] = t /\ Holder' = [Holder EXCEPT ![c] = Nobody]
    BY <1>a, <2>1, <2>2, HolderMoves
  <2>4. Clean' = Clean \cup {c}
    <3>1. running \in [Ids -> BOOLEAN] /\ resume \in [Ids -> BOOLEAN]
      BY DEF IInv, TypeOK
    <3> QED BY <2>2, <3>1 DEF Clean
  <2> QED BY <2>3, <2>4 DEF Abstract!Next, Abstract!Release, Abstract!Move
<1>5. ASSUME NEW t \in Threads, NEW c \in Ids, Use(t, c)
      PROVE  Abstract!Next
  <2>1. owner[c] = t /\ UNCHANGED <<slots, owner>>
    BY <1>5 DEF Use, clientVars
  <2>2. Holder[c] = t
    <3>1. c \in DOMAIN slots
      BY <2>1, SentinelAssumption DEF IInv, OwnerInv, Owned
    <3> QED BY <3>1, <2>1, <1>a, HolderIs
  <2>3. Holder' = Holder
    BY <2>1, HolderStays
  <2>4. Clean' = Clean \ {c}
    BY <1>5 DEF IInv, TypeOK, Use, Clean
  <2> QED BY <2>2, <2>3, <2>4 DEF Abstract!Next, Abstract!Use
<1>6. CASE /\ UNCHANGED <<slots, owner>> /\ UNCHANGED flagVars
  BY <1>6, HolderStays, CleanStays
<1>7. ASSUME NEW t \in Threads,
             PickBlock(t) \/ GetBlock(t) \/ Make(t) \/ ResizeEnd(t) \/ GetNone(t) \/ Resize(t)
      PROVE  UNCHANGED <<slots, owner>> /\ UNCHANGED flagVars
  BY <1>7 DEF PickBlock, GetBlock, Make, ResizeEnd, GetNone, Resize, clientVars
<1>8. Elsewhere \/ UNCHANGED vars => UNCHANGED <<slots, owner>> /\ UNCHANGED flagVars
  BY DEF Elsewhere, vars, clientVars
<1> QED BY <1>1, <1>2, <1>3, <1>4, <1>5, <1>6, <1>7, <1>8 DEF Next, Grow

\* The pool implements the abstract pool of objects: one holder per object, only
\* clean objects are given out, and growth in steps shows nowhere.
THEOREM ImplementsObjectPool == ASSUME Careful PROVE Spec => PoolSpec
<1>1. IInv /\ IInv' /\ [Next]_vars => [Abstract!Next]_<<Holder, Clean>>
  BY RefineStep
<1> QED BY RefineInit, Invariance, <1>1, PTL DEF Spec, PoolSpec, Abstract!Spec
=============================================================================
