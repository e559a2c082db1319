--------------------------- MODULE MemoryPool_proof ---------------------------
(***************************************************************************)
(* Theorems about MemoryPool, for every number of threads, group size,     *)
(* initial size and set of heap regions.                                   *)
(***************************************************************************)
EXTENDS MemoryPool, SequenceTheorems, FiniteSetTheorems, TLAPS

-----------------------------------------------------------------------------
(* Lemmas about the data *)

\* The constructor makes at least one group.
LEMMA InitialGroupsPositive ==
  /\ InitialGroups \in Nat \ {0}
  /\ GroupSize <= CounterMax
  /\ InitialGroups * GroupSize \in 0 .. CounterMax
<1> DEFINE q == BlockCount \div GroupSize
<1>1. q \in Nat
  BY SizesAssumption
<1>2. (q + 1) * GroupSize <= CounterMax
  BY SizesAssumption
<1>3. GroupSize <= (q + 1) * GroupSize /\ (q + 1) * GroupSize \in Nat
  <2> HIDE DEF q
  <2> QED BY <1>1, SizesAssumption
<1> QED
  BY <1>1, <1>2, <1>3, SizesAssumption DEF InitialGroups

\* The counters stay in range whatever is added to or taken from them.
LEMMA CounterRange ==
  ASSUME NEW n \in 0 .. CounterMax, NEW d \in 0 .. CounterMax
  PROVE  Plus(n, d) \in 0 .. CounterMax /\ Minus(n, d) \in 0 .. CounterMax
BY SizesAssumption DEF Plus, Minus

\* A group that has just been built is a group.
LEMMA NewGroupType ==
  ASSUME NEW r \in Regions
  PROVE  NewGroup(r) \in Group
BY DEF NewGroup, Group

\* Setting or clearing one flag of one group leaves a sequence of as many
\* groups with the same regions.
LEMMA FlagType ==
  ASSUME NEW s \in Seq(Group), NEW i, NEW b, NEW v \in BOOLEAN
  PROVE  LET u == [s EXCEPT ![i].flags[b] = v] IN
         /\ u \in Seq(Group)
         /\ Len(u) = Len(s)
         /\ \A j \in DOMAIN s : u[j].start = s[j].start
<1> DEFINE u == [s EXCEPT ![i].flags[b] = v]
<1>1. DOMAIN u = 1 .. Len(s)
  OBVIOUS
<1>2. \A j \in 1 .. Len(s) : s[j] \in Group
  OBVIOUS
<1>3. ASSUME NEW j \in 1 .. Len(s) PROVE u[j] \in Group /\ u[j].start = s[j].start
  <2>1. s[j] \in Group
    BY <1>2
  <2>2. u[j] = IF j = i THEN [s[j] EXCEPT !.flags[b] = v] ELSE s[j]
    OBVIOUS
  <2>3. [s[j].flags EXCEPT ![b] = v] \in [Indices -> BOOLEAN]
    BY <2>1 DEF Group
  <2>4. [s[j] EXCEPT !.flags[b] = v] \in Group /\ [s[j] EXCEPT !.flags[b] = v].start = s[j].start
    BY <2>1, <2>3 DEF Group
  <2> QED
    BY <2>1, <2>2, <2>4
<1>4. u \in [1 .. Len(s) -> Group]
  BY <1>1, <1>3
<1>5. u \in Seq(Group) /\ Len(u) = Len(s)
  BY <1>4
<1> QED
  BY <1>3, <1>5

\* swap and pop_back: the group at i is gone, the last one takes its place,
\* the others stay where they are.
LEMMA SwapPopType ==
  ASSUME NEW s \in Seq(Group), NEW i \in 1 .. Len(s)
  PROVE  /\ SwapPop(s, i) \in Seq(Group)
         /\ Len(SwapPop(s, i)) = Len(s) - 1
         /\ \A j \in 1 .. Len(s) - 1 :
              SwapPop(s, i)[j] = IF j = i THEN s[Len(s)] ELSE s[j]
<1> DEFINE u == [j \in 1 .. Len(s) - 1 |-> IF j = i THEN s[Len(s)] ELSE s[j]]
<1>1. Len(s) \in Nat /\ Len(s) - 1 \in Nat
  OBVIOUS
<1>2. u \in [1 .. Len(s) - 1 -> Group]
  OBVIOUS
<1>3. u \in Seq(Group) /\ Len(u) = Len(s) - 1
  BY <1>1, <1>2
<1> QED
  BY <1>3 DEF SwapPop

-----------------------------------------------------------------------------
(* Types *)

TypeInv == TypeOK /\ CallInv

\* The part of TypeInv about the calls under way.
CallsOK ==
  /\ pc \in [Threads -> Steps]
  /\ addr \in [Threads -> Address \cup {NoBlock}]
  /\ index \in [Threads -> Nat]
  /\ CallInv

\* A call that goes on at a step, about a block wherever the step needs one.
LEMMA CallStep ==
  ASSUME CallsOK, NEW t \in Threads, NEW s \in Steps,
         NEW a \in Address \cup {NoBlock}, NEW i \in Nat,
         s \notin {"idle", "sweep"} => a \in Address,
         s = "sweep" => i > 0,
         Continue(t, s, a, i)
  PROVE  CallsOK'
BY DEF CallsOK, CallInv, Continue

LEMMA TypeInit == Init => TypeInv
<1> SUFFICES ASSUME Init PROVE TypeInv
  OBVIOUS
<1>1. groups \in Seq(Group)
  <2>1. PICK r \in [1 .. InitialGroups -> Regions] :
          groups = [i \in 1 .. InitialGroups |-> NewGroup(r[i])]
    BY DEF Init
  <2>2. groups \in [1 .. InitialGroups -> Group]
    BY <2>1, NewGroupType
  <2> QED
    BY <2>2, InitialGroupsPositive
<1>2. use \in 0 .. CounterMax /\ all \in 0 .. CounterMax
  BY InitialGroupsPositive, SizesAssumption DEF Init
<1> QED
  BY <1>1, <1>2 DEF Init, TypeInv, TypeOK, CallInv, Steps

LEMMA TypeStep == TypeInv /\ [Next]_vars => TypeInv'
<1> SUFFICES ASSUME TypeInv, [Next]_vars PROVE TypeInv'
  OBVIOUS
<1> DEFINE DataOK == /\ groups \in Seq(Group)
                     /\ use \in 0 .. CounterMax
                     /\ all \in 0 .. CounterMax
                     /\ mutex \in Threads \cup {NoThread}
                     /\ held \in SUBSET Address
<1>a. DataOK /\ CallsOK
  BY DEF TypeInv, TypeOK, CallsOK
<1>b. DataOK' /\ CallsOK' => TypeInv'
  BY DEF TypeInv, TypeOK, CallsOK
<1>c. {"count", "sweep", "growUse", "growAll", "growFlag", "backUse", "backClear",
       "idle"} \subseteq Steps
  BY DEF Steps, LockSteps, GrowSteps, BackSteps
<1>d. ASSUME NEW t \in Threads
      PROVE  /\ addr[t] \in Address \cup {NoBlock}
             /\ index[t] \in Nat
             /\ pc[t] \notin {"idle", "sweep"} => addr[t] \in Address
             /\ pc[t] = "sweep" => index[t] > 0
  BY <1>a DEF CallsOK, CallInv
<1>e. ASSUME NEW n \in 0 .. CounterMax
      PROVE  /\ Plus(n, 1) \in 0 .. CounterMax /\ Plus(n, GroupSize) \in 0 .. CounterMax
             /\ Minus(n, 1) \in 0 .. CounterMax /\ Minus(n, GroupSize) \in 0 .. CounterMax
  <2>1. 1 \in 0 .. CounterMax /\ GroupSize \in 0 .. CounterMax
    BY InitialGroupsPositive, SizesAssumption
  <2> QED
    BY <2>1, CounterRange
<1>f. ASSUME NEW t \in Threads, Leave(t) PROVE CallsOK'
  BY <1>a, <1>c, <1>f, CallStep DEF Leave
<1>0. CASE UNCHANGED vars
  BY <1>0, <1>a, <1>b DEF vars, CallsOK, CallInv
<1>1. ASSUME NEW t \in Threads, TakeFree(t) PROVE TypeInv'
  <2>1. PICK i \in DOMAIN groups, b \in Indices :
          /\ groups' = [groups EXCEPT ![i].flags[b] = TRUE]
          /\ Continue(t, "count", <<groups[i].start, b>>, 0)
    BY <1>1 DEF TakeFree
  <2>2. groups' \in Seq(Group)
    BY <2>1, <1>a, FlagType
  <2>3. <<groups[i].start, b>> \in Address
    <3>1. groups[i] \in Group
      BY <1>a
    <3> QED
      BY <3>1 DEF Address, Group
  <2>4. CallsOK'
    BY <1>a, <1>c, <2>1, <2>3, CallStep
  <2> QED
    BY <1>1, <1>a, <1>b, <2>2, <2>4 DEF TakeFree
<1>2. ASSUME NEW t \in Threads, CountTaken(t) PROVE TypeInv'
  BY <1>2, <1>a, <1>b, <1>d, <1>e, <1>f DEF CountTaken
<1>3. ASSUME NEW t \in Threads, Grow(t) PROVE TypeInv'
  <2>1. PICK r \in Regions :
          /\ groups' = Append(groups, NewGroup(r))
          /\ Continue(t, "growUse", <<r, 0>>, 0)
    BY <1>3 DEF Grow
  <2>2. groups' \in Seq(Group)
    BY <1>a, <2>1, NewGroupType
  <2>3. <<r, 0>> \in Address
    BY SizesAssumption DEF Address, Indices
  <2>4. CallsOK'
    BY <1>a, <1>c, <2>1, <2>3, CallStep
  <2> QED
    BY <1>3, <1>a, <1>b, <2>2, <2>4 DEF Grow
<1>4. ASSUME NEW t \in Threads, GrowUse(t) PROVE TypeInv'
  <2>1. CallsOK'
    BY <1>4, <1>a, <1>c, <1>d, CallStep DEF GrowUse, Goto
  <2> QED
    BY <1>4, <1>a, <1>b, <1>e, <2>1 DEF GrowUse
<1>5. ASSUME NEW t \in Threads, GrowAll(t) PROVE TypeInv'
  <2>1. CallsOK'
    BY <1>5, <1>a, <1>c, <1>d, CallStep DEF GrowAll, Goto
  <2> QED
    BY <1>5, <1>a, <1>b, <1>e, <2>1 DEF GrowAll
<1>6. ASSUME NEW t \in Threads, GrowFlag(t) PROVE TypeInv'
  <2>1. groups' \in Seq(Group)
    BY <1>6, <1>a, FlagType DEF GrowFlag
  <2> QED
    BY <1>6, <1>a, <1>b, <1>d, <1>f, <2>1 DEF GrowFlag
<1>7. ASSUME NEW t \in Threads, NEW a \in held, BackFind(t, a) PROVE TypeInv'
  <2>1. PICK i \in DOMAIN groups : Continue(t, "backUse", a, i)
    BY <1>7 DEF BackFind
  <2>2. i \in Nat /\ a \in Address
    BY <1>a
  <2>3. CallsOK'
    BY <1>a, <1>c, <2>1, <2>2, CallStep
  <2> QED
    BY <1>7, <1>a, <1>b, <2>3 DEF BackFind
<1>8. ASSUME NEW t \in Threads, NEW a \in held, BackUnknown(t, a) PROVE TypeInv'
  BY <1>8, <1>a, <1>b DEF BackUnknown, CallsOK, CallInv
<1>9. ASSUME NEW t \in Threads, BackUse(t) PROVE TypeInv'
  <2>1. CallsOK'
    BY <1>9, <1>a, <1>c, <1>d, CallStep DEF BackUse, Goto
  <2> QED
    BY <1>9, <1>a, <1>b, <1>e, <2>1 DEF BackUse
<1>10. ASSUME NEW t \in Threads, BackClear(t) PROVE TypeInv'
  <2>1. groups' \in Seq(Group)
    BY <1>10, <1>a, FlagType DEF BackClear
  <2> QED
    BY <1>10, <1>a, <1>b, <1>f, <2>1 DEF BackClear
<1>11. ASSUME NEW t \in Threads, BackStray(t) PROVE TypeInv'
  <2>1. groups' \in Seq(Group)
    <3>1. CASE UNCHANGED groups
      BY <3>1, <1>a
    <3>2. CASE \E i \in DOMAIN groups, b \in Indices :
                 groups' = [groups EXCEPT ![i].flags[b] = FALSE]
      <4>1. PICK i \in DOMAIN groups, b \in Indices :
               groups' = [groups EXCEPT ![i].flags[b] = FALSE]
        BY <3>2
      <4> QED
        BY <4>1, <1>a, FlagType
    <3> QED
      BY <1>11, <3>1, <3>2 DEF BackStray
  <2> QED
    BY <1>11, <1>a, <1>b, <1>f, <2>1 DEF BackStray
<1>12. ASSUME NEW t \in Threads, SweepStart(t) PROVE TypeInv'
  <2>1. CallsOK'
    <3>1. Continue(t, "sweep", NoBlock, 1) /\ 1 \in Nat /\ 1 > 0
      BY <1>12 DEF SweepStart
    <3> QED
      BY <3>1, <1>a, <1>c, CallStep
  <2> QED
    BY <1>12, <1>a, <1>b, <2>1 DEF SweepStart
<1>13. ASSUME NEW t \in Threads, SweepRelease(t) PROVE TypeInv'
  <2>1. index[t] \in 1 .. Len(groups)
    BY <1>13, <1>a, <1>d DEF SweepRelease
  <2>2. groups' \in Seq(Group)
    BY <1>13, <1>a, <2>1, SwapPopType DEF SweepRelease
  <2> QED
    BY <1>13, <1>a, <1>b, <1>e, <2>2 DEF SweepRelease, CallsOK, CallInv
<1>14. ASSUME NEW t \in Threads, SweepKeep(t) PROVE TypeInv'
  <2>1. CallsOK'
    <3>1. /\ Continue(t, "sweep", NoBlock, index[t] + 1)
          /\ index[t] + 1 \in Nat /\ index[t] + 1 > 0
      BY <1>14, <1>d DEF SweepKeep
    <3> QED
      BY <3>1, <1>a, <1>c, CallStep
  <2> QED
    BY <1>14, <1>a, <1>b, <2>1 DEF SweepKeep
<1>15. ASSUME NEW t \in Threads, SweepEnd(t) PROVE TypeInv'
  BY <1>15, <1>a, <1>b, <1>f DEF SweepEnd
<1> QED
  BY <1>0, <1>1, <1>2, <1>3, <1>4, <1>5, <1>6, <1>7, <1>8, <1>9, <1>10, <1>11,
     <1>12, <1>13, <1>14, <1>15 DEF Next, GetBlock, BackBlock, Recovery

\* Every reachable state of the pool is well typed, whoever calls recovery and
\* when: even the stray write of a stale backBlock keeps the counters in range
\* and the groups a vector of groups.
THEOREM TypeCorrect == Spec => []TypeOK
<1>1. TypeInv => TypeOK
  BY DEF TypeInv
<1> QED
  BY TypeInit, TypeStep, <1>1, PTL DEF Spec

-----------------------------------------------------------------------------
(* Used blocks and group regions of a sequence of groups *)

UsedIn(s) ==
  {a \in Address : \E i \in DOMAIN s : s[i].start = a[1] /\ s[i].flags[a[2]]}

Distinct(s) == \A i, j \in DOMAIN s : s[i].start = s[j].start => i = j

\* s with the flag of block b of group i set to v.
WithFlag(s, i, b, v) == [s EXCEPT ![i].flags[b] = v]

LEMMA UsedInGroups == Used = UsedIn(groups) /\ (DistinctStarts <=> Distinct(groups))
BY DEF Used, UsedIn, InGroup, DistinctStarts, Distinct

\* Setting the flag of a block adds that block to the used ones, clearing it
\* removes that block, and no other block is affected.
LEMMA FlagUsed ==
  ASSUME NEW s \in Seq(Group), Distinct(s), NEW i \in DOMAIN s,
         NEW b \in Indices, NEW v \in BOOLEAN
  PROVE  /\ Distinct(WithFlag(s, i, b, v))
         /\ UsedIn(WithFlag(s, i, b, v)) =
              IF v THEN UsedIn(s) \cup {<<s[i].start, b>>} ELSE UsedIn(s) \ {<<s[i].start, b>>}
<1> DEFINE u == [s EXCEPT ![i].flags[b] = v]
           a == <<s[i].start, b>>
<1>1. DOMAIN s = 1 .. Len(s) /\ DOMAIN u = DOMAIN s
  OBVIOUS
<1>2. \A j \in DOMAIN s : s[j] \in Group
  OBVIOUS
<1>3. \A j \in DOMAIN s : /\ u[j].start = s[j].start
                          /\ j # i => u[j].flags = s[j].flags
                          /\ u[i].flags = [s[i].flags EXCEPT ![b] = v]
  BY <1>2 DEF Group
<1>4. Distinct(u)
  BY <1>1, <1>3 DEF Distinct
<1>5. a \in Address
  BY <1>2 DEF Address, Group
<1>6. a \in UsedIn(u) <=> v
  <2>1. u[i].flags[b] = v /\ u[i].start = a[1] /\ a[2] = b
    BY <1>2, <1>3 DEF Group
  <2>2. \A j \in DOMAIN u : u[j].start = a[1] => j = i
    BY <1>1, <1>4, <2>1 DEF Distinct
  <2> QED
    BY <1>1, <1>5, <2>1, <2>2 DEF UsedIn
<1>7. ASSUME NEW c \in Address, c # a PROVE c \in UsedIn(u) <=> c \in UsedIn(s)
  <2>1. c[1] # s[i].start \/ c[2] # b
    BY <1>7 DEF Address
  <2>2. c[2] \in Indices
    BY DEF Address
  <2>3. ASSUME NEW j \in DOMAIN s, s[j].start = c[1]
        PROVE  u[j].flags[c[2]] = s[j].flags[c[2]]
    <3>1. CASE j # i
      BY <3>1, <1>3
    <3>2. CASE j = i
      <4>1. c[2] # b
        BY <2>1, <2>3, <3>2
      <4>2. s[i].flags \in [Indices -> BOOLEAN]
        BY <1>2 DEF Group
      <4> QED
        BY <3>2, <4>1, <4>2, <2>2, <1>3
    <3> QED
      BY <3>1, <3>2
  <2> QED
    BY <1>1, <1>3, <2>3 DEF UsedIn
<1>8. UsedIn(u) \subseteq Address /\ UsedIn(s) \subseteq Address
  BY DEF UsedIn
<1>9. UsedIn(u) = IF v THEN UsedIn(s) \cup {a} ELSE UsedIn(s) \ {a}
  <2>1. CASE v
    BY <2>1, <1>5, <1>6, <1>7, <1>8
  <2>2. CASE ~ v
    BY <2>2, <1>5, <1>6, <1>7, <1>8
  <2> QED
    BY <2>1, <2>2
<1>10. WithFlag(s, i, b, v) = u
  BY DEF WithFlag
<1> HIDE DEF u
<1> QED
  BY <1>4, <1>9, <1>10

\* A new group in a free region makes no block used.
LEMMA AppendUsed ==
  ASSUME NEW s \in Seq(Group), Distinct(s), NEW r \in Regions \ Starts(s)
  PROVE  LET u == Append(s, NewGroup(r)) IN
         /\ Distinct(u)
         /\ UsedIn(u) = UsedIn(s)
<1> DEFINE u == Append(s, NewGroup(r))
<1>1. /\ DOMAIN s = 1 .. Len(s)
      /\ DOMAIN u = 1 .. Len(s) + 1
      /\ Len(s) \in Nat
  BY NewGroupType
<1>2. /\ \A j \in DOMAIN s : u[j] = s[j]
      /\ u[Len(s) + 1] = NewGroup(r)
  BY NewGroupType
<1>3. /\ NewGroup(r).start = r
      /\ \A b \in Indices : ~ NewGroup(r).flags[b]
  BY DEF NewGroup
<1>4. \A j \in DOMAIN s : s[j].start # r
  BY DEF Starts
<1>5. DOMAIN u = DOMAIN s \cup {Len(s) + 1}
  BY <1>1
<1> HIDE DEF u
<1>6. Distinct(u)
  BY <1>2, <1>3, <1>4, <1>5 DEF Distinct
<1>7. \A a \in Address : a[2] \in Indices
  BY DEF Address
<1>8. UsedIn(u) = UsedIn(s)
  BY <1>2, <1>3, <1>5, <1>7 DEF UsedIn
<1> QED
  BY <1>6, <1>8 DEF u

\* Removing a group none of whose blocks is used makes no block unused.
LEMMA SwapPopUsed ==
  ASSUME NEW s \in Seq(Group), Distinct(s), NEW i \in DOMAIN s,
         \A b \in Indices : ~ s[i].flags[b]
  PROVE  /\ Distinct(SwapPop(s, i))
         /\ UsedIn(SwapPop(s, i)) = UsedIn(s)
<1> DEFINE u == SwapPop(s, i)
           n == Len(s)
<1>1. /\ DOMAIN s = 1 .. n /\ n \in Nat /\ n > 0
      /\ DOMAIN u = 1 .. n - 1
      /\ i \in 1 .. n
  BY SMTT(30), SwapPopType
<1>2. \A j \in DOMAIN u : u[j] = IF j = i THEN s[n] ELSE s[j]
  BY SwapPopType, <1>1
<1> HIDE DEF u, n
<1>3. Distinct(u)
  <2> SUFFICES ASSUME NEW j \in DOMAIN u, NEW k \in DOMAIN u, u[j].start = u[k].start
               PROVE  j = k
    BY DEF Distinct
  <2> DEFINE from(x) == IF x = i THEN n ELSE x
  <2>1. u[j] = s[from(j)] /\ u[k] = s[from(k)]
    BY <1>2
  <2>2. from(j) \in DOMAIN s /\ from(k) \in DOMAIN s
    BY <1>1
  <2>3. from(j) = from(k)
    BY <2>1, <2>2 DEF Distinct
  <2> QED
    BY <1>1, <2>3
<1>4. ASSUME NEW a \in Address PROVE a \in UsedIn(u) <=> a \in UsedIn(s)
  <2>1. ASSUME NEW j \in DOMAIN u, u[j].start = a[1], u[j].flags[a[2]]
        PROVE  \E k \in DOMAIN s : s[k].start = a[1] /\ s[k].flags[a[2]]
    <3>1. CASE j = i
      BY <3>1, <2>1, <1>1, <1>2
    <3>2. CASE j # i
      BY <3>2, <2>1, <1>1, <1>2
    <3> QED
      BY <3>1, <3>2
  <2>2. ASSUME NEW k \in DOMAIN s, s[k].start = a[1], s[k].flags[a[2]]
        PROVE  \E j \in DOMAIN u : u[j].start = a[1] /\ u[j].flags[a[2]]
    <3>1. k # i
      BY <2>2 DEF Address
    <3>2. CASE k = n
      <4>1. i \in DOMAIN u /\ u[i] = s[n]
        BY <3>1, <3>2, <1>1, <1>2
      <4> QED
        BY <4>1, <3>2, <2>2
    <3>3. CASE k # n
      <4>1. k \in DOMAIN u /\ u[k] = s[k]
        BY <3>1, <3>3, <1>1, <1>2
      <4> QED
        BY <4>1, <2>2
    <3> QED
      BY <3>2, <3>3
  <2> QED
    BY <2>1, <2>2 DEF UsedIn
<1>5. UsedIn(u) = UsedIn(s)
  BY <1>4 DEF UsedIn
<1> QED
  BY <1>3, <1>5 DEF u

-----------------------------------------------------------------------------
(* Ownership, one block at a time *)

Owns(t, a) == pc[t] \in OwnerSteps /\ addr[t] = a

OwnUsed   == \A a \in Address :
               a \in Used <=> a \in held \/ \E t \in Threads : Owns(t, a)
OwnHeld   == \A t \in Threads, a \in held : ~ Owns(t, a)
OwnUnique == \A t1, t2 \in Threads, a \in Address :
               Owns(t1, a) /\ Owns(t2, a) => t1 = t2

LEMMA OwnershipPointwise ==
  ASSUME TypeInv
  PROVE  Ownership <=> OwnUsed /\ OwnHeld /\ OwnUnique
<1>1. \A t \in Threads : pc[t] \in OwnerSteps => addr[t] \in Address
  BY DEF TypeInv, CallInv, OwnerSteps, BackSteps
<1>2. \A a \in Address : a \in BlocksAt(OwnerSteps) <=> \E t \in Threads : Owns(t, a)
  BY DEF BlocksAt, At, Owns
<1>3. /\ Used \subseteq Address /\ held \subseteq Address
      /\ BlocksAt(OwnerSteps) \subseteq Address
  BY <1>1 DEF Used, BlocksAt, At, TypeInv, TypeOK
<1>4. Used = held \cup BlocksAt(OwnerSteps) <=> OwnUsed
  BY <1>2, <1>3 DEF OwnUsed
<1>5. held \cap BlocksAt(OwnerSteps) = {} <=> OwnHeld
  BY <1>2, <1>3 DEF OwnHeld
<1>6. (\A t1, t2 \in At(OwnerSteps) : addr[t1] = addr[t2] => t1 = t2) <=> OwnUnique
  BY <1>1 DEF OwnUnique, Owns, At
<1> QED
  BY <1>4, <1>5, <1>6 DEF Ownership

\* What a call step does to the program counters and to the locals.
LEMMA ContinueEffect ==
  ASSUME CallsOK, NEW t \in Threads, NEW s, NEW a, NEW i, Continue(t, s, a, i)
  PROVE  /\ pc'[t] = s /\ addr'[t] = a /\ index'[t] = i
         /\ \A u \in Threads : u # t => /\ pc'[u] = pc[u]
                                        /\ addr'[u] = addr[u]
                                        /\ index'[u] = index[u]
BY DEF CallsOK, Continue

-----------------------------------------------------------------------------
(* The inductive invariant, when recovery is never called while a backBlock *)
(* is under way                                                             *)

LEMMA InvInit == Init => IInv
<1> SUFFICES ASSUME Init PROVE IInv
  OBVIOUS
<1>1. TypeInv
  BY TypeInit
<1>2. PICK r \in [1 .. InitialGroups -> Regions] :
        /\ \A i, j \in 1 .. InitialGroups : r[i] = r[j] => i = j
        /\ groups = [i \in 1 .. InitialGroups |-> NewGroup(r[i])]
  BY DEF Init
<1>3. /\ DOMAIN groups = 1 .. InitialGroups
      /\ \A i \in 1 .. InitialGroups :
           groups[i].start = r[i] /\ \A b \in Indices : ~ groups[i].flags[b]
  BY <1>2 DEF NewGroup
<1>4. DistinctStarts
  BY <1>2, <1>3 DEF DistinctStarts
<1>5. Used = {}
  BY <1>3 DEF Used, Address
<1>6. \A t \in Threads : pc[t] = "idle"
  BY DEF Init
<1>7. Ownership
  BY <1>5, <1>6 DEF Ownership, BlocksAt, At, OwnerSteps, BackSteps, Init
<1>8. MutexInv /\ GrowInv /\ SweepQuiet /\ ReturnedIndexValid
  BY <1>6, ThreadsAssumption
  DEF Init, MutexInv, GrowInv, SweepQuiet, ReturnedIndexValid, At, LockSteps,
      GrowSteps, BackSteps
<1> QED
  BY <1>1, <1>4, <1>7, <1>8 DEF IInv, TypeInv

\* How each conjunct survives a step in which the call of thread t goes on at
\* step s, about block a and group i.

\* Mutual exclusion: t takes the free lock, gives its lock back, or stays
\* inside or outside.
LEMMA MutexStep ==
  ASSUME TypeInv, MutexInv,
         NEW t \in Threads, NEW s, NEW a, NEW i, Continue(t, s, a, i),
         \/ mutex = NoThread /\ mutex' = t /\ s \in LockSteps
         \/ mutex = t /\ mutex' = NoThread /\ s \notin LockSteps
         \/ mutex' = mutex /\ (s \in LockSteps <=> pc[t] \in LockSteps)
  PROVE  MutexInv'
<1>1. pc' = [pc EXCEPT ![t] = s] /\ DOMAIN pc = Threads
  BY DEF Continue, TypeInv, TypeOK
<1>2. \A u \in Threads : pc'[u] = IF u = t THEN s ELSE pc[u]
  BY <1>1
<1> QED
  BY <1>2, ThreadsAssumption DEF MutexInv

\* Only the lock holder can be growing, and its new group is its own.
LEMMA GrowStep ==
  ASSUME TypeInv, GrowInv,
         NEW t \in Threads, NEW s, NEW a, NEW i, Continue(t, s, a, i),
         groups' = groups \/ \A u \in Threads \ {t} : pc[u] \notin GrowSteps,
         s \in GrowSteps => /\ Len(groups') > 0
                            /\ a = <<groups'[Len(groups')].start, 0>>
                            /\ Unused(Len(groups))'
  PROVE  GrowInv'
<1>1. CallsOK
  BY DEF TypeInv, TypeOK, CallsOK
<1>2. /\ pc'[t] = s /\ addr'[t] = a
      /\ \A u \in Threads \ {t} : pc'[u] = pc[u] /\ addr'[u] = addr[u]
  BY <1>1, ContinueEffect
<1> QED
  BY <1>2 DEF GrowInv, At, Unused

\* No sweep starts while a return is under way, and the lock keeps a return
\* from starting during a sweep.
LEMMA SweepStep ==
  ASSUME TypeInv, SweepQuiet,
         NEW t \in Threads, NEW s, NEW a, NEW i, Continue(t, s, a, i),
         s = "sweep" => pc[t] = "sweep" \/ At(BackSteps) = {},
         s \in BackSteps => pc[t] \in BackSteps \/ At({"sweep"}) = {}
  PROVE  SweepQuiet'
<1>1. CallsOK
  BY DEF TypeInv, TypeOK, CallsOK
<1>2. pc'[t] = s /\ \A u \in Threads \ {t} : pc'[u] = pc[u]
  BY <1>1, ContinueEffect
<1> QED
  BY <1>2 DEF SweepQuiet, At, BackSteps

\* An index found under the first lock survives whatever keeps the groups
\* where they are.
LEMMA IndexStep ==
  ASSUME TypeInv, ReturnedIndexValid,
         NEW t \in Threads, NEW s, NEW a, NEW i, Continue(t, s, a, i),
         \/ \A j \in DOMAIN groups :
              j \in DOMAIN groups' /\ groups'[j].start = groups[j].start
         \/ At(BackSteps) = {},
         s \in BackSteps => i \in DOMAIN groups' /\ groups'[i].start = a[1]
  PROVE  ReturnedIndexValid'
<1>1. CallsOK
  BY DEF TypeInv, TypeOK, CallsOK
<1>2. /\ pc'[t] = s /\ addr'[t] = a /\ index'[t] = i
      /\ \A u \in Threads \ {t} :
           pc'[u] = pc[u] /\ addr'[u] = addr[u] /\ index'[u] = index[u]
  BY <1>1, ContinueEffect
<1> QED
  BY <1>2 DEF ReturnedIndexValid, InGroup, At

\* A step that moves no block keeps every owner.
LEMMA NoTransfer ==
  ASSUME TypeInv, TypeInv', Ownership,
         NEW t \in Threads, NEW s, NEW a, NEW i, Continue(t, s, a, i),
         Used' = Used, held' = held,
         s \in OwnerSteps <=> pc[t] \in OwnerSteps,
         s \in OwnerSteps => a = addr[t]
  PROVE  Ownership'
<1>1. CallsOK
  BY DEF TypeInv, TypeOK, CallsOK
<1>2. /\ pc'[t] = s /\ addr'[t] = a
      /\ \A u \in Threads \ {t} : pc'[u] = pc[u] /\ addr'[u] = addr[u]
  BY <1>1, ContinueEffect
<1>3. \A u \in Threads, b \in Address : Owns(u, b)' <=> Owns(u, b)
  BY <1>2 DEF Owns
<1>4. held \subseteq Address
  BY DEF TypeInv, TypeOK
<1>5. OwnUsed /\ OwnHeld /\ OwnUnique
  BY OwnershipPointwise
<1>6. OwnUsed' /\ OwnHeld' /\ OwnUnique'
  BY <1>3, <1>4, <1>5 DEF OwnUsed, OwnHeld, OwnUnique
<1>7. Ownership' <=> (OwnUsed /\ OwnHeld /\ OwnUnique)'
  BY OwnershipPointwise, PTL
<1> QED
  BY <1>6, <1>7

\* A step that moves the one block x between thread t, the clients and the
\* free blocks keeps every owner of every other block.
LEMMA Transfer ==
  ASSUME TypeInv, TypeInv', Ownership,
         NEW t \in Threads, NEW s, NEW a, NEW i, Continue(t, s, a, i),
         NEW x \in Address,
         \A b \in Address \ {x} : /\ b \in Used' <=> b \in Used
                                  /\ b \in held' <=> b \in held,
         \A u \in Threads \ {t} : ~ Owns(u, x),
         pc[t] \in OwnerSteps => addr[t] = x,
         s \in OwnerSteps => a = x /\ x \notin held',
         x \in Used' <=> x \in held' \/ s \in OwnerSteps
  PROVE  Ownership'
<1>1. CallsOK
  BY DEF TypeInv, TypeOK, CallsOK
<1>2. /\ pc'[t] = s /\ addr'[t] = a
      /\ \A u \in Threads \ {t} : pc'[u] = pc[u] /\ addr'[u] = addr[u]
  BY <1>1, ContinueEffect
<1>3. /\ \A b \in Address : Owns(t, b)' <=> b = x /\ s \in OwnerSteps
      /\ \A b \in Address \ {x} : ~ Owns(t, b)
      /\ \A u \in Threads \ {t}, b \in Address : Owns(u, b)' <=> Owns(u, b)
  BY <1>2 DEF Owns
<1>4. held' \subseteq Address
  BY DEF TypeInv, TypeOK
<1>5. OwnUsed /\ OwnHeld /\ OwnUnique
  BY OwnershipPointwise
<1>6. OwnUsed'
  BY <1>3, <1>5 DEF OwnUsed
<1>7. OwnHeld'
  BY <1>3, <1>4, <1>5 DEF OwnHeld
<1>8. OwnUnique'
  BY <1>3, <1>5 DEF OwnUnique
<1>9. Ownership' <=> (OwnUsed /\ OwnHeld /\ OwnUnique)'
  BY OwnershipPointwise, PTL
<1> QED
  BY <1>6, <1>7, <1>8, <1>9

\* The two values a flag is given.
LEMMA SetUsed ==
  ASSUME NEW s \in Seq(Group), Distinct(s), NEW i \in DOMAIN s, NEW b \in Indices
  PROVE  /\ Distinct([s EXCEPT ![i].flags[b] = TRUE])
         /\ UsedIn([s EXCEPT ![i].flags[b] = TRUE]) = UsedIn(s) \cup {<<s[i].start, b>>}
<1>1. /\ Distinct(WithFlag(s, i, b, TRUE))
      /\ UsedIn(WithFlag(s, i, b, TRUE)) = UsedIn(s) \cup {<<s[i].start, b>>}
  BY FlagUsed
<1> QED
  BY <1>1 DEF WithFlag

LEMMA ResetUsed ==
  ASSUME NEW s \in Seq(Group), Distinct(s), NEW i \in DOMAIN s, NEW b \in Indices
  PROVE  /\ Distinct([s EXCEPT ![i].flags[b] = FALSE])
         /\ UsedIn([s EXCEPT ![i].flags[b] = FALSE]) = UsedIn(s) \ {<<s[i].start, b>>}
<1>1. /\ Distinct(WithFlag(s, i, b, FALSE))
      /\ UsedIn(WithFlag(s, i, b, FALSE)) = UsedIn(s) \ {<<s[i].start, b>>}
  BY FlagUsed
<1> QED
  BY <1>1 DEF WithFlag

\* A block whose flag is not set is not used.
LEMMA ClearUsed ==
  ASSUME NEW s \in Seq(Group), Distinct(s), NEW i \in DOMAIN s,
         NEW b \in Indices, ~ s[i].flags[b]
  PROVE  <<s[i].start, b>> \in Address /\ <<s[i].start, b>> \notin UsedIn(s)
<1>1. s[i] \in Group
  OBVIOUS
<1>2. <<s[i].start, b>> \in Address
  BY <1>1 DEF Group, Address
<1> QED
  BY <1>2 DEF UsedIn, Distinct

\* Every step preserves the invariant.
LEMMA InvStep ==
  ASSUME Quiescent = TRUE
  PROVE  IInv /\ [Next]_vars => IInv'
<1> SUFFICES ASSUME IInv, [Next]_vars PROVE IInv'
  OBVIOUS
<1>a. TypeInv /\ TypeInv'
  BY TypeStep DEF IInv, TypeInv
<1>b. /\ MutexInv /\ DistinctStarts /\ GrowInv /\ SweepQuiet
      /\ ReturnedIndexValid /\ Ownership
  BY DEF IInv
<1>c. /\ MutexInv' /\ DistinctStarts' /\ GrowInv' /\ SweepQuiet'
      /\ ReturnedIndexValid' /\ Ownership'
      => IInv'
  BY <1>a DEF IInv, TypeInv
<1>d. /\ groups \in Seq(Group)
      /\ held \subseteq Address
      /\ \A t \in Threads : pc[t] \notin {"idle", "sweep"} => addr[t] \in Address
  BY <1>a DEF TypeInv, TypeOK, CallInv
<1>e. Distinct(groups) /\ Used = UsedIn(groups)
  BY <1>b, UsedInGroups
<1>f. Used' = UsedIn(groups') /\ (DistinctStarts' <=> Distinct(groups'))
  BY DEF Used, UsedIn, InGroup, DistinctStarts, Distinct
<1>g. /\ \A t, u \in Threads : pc[t] \in LockSteps /\ pc[u] \in LockSteps => t = u
      /\ mutex = NoThread => \A u \in Threads : pc[u] \notin LockSteps
  BY <1>b, ThreadsAssumption DEF MutexInv
<1>h. OwnUsed /\ OwnHeld /\ OwnUnique
  BY <1>a, <1>b, OwnershipPointwise
<1>i. \A t \in Threads, x \in held : ~ Owns(t, x)
  BY <1>h DEF OwnHeld
<1>j. \A t \in Threads, x \in Address \ Used : ~ Owns(t, x) /\ x \notin held
  BY <1>h DEF OwnUsed
<1>k. GrowSteps \subseteq LockSteps /\ "sweep" \in LockSteps
  BY DEF LockSteps
<1>l. ASSUME NEW i \in DOMAIN groups, NEW b \in Indices,
             groups' = [groups EXCEPT ![i].flags[b] = TRUE]
      PROVE  /\ Distinct(groups')
             /\ Used' = Used \cup {<<groups[i].start, b>>}
             /\ \A j \in DOMAIN groups :
                  j \in DOMAIN groups' /\ groups'[j].start = groups[j].start
  <2>1. /\ Distinct(groups')
        /\ UsedIn(groups') = UsedIn(groups) \cup {<<groups[i].start, b>>}
    BY <1>d, <1>e, <1>l, SetUsed
  <2>2. \A j \in DOMAIN groups : groups'[j].start = groups[j].start
    BY <1>d, <1>l, FlagType
  <2>3. DOMAIN groups' = DOMAIN groups
    BY <1>l
  <2> QED
    BY <2>1, <2>2, <2>3, <1>e, <1>f
<1>m. ASSUME NEW i \in DOMAIN groups, NEW b \in Indices,
             groups' = [groups EXCEPT ![i].flags[b] = FALSE]
      PROVE  /\ Distinct(groups')
             /\ Used' = Used \ {<<groups[i].start, b>>}
             /\ \A j \in DOMAIN groups :
                  j \in DOMAIN groups' /\ groups'[j].start = groups[j].start
  <2>1. /\ Distinct(groups')
        /\ UsedIn(groups') = UsedIn(groups) \ {<<groups[i].start, b>>}
    BY <1>d, <1>e, <1>m, ResetUsed
  <2>2. \A j \in DOMAIN groups : groups'[j].start = groups[j].start
    BY <1>d, <1>m, FlagType
  <2>3. DOMAIN groups' = DOMAIN groups
    BY <1>m
  <2> QED
    BY <2>1, <2>2, <2>3, <1>e, <1>f
<1>0. CASE UNCHANGED vars
  <2>1. UNCHANGED <<groups, mutex, pc, addr, index, held>>
    BY <1>0 DEF vars
  <2>2. Used' = Used
    BY <2>1, <1>e, <1>f
  <2>3. MutexInv' /\ GrowInv' /\ SweepQuiet' /\ ReturnedIndexValid'
    BY <2>1, <1>b
    DEF MutexInv, GrowInv, SweepQuiet, ReturnedIndexValid, At, Unused, InGroup
  <2>4. DistinctStarts' /\ Ownership'
    BY <2>1, <2>2, <1>b DEF DistinctStarts, Ownership, BlocksAt, At
  <2> QED
    BY <2>3, <2>4, <1>c
<1>1. ASSUME NEW t \in Threads, TakeFree(t) PROVE IInv'
  <2>1. PICK i \in DOMAIN groups, b \in Indices :
          /\ ~ groups[i].flags[b]
          /\ groups' = [groups EXCEPT ![i].flags[b] = TRUE]
          /\ Continue(t, "count", <<groups[i].start, b>>, 0)
    BY <1>1 DEF TakeFree, FirstFree
  <2> DEFINE x == <<groups[i].start, b>>
  <2>2. pc[t] = "idle" /\ mutex = NoThread /\ mutex' = t /\ held' = held
    BY <1>1 DEF TakeFree, Enter
  <2>3. Distinct(groups') /\ Used' = Used \cup {x}
    BY <2>1, <1>l
  <2>4. x \in Address \ Used
    BY <2>1, <1>d, <1>e, ClearUsed
  <2>6. MutexInv'
    BY <2>1, <2>2, <1>a, <1>b, MutexStep DEF LockSteps
  <2>7. GrowInv'
    BY <2>1, <2>2, <1>a, <1>b, <1>g, <1>k, GrowStep DEF GrowSteps
  <2>8. SweepQuiet'
    BY <2>1, <1>a, <1>b, SweepStep DEF BackSteps
  <2>9. ReturnedIndexValid'
    <3>1. \A j \in DOMAIN groups :
             j \in DOMAIN groups' /\ groups'[j].start = groups[j].start
      BY <2>1, <1>l
    <3> QED
      BY <2>1, <3>1, <1>a, <1>b, IndexStep DEF BackSteps
  <2>10. Ownership'
    <3> HIDE DEF x
    <3>1. Continue(t, "count", x, 0)
      BY <2>1 DEF x
    <3> QED
      BY <2>2, <2>3, <2>4, <3>1, <1>a, <1>b, <1>j, Transfer DEF OwnerSteps, BackSteps
  <2> QED
    BY <2>3, <2>6, <2>7, <2>8, <2>9, <2>10, <1>c, <1>f
<1>2. ASSUME NEW t \in Threads, CountTaken(t) PROVE IInv'
  <2>1. /\ pc[t] = "count" /\ groups' = groups
        /\ mutex' = NoThread /\ held' = held \cup {addr[t]}
        /\ Continue(t, "idle", NoBlock, 0)
    BY <1>2 DEF CountTaken, Leave
  <2>2. mutex = t
    BY <2>1, <1>b DEF MutexInv, LockSteps
  <2>3. Used' = Used /\ addr[t] \in Address /\ Owns(t, addr[t])
    BY <2>1, <1>d, <1>e, <1>f DEF Owns, OwnerSteps
  <2>4. addr[t] \in Used /\ \A u \in Threads \ {t} : ~ Owns(u, addr[t])
    BY <2>3, <1>h DEF OwnUsed, OwnUnique
  <2>5. MutexInv'
    BY <2>1, <2>2, <1>a, <1>b, MutexStep DEF LockSteps, GrowSteps
  <2>6. GrowInv'
    BY <2>1, <1>a, <1>b, GrowStep DEF GrowSteps
  <2>7. SweepQuiet'
    BY <2>1, <1>a, <1>b, SweepStep DEF BackSteps
  <2>8. ReturnedIndexValid'
    BY <2>1, <1>a, <1>b, IndexStep DEF BackSteps
  <2>9. Ownership'
    BY <2>1, <2>3, <2>4, <1>a, <1>b, Transfer DEF OwnerSteps, BackSteps
  <2> QED
    BY <2>1, <2>5, <2>6, <2>7, <2>8, <2>9, <1>c, <1>e, <1>f
<1>3. ASSUME NEW t \in Threads, Grow(t) PROVE IInv'
  <2>1. PICK r \in Regions \ Starts(groups) :
          /\ groups' = Append(groups, NewGroup(r))
          /\ Continue(t, "growUse", <<r, 0>>, 0)
    BY <1>3 DEF Grow
  <2>2. pc[t] = "idle" /\ mutex = NoThread /\ mutex' = t /\ held' = held
    BY <1>3 DEF Grow, Enter
  <2>3. Distinct(groups') /\ Used' = Used
    BY <2>1, <1>d, <1>e, <1>f, AppendUsed
  <2>4. /\ Len(groups') = Len(groups) + 1 /\ Len(groups) \in Nat
        /\ DOMAIN groups = 1 .. Len(groups) /\ DOMAIN groups' = 1 .. Len(groups) + 1
        /\ groups'[Len(groups')] = NewGroup(r)
        /\ \A j \in DOMAIN groups : groups'[j] = groups[j]
    BY <2>1, <1>d, NewGroupType
  <2>5. MutexInv'
    BY <2>1, <2>2, <1>a, <1>b, MutexStep DEF LockSteps, GrowSteps
  <2>6. GrowInv'
    <3>1. Unused(Len(groups))' /\ <<r, 0>> = <<groups'[Len(groups')].start, 0>>
      BY <2>4 DEF Unused, NewGroup
    <3>2. Len(groups') > 0
      BY <2>4
    <3> QED
      BY <2>1, <2>2, <3>1, <3>2, <1>a, <1>b, <1>g, <1>k, GrowStep
  <2>7. SweepQuiet'
    BY <2>1, <1>a, <1>b, SweepStep DEF BackSteps
  <2>8. ReturnedIndexValid'
    BY <2>1, <2>4, <1>a, <1>b, IndexStep DEF BackSteps
  <2>9. Ownership'
    BY <2>1, <2>2, <2>3, <1>a, <1>b, NoTransfer DEF OwnerSteps, BackSteps
  <2> QED
    BY <2>3, <2>5, <2>6, <2>7, <2>8, <2>9, <1>c, <1>f
<1>4. ASSUME NEW t \in Threads, GrowUse(t) \/ GrowAll(t) PROVE IInv'
  <2>1. PICK s \in {"growAll", "growFlag"} : Continue(t, s, addr[t], index[t])
    BY <1>4 DEF GrowUse, GrowAll, Goto
  <2>2. /\ pc[t] \in {"growUse", "growAll"}
        /\ groups' = groups /\ mutex' = mutex /\ held' = held /\ Used' = Used
    BY <1>4, <1>e, <1>f DEF GrowUse, GrowAll
  <2>3. MutexInv'
    BY <2>1, <2>2, <1>a, <1>b, MutexStep DEF LockSteps, GrowSteps
  <2>4. GrowInv'
    <3>1. /\ Len(groups') > 0
          /\ addr[t] = <<groups'[Len(groups')].start, 0>>
          /\ Unused(Len(groups))'
      BY <2>2, <1>b DEF GrowInv, At, GrowSteps, Unused
    <3> QED
      BY <2>1, <2>2, <3>1, <1>a, <1>b, GrowStep
  <2>5. SweepQuiet'
    BY <2>1, <1>a, <1>b, SweepStep DEF BackSteps
  <2>6. ReturnedIndexValid'
    BY <2>1, <2>2, <1>a, <1>b, IndexStep DEF BackSteps
  <2>7. Ownership'
    BY <2>1, <2>2, <1>a, <1>b, NoTransfer DEF OwnerSteps, BackSteps
  <2> QED
    BY <2>2, <2>3, <2>4, <2>5, <2>6, <2>7, <1>c, <1>e, <1>f
<1>5. ASSUME NEW t \in Threads, GrowFlag(t) PROVE IInv'
  <2>1. /\ pc[t] = "growFlag"
        /\ groups' = [groups EXCEPT ![Len(groups)].flags[0] = TRUE]
        /\ mutex' = NoThread /\ held' = held \cup {addr[t]}
        /\ Continue(t, "idle", NoBlock, 0)
    BY <1>5 DEF GrowFlag, Leave
  <2>2. mutex = t /\ pc[t] \in LockSteps
    BY <2>1, <1>b DEF MutexInv, LockSteps, GrowSteps
  <2>3. /\ Len(groups) \in DOMAIN groups
        /\ addr[t] = <<groups[Len(groups)].start, 0>>
        /\ ~ groups[Len(groups)].flags[0] /\ 0 \in Indices
    BY <2>1, <1>b, <1>d, SizesAssumption DEF GrowInv, At, GrowSteps, Unused, Indices
  <2>4. addr[t] \in Address \ Used
    BY <2>3, <1>d, <1>e, ClearUsed
  <2>5. Distinct(groups') /\ Used' = Used \cup {addr[t]}
    BY <2>1, <2>3, <1>l
  <2>6. MutexInv'
    BY <2>1, <2>2, <1>a, <1>b, MutexStep DEF LockSteps, GrowSteps
  <2>7. GrowInv'
    BY <2>1, <2>2, <1>a, <1>b, <1>g, <1>k, GrowStep DEF GrowSteps
  <2>8. SweepQuiet'
    BY <2>1, <1>a, <1>b, SweepStep DEF BackSteps
  <2>9. ReturnedIndexValid'
    <3>1. \A j \in DOMAIN groups :
             j \in DOMAIN groups' /\ groups'[j].start = groups[j].start
      BY <2>1, <2>3, <1>l
    <3> QED
      BY <2>1, <3>1, <1>a, <1>b, IndexStep DEF BackSteps
  <2>10. Ownership'
    BY <2>1, <2>4, <2>5, <1>a, <1>b, <1>j, Transfer
    DEF OwnerSteps, BackSteps
  <2> QED
    BY <2>5, <2>6, <2>7, <2>8, <2>9, <2>10, <1>c, <1>f
<1>6. ASSUME NEW t \in Threads, NEW a \in held, BackFind(t, a) PROVE IInv'
  <2>1. PICK i \in DOMAIN groups :
          groups[i].start = a[1] /\ Continue(t, "backUse", a, i)
    BY <1>6 DEF BackFind, InGroup
  <2>2. /\ pc[t] = "idle" /\ mutex = NoThread /\ mutex' = mutex
        /\ groups' = groups /\ held' = held \ {a} /\ Used' = Used
    BY <1>6, <1>e, <1>f DEF BackFind, Enter
  <2>3. a \in Used /\ a \in Address
    BY <1>d, <1>h DEF OwnUsed
  <2>4. MutexInv'
    BY <2>1, <2>2, <1>a, <1>b, MutexStep DEF LockSteps, GrowSteps
  <2>5. GrowInv'
    BY <2>1, <2>2, <1>a, <1>b, GrowStep DEF GrowSteps
  <2>6. SweepQuiet'
    <3>1. At({"sweep"}) = {}
      BY <2>2, <1>g, <1>k DEF At
    <3> QED
      BY <2>1, <3>1, <1>a, <1>b, SweepStep
  <2>7. ReturnedIndexValid'
    BY <2>1, <2>2, <1>a, <1>b, IndexStep
  <2>8. Ownership'
    BY <2>1, <2>2, <2>3, <1>a, <1>b, <1>i, Transfer DEF OwnerSteps, BackSteps
  <2> QED
    BY <2>2, <2>4, <2>5, <2>6, <2>7, <2>8, <1>c, <1>e, <1>f
<1>7. ASSUME NEW t \in Threads, NEW a \in held PROVE ~ BackUnknown(t, a)
  <2>1. a \in Used
    BY <1>d, <1>h DEF OwnUsed
  <2> QED
    BY <2>1 DEF BackUnknown, Used
<1>8. ASSUME NEW t \in Threads, BackUse(t) PROVE IInv'
  <2>1. /\ pc[t] = "backUse" /\ groups' = groups /\ mutex' = mutex
        /\ held' = held /\ Used' = Used
        /\ Continue(t, "backClear", addr[t], index[t])
    BY <1>8, <1>e, <1>f DEF BackUse, Goto
  <2>2. MutexInv'
    BY <2>1, <1>a, <1>b, MutexStep DEF LockSteps, GrowSteps
  <2>3. GrowInv'
    BY <2>1, <1>a, <1>b, GrowStep DEF GrowSteps
  <2>4. SweepQuiet'
    BY <2>1, <1>a, <1>b, SweepStep DEF BackSteps
  <2>5. ReturnedIndexValid'
    <3>1. index[t] \in DOMAIN groups /\ groups[index[t]].start = addr[t][1]
      BY <2>1, <1>b DEF ReturnedIndexValid, At, BackSteps, InGroup
    <3> QED
      BY <2>1, <3>1, <1>a, <1>b, IndexStep
  <2>6. Ownership'
    BY <2>1, <1>a, <1>b, NoTransfer DEF OwnerSteps, BackSteps
  <2> QED
    BY <2>1, <2>2, <2>3, <2>4, <2>5, <2>6, <1>c, <1>e, <1>f
<1>9. ASSUME NEW t \in Threads, BackClear(t) PROVE IInv'
  <2> DEFINE i == index[t]
             b == addr[t][2]
  <2>1. /\ pc[t] = "backClear" /\ mutex = NoThread /\ mutex' = mutex
        /\ groups' = [groups EXCEPT ![i].flags[b] = FALSE]
        /\ held' = held /\ Continue(t, "idle", NoBlock, 0)
    BY <1>9 DEF BackClear, Leave
  <2>2. i \in DOMAIN groups /\ addr[t] = <<groups[i].start, b>> /\ b \in Indices
    BY <2>1, <1>9, <1>d DEF BackClear, InGroup, Address
  <2> HIDE DEF i, b
  <2>3. Distinct(groups') /\ Used' = Used \ {addr[t]}
    BY <2>1, <2>2, <1>m
  <2>4. /\ addr[t] \in Address /\ addr[t] \notin held
        /\ \A u \in Threads \ {t} : ~ Owns(u, addr[t])
    BY <2>1, <1>d, <1>h DEF OwnHeld, OwnUnique, Owns, OwnerSteps, BackSteps
  <2>5. MutexInv'
    BY <2>1, <1>a, <1>b, MutexStep DEF LockSteps, GrowSteps
  <2>6. GrowInv'
    BY <2>1, <1>a, <1>b, <1>g, <1>k, GrowStep DEF GrowSteps
  <2>7. SweepQuiet'
    BY <2>1, <1>a, <1>b, SweepStep DEF BackSteps
  <2>8. ReturnedIndexValid'
    <3>1. \A j \in DOMAIN groups :
             j \in DOMAIN groups' /\ groups'[j].start = groups[j].start
      BY <2>1, <2>2, <1>m
    <3> QED
      BY <2>1, <3>1, <1>a, <1>b, IndexStep DEF BackSteps
  <2>9. Ownership'
    BY <2>1, <2>3, <2>4, <1>a, <1>b, Transfer DEF OwnerSteps, BackSteps
  <2> QED
    BY <2>3, <2>5, <2>6, <2>7, <2>8, <2>9, <1>c, <1>f
<1>10. ASSUME NEW t \in Threads PROVE ~ BackStray(t)
  BY <1>b DEF BackStray, ReturnedIndexValid, At, BackSteps
<1>11. ASSUME NEW t \in Threads, SweepStart(t) PROVE IInv'
  <2>1. /\ pc[t] = "idle" /\ mutex = NoThread /\ mutex' = t
        /\ groups' = groups /\ held' = held /\ Used' = Used
        /\ Continue(t, "sweep", NoBlock, 1)
        /\ At(BackSteps) = {}
    BY <1>11, <1>e, <1>f DEF SweepStart, Enter
  <2>2. MutexInv'
    BY <2>1, <1>a, <1>b, MutexStep DEF LockSteps, GrowSteps
  <2>3. GrowInv'
    BY <2>1, <1>a, <1>b, GrowStep DEF GrowSteps
  <2>4. SweepQuiet'
    BY <2>1, <1>a, <1>b, SweepStep DEF BackSteps
  <2>5. ReturnedIndexValid'
    BY <2>1, <1>a, <1>b, IndexStep DEF BackSteps
  <2>6. Ownership'
    BY <2>1, <1>a, <1>b, NoTransfer DEF OwnerSteps, BackSteps
  <2> QED
    BY <2>1, <2>2, <2>3, <2>4, <2>5, <2>6, <1>c, <1>e, <1>f
<1>12. ASSUME NEW t \in Threads, SweepRelease(t) PROVE IInv'
  <2>1. /\ pc[t] = "sweep" /\ groups' = SwapPop(groups, index[t])
        /\ UNCHANGED <<mutex, held, pc, addr, index>>
        /\ Unused(index[t])
    BY <1>12 DEF SweepRelease
  <2>2. index[t] \in DOMAIN groups
    BY <1>12, <1>a DEF SweepRelease, TypeInv, TypeOK, CallInv
  <2>3. Distinct(groups') /\ Used' = Used
    BY <2>1, <2>2, <1>d, <1>e, <1>f, SwapPopUsed DEF Unused
  <2>4. \A u \in Threads : pc[u] \notin GrowSteps
    BY <2>1, <1>g, <1>k DEF GrowSteps
  <2>5. At(BackSteps) = {}
    BY <2>1, <1>b DEF SweepQuiet, At
  <2>6. MutexInv' /\ GrowInv' /\ SweepQuiet' /\ ReturnedIndexValid'
    BY <2>1, <2>4, <2>5, <1>b
    DEF MutexInv, GrowInv, SweepQuiet, ReturnedIndexValid, At
  <2>7. Ownership'
    BY <2>1, <2>3, <1>b DEF Ownership, BlocksAt, At
  <2> QED
    BY <2>3, <2>6, <2>7, <1>c, <1>f
<1>13. ASSUME NEW t \in Threads, SweepKeep(t) \/ SweepEnd(t) PROVE IInv'
  <2>1. PICK s \in {"sweep", "idle"}, i \in Nat :
          /\ Continue(t, s, NoBlock, i)
          /\ s = "sweep" => mutex' = mutex
          /\ s = "idle"  => mutex' = NoThread
    <3>1. index[t] + 1 \in Nat /\ 0 \in Nat
      BY <1>a DEF TypeInv, TypeOK
    <3> QED
      BY <3>1, <1>13 DEF SweepKeep, SweepEnd, Leave
  <2>2. /\ pc[t] = "sweep" /\ mutex = t
        /\ groups' = groups /\ held' = held /\ Used' = Used
    BY <1>13, <1>b, <1>e, <1>f DEF SweepKeep, SweepEnd, MutexInv, LockSteps
  <2>3. MutexInv'
    BY <2>1, <2>2, <1>a, <1>b, MutexStep DEF LockSteps, GrowSteps
  <2>4. GrowInv'
    BY <2>1, <2>2, <1>a, <1>b, GrowStep DEF GrowSteps
  <2>5. SweepQuiet'
    BY <2>1, <2>2, <1>a, <1>b, SweepStep DEF BackSteps
  <2>6. ReturnedIndexValid'
    BY <2>1, <2>2, <1>a, <1>b, IndexStep DEF BackSteps
  <2>7. Ownership'
    BY <2>1, <2>2, <1>a, <1>b, NoTransfer DEF OwnerSteps, BackSteps
  <2> QED
    BY <2>2, <2>3, <2>4, <2>5, <2>6, <2>7, <1>c, <1>e, <1>f
<1> QED
  BY <1>0, <1>1, <1>2, <1>3, <1>4, <1>5, <1>6, <1>7, <1>8, <1>9, <1>10, <1>11,
     <1>12, <1>13 DEF Next, GetBlock, BackBlock, Recovery

\* Whenever recovery waits for the returns under way, every reachable state
\* satisfies the inductive invariant ...
THEOREM Invariance ==
  ASSUME Quiescent = TRUE
  PROVE  Spec => []IInv
BY InvInit, InvStep, PTL DEF Spec

\* ... in particular no two owners share a block, recovery never frees memory
\* somebody owns, and no block is lost.
THEOREM OwnershipCorrect ==
  ASSUME Quiescent = TRUE
  PROVE  Spec => []Ownership
<1>1. IInv => Ownership
  BY DEF IInv
<1> QED
  BY InvInit, InvStep, <1>1, PTL DEF Spec

\* Between its two critical sections, no step changes the block and the index a
\* backBlock carries.
LEMMA CarriedKept ==
  ASSUME TypeInv, [Next]_vars, NEW t \in Threads, pc[t] \in BackSteps, pc'[t] \in BackSteps
  PROVE  addr'[t] = addr[t] /\ index'[t] = index[t]
<1>a. CallsOK
  BY DEF TypeInv, TypeOK, CallsOK
<1>1. ASSUME NEW u \in Threads, NEW s, NEW a, NEW i, Continue(u, s, a, i),
             u = t => a = addr[t] /\ i = index[t]
      PROVE  addr'[t] = addr[t] /\ index'[t] = index[t]
  BY <1>1, <1>a, ContinueEffect
<1>2. ASSUME UNCHANGED <<pc, addr, index>>
      PROVE  addr'[t] = addr[t] /\ index'[t] = index[t]
  BY <1>2
<1>3. ASSUME NEW u \in Threads, NEW a, NEW i, Continue(u, "idle", a, i) PROVE u # t
  BY <1>3, <1>a, ContinueEffect DEF BackSteps
<1>4. pc[t] # "idle" /\ pc[t] \notin LockSteps
  BY DEF BackSteps, LockSteps, GrowSteps
<1>5. ASSUME NEW u \in Threads, GetBlock(u)
      PROVE  addr'[t] = addr[t] /\ index'[t] = index[t]
  <2>1. u # t
    BY <1>4, <1>5
    DEF GetBlock, TakeFree, CountTaken, Grow, GrowUse, GrowAll, GrowFlag, Enter, LockSteps, GrowSteps
  <2>2. \E s, a, i : Continue(u, s, a, i)
    BY <1>5 DEF GetBlock, TakeFree, CountTaken, Grow, GrowUse, GrowAll, GrowFlag, Goto, Leave
  <2> QED
    BY <2>1, <2>2, <1>1
<1>6. ASSUME NEW u \in Threads, BackBlock(u)
      PROVE  addr'[t] = addr[t] /\ index'[t] = index[t]
  <2>1. CASE \E a \in held : BackFind(u, a)
    <3>1. pc[u] = "idle" /\ \E a, i : Continue(u, "backUse", a, i)
      BY <2>1 DEF BackFind, Enter
    <3> QED
      BY <3>1, <1>1, <1>4
  <2>2. CASE \E a \in held : BackUnknown(u, a)
    BY <2>2, <1>2 DEF BackUnknown
  <2>3. CASE BackUse(u)
    BY <2>3, <1>1 DEF BackUse, Goto
  <2>4. CASE BackClear(u) \/ BackStray(u)
    <3>1. Continue(u, "idle", NoBlock, 0)
      BY <2>4 DEF BackClear, BackStray, Leave
    <3> QED
      BY <3>1, <1>1, <1>3
  <2> QED
    BY <1>6, <2>1, <2>2, <2>3, <2>4 DEF BackBlock
<1>7. ASSUME NEW u \in Threads, Recovery(u)
      PROVE  addr'[t] = addr[t] /\ index'[t] = index[t]
  <2>1. u # t
    BY <1>4, <1>7
    DEF Recovery, SweepStart, SweepRelease, SweepKeep, SweepEnd, Enter, LockSteps
  <2>2. (\E s, a, i : Continue(u, s, a, i)) \/ UNCHANGED <<pc, addr, index>>
    BY <1>7 DEF Recovery, SweepStart, SweepRelease, SweepKeep, SweepEnd, Leave
  <2> QED
    BY <2>1, <2>2, <1>1, <1>2
<1> QED
  BY <1>2, <1>5, <1>6, <1>7 DEF Next, vars

\* Every step but the one that frees a group leaves all the groups where they are.
LEMMA GroupsStay ==
  ASSUME TypeInv, [Next]_vars, \A u \in Threads : ~ SweepRelease(u)
  PROVE  \A j \in DOMAIN groups : j \in DOMAIN groups' /\ groups'[j].start = groups[j].start
<1> DEFINE Stay == \A j \in DOMAIN groups :
                     j \in DOMAIN groups' /\ groups'[j].start = groups[j].start
<1>a. groups \in Seq(Group)
  BY DEF TypeInv, TypeOK
<1>1. ASSUME NEW i, NEW b, NEW v \in BOOLEAN, groups' = [groups EXCEPT ![i].flags[b] = v]
      PROVE  Stay
  BY <1>1, <1>a, FlagType
<1>2. ASSUME NEW r, groups' = Append(groups, NewGroup(r)) PROVE Stay
  BY <1>2, <1>a
<1>3. groups' = groups => Stay
  OBVIOUS
<1>4. ASSUME NEW u \in Threads, GetBlock(u) PROVE Stay
  <2>1. CASE TakeFree(u)
    BY <2>1, <1>1 DEF TakeFree
  <2>2. CASE Grow(u)
    BY <2>2, <1>2 DEF Grow
  <2>3. CASE GrowFlag(u)
    BY <2>3, <1>1 DEF GrowFlag
  <2>4. CASE CountTaken(u) \/ GrowUse(u) \/ GrowAll(u)
    BY <2>4, <1>3 DEF CountTaken, GrowUse, GrowAll
  <2> QED
    BY <1>4, <2>1, <2>2, <2>3, <2>4 DEF GetBlock
<1>5. ASSUME NEW u \in Threads, BackBlock(u) PROVE Stay
  <2>1. CASE BackClear(u)
    BY <2>1, <1>1 DEF BackClear
  <2>2. CASE BackStray(u)
    BY <2>2, <1>1, <1>3 DEF BackStray
  <2>3. CASE \/ BackUse(u)
             \/ \E a \in held : BackFind(u, a) \/ BackUnknown(u, a)
    BY <2>3, <1>3 DEF BackUse, BackFind, BackUnknown
  <2> QED
    BY <1>5, <2>1, <2>2, <2>3 DEF BackBlock
<1>6. ASSUME NEW u \in Threads, Recovery(u) PROVE Stay
  BY <1>6, <1>3 DEF Recovery, SweepStart, SweepKeep, SweepEnd
<1> QED
  BY <1>3, <1>4, <1>5, <1>6 DEF Next, vars

\* Whenever recovery is called, the group index a backBlock carries from its first
\* critical section into its second goes stale only when recovery frees that very
\* group, or moves it from the end of the vector; growth, and the release of any
\* other group, leave it right.
THEOREM IndexKeptCorrect == Spec => IndexKept
<1> DEFINE Kept ==
      \A t \in Threads :
        /\ {pc[t], pc'[t]} \subseteq BackSteps
        /\ InGroup(index[t], addr[t])
        /\ ~ InGroup(index[t], addr[t])'
        => \E u \in Threads : SweepRelease(u) /\ index[t] \in {index[u], Len(groups)}
<1>1. ASSUME TypeInv, [Next]_vars PROVE Kept
  <2> SUFFICES ASSUME NEW t \in Threads, pc[t] \in BackSteps, pc'[t] \in BackSteps,
                      InGroup(index[t], addr[t]), ~ InGroup(index[t], addr[t])'
               PROVE  \E u \in Threads :
                        SweepRelease(u) /\ index[t] \in {index[u], Len(groups)}
    OBVIOUS
  <2>1. addr'[t] = addr[t] /\ index'[t] = index[t]
    BY <1>1, CarriedKept
  <2>2. index[t] \in DOMAIN groups /\ groups[index[t]].start = addr[t][1]
    BY DEF InGroup
  <2>3. ~ (index[t] \in DOMAIN groups' /\ groups'[index[t]].start = groups[index[t]].start)
    BY <2>1, <2>2 DEF InGroup
  <2>4. PICK u \in Threads : SweepRelease(u)
    BY <1>1, <2>2, <2>3, GroupsStay
  <2>5. /\ groups \in Seq(Group) /\ index[u] \in 1 .. Len(groups)
        /\ groups' = SwapPop(groups, index[u])
    BY <1>1, <2>4 DEF SweepRelease, TypeInv, TypeOK, CallInv
  <2>6. /\ DOMAIN groups' = 1 .. Len(groups) - 1
        /\ \A j \in DOMAIN groups' : j # index[u] => groups'[j] = groups[j]
    BY <2>5, SwapPopType
  <2>7. index[t] \in {index[u], Len(groups)}
    BY <2>2, <2>3, <2>5, <2>6
  <2> QED
    BY <2>4, <2>7
<1>2. TypeInv /\ [Next]_vars => [Kept]_vars
  BY <1>1
<1> QED
  BY TypeInit, TypeStep, <1>2, PTL DEF Spec, IndexKept

-----------------------------------------------------------------------------
(* The pool implements the abstract allocator *)

GrantSteps == {"count"} \cup GrowSteps

Granting(a)  == \E t \in Threads : pc[t] \in GrantSteps /\ addr[t] = a
Returning(a) == \E t \in Threads : pc[t] \in BackSteps /\ addr[t] = a

\* The block of a getBlock that grows the pool is not used yet.
LEMMA GrowingUnused ==
  ASSUME IInv, NEW t \in Threads, pc[t] \in GrowSteps
  PROVE  addr[t] \notin Used
<1>1. /\ Len(groups) > 0 /\ Unused(Len(groups))
      /\ addr[t] = <<groups[Len(groups)].start, 0>>
  BY DEF IInv, GrowInv, At
<1>2. groups \in Seq(Group) /\ Distinct(groups)
  BY UsedInGroups DEF IInv, TypeOK
<1>3. Len(groups) \in DOMAIN groups /\ 0 \in Indices
  BY <1>1, <1>2, SizesAssumption DEF Indices
<1>4. ~ groups[Len(groups)].flags[0]
  BY <1>1, <1>3 DEF Unused
<1> QED
  BY <1>1, <1>2, <1>3, <1>4, ClearUsed, UsedInGroups

\* Stage tells who has a block, if anybody, and no block is lost.
StageSound ==
  \A a \in Address :
    /\ a \in held <=> Stage[a] = "held"
    /\ Granting(a) <=> Stage[a] = "granting"
    /\ Returning(a) <=> Stage[a] = "returning"
    /\ a \notin Used /\ ~ Granting(a) <=> Stage[a] = "free"
    /\ Stage[a] \in {"held", "granting", "returning", "free"}

\* The cases of Stage exclude one another, and none is left over.
LEMMA StageIs == IInv => StageSound
<1> SUFFICES ASSUME IInv, NEW a \in Address
             PROVE  /\ a \in held <=> Stage[a] = "held"
                    /\ Granting(a) <=> Stage[a] = "granting"
                    /\ Returning(a) <=> Stage[a] = "returning"
                    /\ a \notin Used /\ ~ Granting(a) <=> Stage[a] = "free"
                    /\ Stage[a] \in {"held", "granting", "returning", "free"}
  BY DEF StageSound
<1>1. OwnUsed /\ OwnHeld /\ OwnUnique
  BY OwnershipPointwise DEF IInv, TypeInv
<1>2. /\ a \in BlocksAt({"count"} \cup GrowSteps) <=> Granting(a)
      /\ a \in BlocksAt(BackSteps) <=> Returning(a)
  BY DEF BlocksAt, At, Granting, Returning, GrantSteps
<1>3. \A t \in Threads : pc[t] \in GrantSteps /\ addr[t] = a =>
        (a \in Used /\ Owns(t, a)) \/ a \notin Used
  BY GrowingUnused DEF GrantSteps, Owns, OwnerSteps
<1>4. \A t \in Threads : pc[t] \in BackSteps /\ addr[t] = a => Owns(t, a) /\ a \in Used
  BY <1>1 DEF OwnUsed, Owns, OwnerSteps
<1>5. a \in held => a \in Used /\ \A t \in Threads : ~ Owns(t, a)
  BY <1>1 DEF OwnUsed, OwnHeld
<1>6. ~ (a \in held /\ Granting(a)) /\ ~ (a \in held /\ Returning(a))
  BY <1>3, <1>4, <1>5 DEF Granting, Returning
<1>7. ~ (Granting(a) /\ Returning(a))
  <2> SUFFICES ASSUME Granting(a), Returning(a) PROVE FALSE
    OBVIOUS
  <2>1. PICK t \in Threads : pc[t] \in GrantSteps /\ addr[t] = a
    BY DEF Granting
  <2>2. PICK u \in Threads : pc[u] \in BackSteps /\ addr[u] = a
    BY DEF Returning
  <2>3. Owns(t, a) /\ Owns(u, a)
    BY <2>1, <2>2, <1>3, <1>4
  <2>4. t = u
    BY <2>3, <1>1 DEF OwnUnique
  <2> QED
    BY <2>1, <2>2, <2>4 DEF GrantSteps, GrowSteps, BackSteps
<1>8. a \in Used => a \in held \/ Granting(a) \/ Returning(a)
  BY <1>1 DEF OwnUsed, Owns, OwnerSteps, Granting, Returning, GrantSteps
<1>9. Returning(a) => a \in Used
  BY <1>4 DEF Returning
<1>10. Stage[a] = IF a \in held THEN "held"
                  ELSE IF Granting(a) THEN "granting"
                  ELSE IF Returning(a) THEN "returning"
                  ELSE IF a \in Used THEN "lost"
                  ELSE "free"
  BY <1>2 DEF Stage
<1> HIDE DEF Stage
<1> QED
  BY <1>5, <1>6, <1>7, <1>8, <1>9, <1>10

\* A step in which the call of t goes on about no other block than x, and that
\* concerns no other block, moves at most x.
LEMMA OthersStay ==
  ASSUME IInv, IInv', NEW t \in Threads, NEW s, NEW a, NEW i, Continue(t, s, a, i),
         NEW x \in Address,
         \A b \in Address \ {x} : /\ b \in Used' <=> b \in Used
                                  /\ b \in held' <=> b \in held,
         pc[t] \in GrantSteps \cup BackSteps => addr[t] = x,
         s \in GrantSteps \cup BackSteps => a = x
  PROVE  Stage' = [Stage EXCEPT ![x] = Stage'[x]]
<1>1. CallsOK
  BY DEF IInv, TypeOK, CallsOK
<1>2. /\ pc'[t] = s /\ addr'[t] = a
      /\ \A u \in Threads \ {t} : pc'[u] = pc[u] /\ addr'[u] = addr[u]
  BY <1>1, ContinueEffect
<1>3. ASSUME NEW b \in Address \ {x} PROVE Stage'[b] = Stage[b]
  <2>1. /\ Granting(b)' <=> Granting(b)
        /\ Returning(b)' <=> Returning(b)
    BY <1>2 DEF Granting, Returning
  <2>2. /\ b \in held <=> Stage[b] = "held"
        /\ Granting(b) <=> Stage[b] = "granting"
        /\ Returning(b) <=> Stage[b] = "returning"
        /\ Stage[b] \in {"held", "granting", "returning", "free"}
    BY StageIs DEF StageSound
  <2>3. /\ b \in held' <=> Stage'[b] = "held"
        /\ Granting(b)' <=> Stage'[b] = "granting"
        /\ Returning(b)' <=> Stage'[b] = "returning"
        /\ Stage'[b] \in {"held", "granting", "returning", "free"}
    <3>1. StageSound'
      BY StageIs, PTL
    <3> QED
      BY <3>1 DEF StageSound, Address
  <2> QED
    BY <2>1, <2>2, <2>3
<1>4. Stage = [b \in Address |-> Stage[b]] /\ Stage' = [b \in Address |-> Stage'[b]]
  BY DEF Stage, Address
<1> QED
  BY <1>3, <1>4

\* What one step does to block x is one move of the allocator.
LEMMA OneMove ==
  ASSUME NEW x \in Address, Stage' = [Stage EXCEPT ![x] = Stage'[x]],
         <<Stage[x], Stage'[x]>> \in {<<"free", "granting">>, <<"granting", "held">>,
                                     <<"held", "returning">>, <<"returning", "free">>}
  PROVE  Allocator!Next
<1> HIDE DEF Stage
<1>1. CASE Stage[x] = "free" /\ Stage'[x] = "granting"
  BY <1>1 DEF Allocator!Next, Allocator!Reserve, Allocator!Move
<1>2. CASE Stage[x] = "granting" /\ Stage'[x] = "held"
  BY <1>2 DEF Allocator!Next, Allocator!Grant, Allocator!Move
<1>3. CASE Stage[x] = "held" /\ Stage'[x] = "returning"
  BY <1>3 DEF Allocator!Next, Allocator!Return, Allocator!Move
<1>4. CASE Stage[x] = "returning" /\ Stage'[x] = "free"
  BY <1>4 DEF Allocator!Next, Allocator!Free, Allocator!Move
<1> QED
  BY <1>1, <1>2, <1>3, <1>4

\* A step that neither grants nor takes back, and changes no owner, leaves
\* every block where it is.
LEMMA NoMove ==
  ASSUME IInv, IInv', UNCHANGED <<held, Used, pc, addr>>
  PROVE  Stage' = Stage
BY DEF Stage, BlocksAt, At

LEMMA RefineInit == Init => Allocator!Init
<1> SUFFICES ASSUME Init PROVE Allocator!Init
  OBVIOUS
<1>1. IInv
  BY InvInit
<1>2. held = {} /\ \A t \in Threads : pc[t] = "idle"
  BY DEF Init
<1>3. \A a \in Address : ~ Granting(a) /\ ~ Returning(a) /\ a \notin held
  BY <1>2 DEF Granting, Returning, GrantSteps, GrowSteps, BackSteps
<1>4. \A a \in Address : Stage[a] = "free"
  <2>1. StageSound
    BY <1>1, StageIs
  <2> QED
    BY <2>1, <1>3 DEF StageSound
<1>5. Stage = [a \in Address |-> Stage[a]]
  BY DEF Stage
<1> HIDE DEF Stage
<1> QED
  BY <1>4, <1>5 DEF Allocator!Init

LEMMA RefineStep ==
  ASSUME Quiescent = TRUE, IInv, IInv', [Next]_vars
  PROVE  [Allocator!Next]_Stage
<1>a. /\ \A b \in Address :
           /\ b \in held <=> Stage[b] = "held"
           /\ Granting(b) <=> Stage[b] = "granting"
           /\ Returning(b) <=> Stage[b] = "returning"
           /\ b \notin Used /\ ~ Granting(b) <=> Stage[b] = "free"
      /\ \A b \in Address :
           /\ b \in held' <=> Stage'[b] = "held"
           /\ Granting(b)' <=> Stage'[b] = "granting"
           /\ Returning(b)' <=> Stage'[b] = "returning"
           /\ b \notin Used' /\ ~ Granting(b)' <=> Stage'[b] = "free"
  <2>1. StageSound
    BY StageIs
  <2>2. StageSound'
    BY StageIs, PTL
  <2> QED
    BY <2>1, <2>2 DEF StageSound, Address
<1>b. CallsOK /\ groups \in Seq(Group) /\ held \subseteq Address
  BY DEF IInv, TypeOK, CallsOK
<1>c. Distinct(groups) /\ Used = UsedIn(groups) /\ Used' = UsedIn(groups')
  <2>1. Used' = UsedIn(groups')
    BY DEF Used, UsedIn, InGroup
  <2> QED
    BY <2>1, UsedInGroups DEF IInv
<1>d. /\ MutexInv
      /\ mutex = NoThread => \A u \in Threads : pc[u] \notin GrantSteps
  BY ThreadsAssumption DEF IInv, MutexInv, GrantSteps, LockSteps
<1>e. \A t \in Threads : pc[t] \in GrantSteps \cup BackSteps => addr[t] \in Address
  BY <1>b DEF CallsOK, CallInv, GrantSteps, GrowSteps, BackSteps
<1>f. ASSUME NEW t \in Threads, NEW s, NEW a, NEW i, Continue(t, s, a, i)
      PROVE  /\ pc'[t] = s /\ addr'[t] = a
             /\ \A u \in Threads \ {t} : pc'[u] = pc[u] /\ addr'[u] = addr[u]
  BY <1>f, <1>b, ContinueEffect
<1>0. CASE UNCHANGED vars
  <2>1. UNCHANGED <<held, Used, pc, addr>>
    BY <1>0, <1>c DEF vars
  <2> QED
    BY <2>1, NoMove
<1>1. ASSUME NEW t \in Threads, TakeFree(t) PROVE Allocator!Next
  <2>1. PICK i \in DOMAIN groups, b \in Indices :
          /\ ~ groups[i].flags[b]
          /\ groups' = [groups EXCEPT ![i].flags[b] = TRUE]
          /\ Continue(t, "count", <<groups[i].start, b>>, 0)
    BY <1>1 DEF TakeFree, FirstFree
  <2> DEFINE x == <<groups[i].start, b>>
  <2>2. pc[t] = "idle" /\ mutex = NoThread /\ held' = held
    BY <1>1 DEF TakeFree, Enter
  <2>3. x \in Address \ Used
    BY <2>1, <1>b, <1>c, ClearUsed
  <2>4. Used' = Used \cup {x}
    BY <2>1, <1>b, <1>c, SetUsed
  <2>5. Continue(t, "count", x, 0)
    BY <2>1
  <2> HIDE DEF x
  <2>6. Stage' = [Stage EXCEPT ![x] = Stage'[x]]
    <3>1. pc[t] \notin GrantSteps \cup BackSteps
      BY <2>2 DEF GrantSteps, GrowSteps, BackSteps
    <3> QED
      BY <2>2, <2>3, <2>4, <2>5, <3>1, OthersStay
  <2>7. Stage[x] = "free"
    BY <2>2, <2>3, <1>a, <1>d DEF Granting
  <2>8. Stage'[x] = "granting"
    BY <2>3, <2>5, <1>a, <1>f DEF Granting, GrantSteps
  <2> QED
    BY <2>3, <2>6, <2>7, <2>8, OneMove
<1>2. ASSUME NEW t \in Threads, CountTaken(t) \/ GrowFlag(t) PROVE Allocator!Next
  <2>1. /\ pc[t] \in GrantSteps
        /\ held' = held \cup {addr[t]}
        /\ Continue(t, "idle", NoBlock, 0)
    BY <1>2 DEF CountTaken, GrowFlag, Leave, GrantSteps, GrowSteps
  <2> DEFINE x == addr[t]
  <2>2. x \in Address
    BY <2>1, <1>e
  <2>3. \A b \in Address \ {x} : b \in Used' <=> b \in Used
    <3>1. CASE CountTaken(t)
      BY <3>1, <1>c DEF CountTaken
    <3>2. CASE GrowFlag(t)
      <4>1. /\ pc[t] = "growFlag"
            /\ groups' = [groups EXCEPT ![Len(groups)].flags[0] = TRUE]
        BY <3>2 DEF GrowFlag
      <4>2. Len(groups) \in DOMAIN groups /\ x = <<groups[Len(groups)].start, 0>>
        BY <4>1, <1>b DEF IInv, GrowInv, At, GrowSteps
      <4>3. 0 \in Indices
        BY SizesAssumption DEF Indices
      <4>4. UsedIn([groups EXCEPT ![Len(groups)].flags[0] = TRUE])
              = UsedIn(groups) \cup {<<groups[Len(groups)].start, 0>>}
        BY <4>2, <4>3, <1>b, <1>c, SetUsed
      <4>5. Used' = Used \cup {x}
        BY <4>1, <4>2, <4>4, <1>c
      <4> QED
        BY <4>5
    <3> QED
      BY <1>2, <3>1, <3>2
  <2> HIDE DEF x
  <2>4. Stage' = [Stage EXCEPT ![x] = Stage'[x]]
    <3>1. "idle" \notin GrantSteps \cup BackSteps
      BY DEF GrantSteps, GrowSteps, BackSteps
    <3>2. addr[t] = x
      BY DEF x
    <3> QED
      BY <2>1, <2>2, <2>3, <3>1, <3>2, OthersStay
  <2>5. Stage[x] = "granting" /\ Stage'[x] = "held"
    BY <2>1, <2>2, <1>a DEF x, Granting
  <2> QED
    BY <2>2, <2>4, <2>5, OneMove
<1>3. ASSUME NEW t \in Threads, Grow(t) PROVE Allocator!Next
  <2>1. PICK r \in Regions \ Starts(groups) :
          /\ groups' = Append(groups, NewGroup(r))
          /\ Continue(t, "growUse", <<r, 0>>, 0)
    BY <1>3 DEF Grow
  <2> DEFINE x == <<r, 0>>
  <2>2. pc[t] = "idle" /\ mutex = NoThread /\ held' = held
    BY <1>3 DEF Grow, Enter
  <2>3. Used' = Used
    BY <2>1, <1>b, <1>c, AppendUsed
  <2>4. x \in Address /\ x \notin Used
    BY <2>1, SizesAssumption DEF Address, Indices, Used, InGroup, Starts
  <2>5. Continue(t, "growUse", x, 0)
    BY <2>1
  <2> HIDE DEF x
  <2>6. Stage' = [Stage EXCEPT ![x] = Stage'[x]]
    <3>1. pc[t] \notin GrantSteps \cup BackSteps
      BY <2>2 DEF GrantSteps, GrowSteps, BackSteps
    <3> QED
      BY <2>2, <2>3, <2>4, <2>5, <3>1, OthersStay
  <2>7. Stage[x] = "free"
    BY <2>2, <2>4, <1>a, <1>d DEF Granting
  <2>8. Stage'[x] = "granting"
    BY <2>4, <2>5, <1>a, <1>f DEF Granting, GrantSteps, GrowSteps
  <2> QED
    BY <2>4, <2>6, <2>7, <2>8, OneMove
<1>4. ASSUME NEW t \in Threads, GrowUse(t) \/ GrowAll(t) \/ BackUse(t)
      PROVE  Stage' = Stage
  <2> DEFINE x == addr[t]
  <2>1. PICK s : /\ Continue(t, s, x, index[t])
                 /\ \/ pc[t] \in GrantSteps /\ s \in GrantSteps
                    \/ pc[t] \in BackSteps /\ s \in BackSteps
    BY <1>4 DEF GrowUse, GrowAll, BackUse, Goto, GrantSteps, GrowSteps, BackSteps
  <2>2. held' = held /\ Used' = Used
    BY <1>4, <1>c DEF GrowUse, GrowAll, BackUse
  <2>3. x \in Address
    BY <2>1, <1>e
  <2>4. addr[t] = x
    OBVIOUS
  <2> HIDE DEF x
  <2>5. Stage' = [Stage EXCEPT ![x] = Stage'[x]]
    BY <2>1, <2>2, <2>3, <2>4, OthersStay
  <2>6. Stage'[x] = Stage[x]
    <3>1. CASE pc[t] \in GrantSteps /\ s \in GrantSteps
      BY <3>1, <2>1, <2>3, <2>4, <1>a, <1>f DEF Granting
    <3>2. CASE pc[t] \in BackSteps /\ s \in BackSteps
      BY <3>2, <2>1, <2>3, <2>4, <1>a, <1>f DEF Returning
    <3> QED
      BY <2>1, <3>1, <3>2
  <2>7. Stage = [b \in Address |-> Stage[b]]
    BY DEF Stage
  <2> HIDE DEF Stage
  <2> QED
    BY <2>3, <2>5, <2>6, <2>7
<1>5. ASSUME NEW t \in Threads, NEW x \in held, BackFind(t, x) PROVE Allocator!Next
  <2>1. PICK i \in DOMAIN groups : Continue(t, "backUse", x, i)
    BY <1>5 DEF BackFind
  <2>2. pc[t] = "idle" /\ held' = held \ {x} /\ Used' = Used /\ x \in Address
    BY <1>5, <1>b, <1>c DEF BackFind, Enter
  <2>3. Stage' = [Stage EXCEPT ![x] = Stage'[x]]
    <3>1. pc[t] \notin GrantSteps \cup BackSteps
      BY <2>2 DEF GrantSteps, GrowSteps, BackSteps
    <3> QED
      BY <2>1, <2>2, <3>1, OthersStay
  <2>4. Stage[x] = "held"
    BY <2>2, <1>a
  <2>5. Stage'[x] = "returning"
    BY <2>1, <2>2, <1>a, <1>f DEF Returning, BackSteps
  <2> QED
    BY <2>2, <2>3, <2>4, <2>5, OneMove
<1>6. ASSUME NEW t \in Threads, NEW x \in held PROVE ~ BackUnknown(t, x)
  <2>1. x \in Used
    BY DEF IInv, Ownership
  <2> QED
    BY <2>1 DEF BackUnknown, Used
<1>7. ASSUME NEW t \in Threads, BackClear(t) PROVE Allocator!Next
  <2> DEFINE x == addr[t]
  <2>1. /\ pc[t] \in BackSteps /\ held' = held /\ mutex = NoThread
        /\ groups' = [groups EXCEPT ![index[t]].flags[x[2]] = FALSE]
        /\ Continue(t, "idle", NoBlock, 0)
    BY <1>7 DEF BackClear, Leave, BackSteps
  <2>2. x \in Address /\ addr[t] = x
    BY <2>1, <1>e
  <2>3. /\ index[t] \in DOMAIN groups /\ x[2] \in Indices
        /\ x = <<groups[index[t]].start, x[2]>>
    BY <2>2, <1>7 DEF BackClear, InGroup, Address
  <2> HIDE DEF x
  <2>4. Used' = Used \ {x}
    <3> DEFINE i == index[t]
               b == x[2]
    <3>1. /\ i \in DOMAIN groups /\ b \in Indices /\ x = <<groups[i].start, b>>
          /\ groups' = [groups EXCEPT ![i].flags[b] = FALSE]
      BY <2>1, <2>3
    <3> HIDE DEF i, b
    <3> QED
      BY <3>1, <1>b, <1>c, ResetUsed
  <2>5. Stage' = [Stage EXCEPT ![x] = Stage'[x]]
    <3>1. "idle" \notin GrantSteps \cup BackSteps
      BY DEF GrantSteps, GrowSteps, BackSteps
    <3> QED
      BY <2>1, <2>2, <2>4, <3>1, OthersStay
  <2>6. Stage[x] = "returning"
    BY <2>1, <2>2, <1>a DEF Returning
  <2>7. Stage'[x] = "free"
    <3>1. \A u \in Threads : pc'[u] \notin GrantSteps
      BY <2>1, <1>d, <1>f DEF GrantSteps, GrowSteps
    <3> QED
      BY <2>2, <2>4, <3>1, <1>a DEF Granting
  <2> QED
    BY <2>2, <2>5, <2>6, <2>7, OneMove
<1>8. ASSUME NEW t \in Threads PROVE ~ BackStray(t)
  BY DEF BackStray, IInv, ReturnedIndexValid, At, BackSteps
<1>9. ASSUME NEW t \in Threads, Recovery(t) PROVE Stage' = Stage
  <2>1. held' = held /\ Used' = Used
    <3>1. CASE SweepRelease(t)
      <4>1. /\ groups' = SwapPop(groups, index[t]) /\ held' = held
            /\ Unused(index[t]) /\ index[t] <= Len(groups) /\ pc[t] = "sweep"
        BY <3>1 DEF SweepRelease
      <4>2. index[t] \in DOMAIN groups
        BY <4>1, <1>b DEF CallsOK, CallInv
      <4> QED
        BY <4>1, <4>2, <1>b, <1>c, SwapPopUsed DEF Unused
    <3> QED
      BY <1>9, <3>1, <1>c DEF Recovery, SweepStart, SweepKeep, SweepEnd
  <2>2. ASSUME NEW b \in Address
        PROVE  (Granting(b)' <=> Granting(b)) /\ (Returning(b)' <=> Returning(b))
    <3>1. CASE SweepRelease(t)
      BY <3>1 DEF SweepRelease, Granting, Returning
    <3>2. CASE SweepStart(t) \/ SweepKeep(t) \/ SweepEnd(t)
      <4>1. PICK s, i : /\ s \in {"idle", "sweep"} /\ Continue(t, s, NoBlock, i)
                      /\ pc[t] \in {"idle", "sweep"}
        BY <3>2 DEF SweepStart, SweepKeep, SweepEnd, Leave, Enter
      <4>2. {"idle", "sweep"} \cap (GrantSteps \cup BackSteps) = {}
        BY DEF GrantSteps, GrowSteps, BackSteps
      <4>3. /\ pc'[t] \notin GrantSteps \cup BackSteps
            /\ pc[t] \notin GrantSteps \cup BackSteps
            /\ \A u \in Threads \ {t} : pc'[u] = pc[u] /\ addr'[u] = addr[u]
        BY <4>1, <4>2, <1>f
      <4> QED
        BY <4>3 DEF Granting, Returning
    <3> QED
      BY <1>9, <3>1, <3>2 DEF Recovery
  <2>3. \A b \in Address : b \in BlocksAt({"count"} \cup GrowSteps) <=> Granting(b)
    BY DEF BlocksAt, At, Granting, GrantSteps
  <2>4. \A b \in Address : b \in BlocksAt(BackSteps) <=> Returning(b)
    BY DEF BlocksAt, At, Returning
  <2>5. \A b \in Address : b \in BlocksAt({"count"} \cup GrowSteps)' <=> Granting(b)'
    BY DEF BlocksAt, At, Granting, GrantSteps
  <2>6. \A b \in Address : b \in BlocksAt(BackSteps)' <=> Returning(b)'
    BY DEF BlocksAt, At, Returning
  <2> QED
    BY <2>1, <2>2, <2>3, <2>4, <2>5, <2>6 DEF Stage
<1> QED
  BY <1>0, <1>1, <1>2, <1>3, <1>4, <1>5, <1>6, <1>7, <1>8, <1>9
  DEF Next, GetBlock, BackBlock

\* Whenever recovery waits for the returns under way, clients see the abstract
\* allocator: a block is granted when it is free, to one client, and is free
\* again once it was given back.
THEOREM ImplementsAllocator ==
  ASSUME Quiescent = TRUE
  PROVE  Spec => AllocatorSpec
<1>1. IInv /\ IInv' /\ [Next]_vars => [Allocator!Next]_Stage
  BY RefineStep
<1> QED
  BY RefineInit, Invariance, <1>1, PTL DEF Spec, AllocatorSpec, Allocator!Spec

-----------------------------------------------------------------------------
(* The lock and the regions, whoever calls recovery and when *)

LockInv == TypeInv /\ MutexInv /\ DistinctStarts

LEMMA LockInit == Init => LockInv
BY InvInit DEF IInv, LockInv, TypeInv

\* At most one call is inside the lock.
LEMMA OneInside ==
  ASSUME MutexInv
  PROVE  /\ \A t, u \in Threads : pc[t] \in LockSteps /\ pc[u] \in LockSteps => t = u
         /\ mutex = NoThread => \A u \in Threads : pc[u] \notin LockSteps
BY ThreadsAssumption DEF MutexInv

LEMMA LockStep == LockInv /\ [Next]_vars => LockInv'
<1> SUFFICES ASSUME LockInv, [Next]_vars PROVE LockInv'
  OBVIOUS
<1>a. TypeInv /\ TypeInv' /\ MutexInv /\ DistinctStarts
  BY TypeStep DEF LockInv
<1>b. groups \in Seq(Group) /\ Distinct(groups) /\ (DistinctStarts' <=> Distinct(groups'))
  BY <1>a, UsedInGroups DEF TypeInv, TypeOK, DistinctStarts, Distinct
<1>c. ASSUME NEW i, NEW b, \/ groups' = [groups EXCEPT ![i].flags[b] = TRUE]
                           \/ groups' = [groups EXCEPT ![i].flags[b] = FALSE]
      PROVE  DistinctStarts'
  <2>1. \A j \in DOMAIN groups : groups'[j].start = groups[j].start
    <3>1. \A j \in DOMAIN groups : groups[j] \in Group
      BY <1>b
    <3> QED
      BY <3>1, <1>c DEF Group
  <2>2. DOMAIN groups' = DOMAIN groups
    BY <1>c
  <2>3. ASSUME NEW j \in DOMAIN groups', NEW k \in DOMAIN groups',
               groups'[j].start = groups'[k].start
        PROVE  j = k
    BY <2>1, <2>2, <2>3, <1>b DEF Distinct
  <2>4. Distinct(groups')
    BY <2>3 DEF Distinct
  <2> QED
    BY <2>4, <1>b
<1>d. groups' = groups => DistinctStarts'
  BY <1>b
<1>e. MutexInv' /\ DistinctStarts' => LockInv'
  BY <1>a DEF LockInv
<1>f. {"count", "sweep", "growUse", "growAll", "growFlag"} = LockSteps
  BY DEF LockSteps, GrowSteps
<1>g. ASSUME NEW t \in Threads, pc[t] \in LockSteps, NEW s, NEW a, NEW i,
             Continue(t, s, a, i),
             \/ s \in LockSteps /\ mutex' = mutex
             \/ s = "idle" /\ mutex' = NoThread
      PROVE  MutexInv'
  <2>1. mutex = t
    BY <1>a, <1>g DEF MutexInv
  <2> QED
    BY <2>1, <1>a, <1>f, <1>g, MutexStep
<1>h. ASSUME NEW t \in Threads, pc[t] \notin LockSteps, NEW s, NEW a, NEW i,
             Continue(t, s, a, i),
             \/ s \in LockSteps /\ mutex = NoThread /\ mutex' = t
             \/ s \notin LockSteps /\ mutex' = mutex
      PROVE  MutexInv'
  BY <1>a, <1>h, MutexStep
<1>0. CASE UNCHANGED vars
  BY <1>0, <1>a, <1>d, <1>e DEF vars, MutexInv
<1>1. ASSUME NEW t \in Threads, TakeFree(t) PROVE LockInv'
  <2>1. PICK i \in DOMAIN groups, b \in Indices :
          /\ groups' = [groups EXCEPT ![i].flags[b] = TRUE]
          /\ Continue(t, "count", <<groups[i].start, b>>, 0)
    BY <1>1 DEF TakeFree
  <2>2. pc[t] = "idle" /\ mutex = NoThread /\ mutex' = t
    BY <1>1 DEF TakeFree, Enter
  <2>3. MutexInv'
    BY <2>1, <2>2, <1>f, <1>h
  <2>4. DistinctStarts'
    BY <2>1, <1>c
  <2> QED
    BY <2>3, <2>4, <1>e
<1>2. ASSUME NEW t \in Threads, CountTaken(t) \/ GrowFlag(t) PROVE LockInv'
  <2>1. /\ pc[t] \in LockSteps /\ mutex' = NoThread
        /\ Continue(t, "idle", NoBlock, 0)
    BY <1>2, <1>f DEF CountTaken, GrowFlag, Leave
  <2>2. DistinctStarts'
    BY <1>2, <1>c, <1>d DEF CountTaken, GrowFlag
  <2> QED
    BY <2>1, <2>2, <1>e, <1>g
<1>3. ASSUME NEW t \in Threads, Grow(t) PROVE LockInv'
  <2>1. PICK r \in Regions \ Starts(groups) :
          /\ groups' = Append(groups, NewGroup(r))
          /\ Continue(t, "growUse", <<r, 0>>, 0)
    BY <1>3 DEF Grow
  <2>2. pc[t] = "idle" /\ mutex = NoThread /\ mutex' = t
    BY <1>3 DEF Grow, Enter
  <2>3. MutexInv'
    BY <2>1, <2>2, <1>f, <1>h
  <2>4. DistinctStarts'
    BY <2>1, <1>b, AppendUsed
  <2> QED
    BY <2>3, <2>4, <1>e
<1>4. ASSUME NEW t \in Threads, GrowUse(t) \/ GrowAll(t) PROVE LockInv'
  <2>1. PICK s \in LockSteps : Continue(t, s, addr[t], index[t])
    BY <1>4, <1>f DEF GrowUse, GrowAll, Goto
  <2>2. pc[t] \in LockSteps /\ mutex' = mutex /\ groups' = groups
    BY <1>4, <1>f DEF GrowUse, GrowAll
  <2> QED
    BY <2>1, <2>2, <1>d, <1>e, <1>g
<1>5. ASSUME NEW t \in Threads, NEW x \in held, BackFind(t, x) PROVE LockInv'
  <2>1. PICK i : Continue(t, "backUse", x, i)
    BY <1>5 DEF BackFind
  <2>2. pc[t] = "idle" /\ mutex' = mutex /\ groups' = groups
    BY <1>5 DEF BackFind, Enter
  <2> QED
    BY <2>1, <2>2, <1>d, <1>e, <1>f, <1>h
<1>6. ASSUME NEW t \in Threads, NEW x \in held, BackUnknown(t, x) PROVE LockInv'
  BY <1>6, <1>a, <1>d, <1>e DEF BackUnknown, MutexInv
<1>7. ASSUME NEW t \in Threads, BackUse(t) PROVE LockInv'
  <2>1. /\ pc[t] = "backUse" /\ mutex' = mutex /\ groups' = groups
        /\ Continue(t, "backClear", addr[t], index[t])
    BY <1>7 DEF BackUse, Goto
  <2> QED
    BY <2>1, <1>d, <1>e, <1>f, <1>h
<1>8. ASSUME NEW t \in Threads, BackClear(t) \/ BackStray(t) PROVE LockInv'
  <2>1. /\ pc[t] = "backClear" /\ mutex' = mutex
        /\ Continue(t, "idle", NoBlock, 0)
    BY <1>8 DEF BackClear, BackStray, Leave
  <2>2. DistinctStarts'
    BY <1>8, <1>c, <1>d DEF BackClear, BackStray
  <2> QED
    BY <2>1, <2>2, <1>e, <1>f, <1>h
<1>9. ASSUME NEW t \in Threads, SweepStart(t) PROVE LockInv'
  <2>1. /\ pc[t] = "idle" /\ mutex = NoThread /\ mutex' = t /\ groups' = groups
        /\ Continue(t, "sweep", NoBlock, 1)
    BY <1>9 DEF SweepStart, Enter
  <2> QED
    BY <2>1, <1>d, <1>e, <1>f, <1>h
<1>10. ASSUME NEW t \in Threads, SweepRelease(t) PROVE LockInv'
  <2>1. /\ groups' = SwapPop(groups, index[t]) /\ mutex' = mutex /\ pc' = pc
        /\ Unused(index[t]) /\ index[t] <= Len(groups) /\ pc[t] = "sweep"
    BY <1>10 DEF SweepRelease
  <2>2. index[t] \in DOMAIN groups
    BY <2>1, <1>a DEF TypeInv, TypeOK, CallInv
  <2>3. DistinctStarts'
    BY <2>1, <2>2, <1>b, SwapPopUsed DEF Unused
  <2> QED
    BY <2>1, <2>3, <1>a, <1>e DEF MutexInv
<1>11. ASSUME NEW t \in Threads, SweepKeep(t) PROVE LockInv'
  <2>1. /\ pc[t] = "sweep" /\ mutex' = mutex /\ groups' = groups
        /\ Continue(t, "sweep", NoBlock, index[t] + 1)
    BY <1>11 DEF SweepKeep
  <2> QED
    BY <2>1, <1>d, <1>e, <1>f, <1>g
<1>12. ASSUME NEW t \in Threads, SweepEnd(t) PROVE LockInv'
  <2>1. /\ pc[t] = "sweep" /\ mutex' = NoThread /\ groups' = groups
        /\ Continue(t, "idle", NoBlock, 0)
    BY <1>12 DEF SweepEnd, Leave
  <2> QED
    BY <2>1, <1>d, <1>e, <1>f, <1>g
<1> QED
  BY <1>0, <1>1, <1>2, <1>3, <1>4, <1>5, <1>6, <1>7, <1>8, <1>9, <1>10, <1>11,
     <1>12 DEF Next, GetBlock, BackBlock, Recovery

-----------------------------------------------------------------------------
(* How many blocks there are *)

\* The blocks of the groups of s.
BlocksIn(s) == Starts(s) \X Indices

LEMMA BlockCountOf ==
  ASSUME NEW s \in Seq(Group), Distinct(s)
  PROVE  /\ IsFiniteSet(BlocksIn(s))
         /\ Cardinality(BlocksIn(s)) = GroupSize * Len(s)
         /\ UsedIn(s) \subseteq BlocksIn(s)
<1> DEFINE f == [i \in 1 .. Len(s) |-> s[i].start]
<1>1. Len(s) \in Nat /\ DOMAIN s = 1 .. Len(s)
  OBVIOUS
<1>2. f \in Bijection(1 .. Len(s), Starts(s))
  <2>1. f \in [1 .. Len(s) -> Starts(s)]
    BY <1>1 DEF Starts
  <2>2. \A i, j \in 1 .. Len(s) : f[i] = f[j] => i = j
    BY <1>1 DEF Distinct
  <2>3. \A r \in Starts(s) : \E i \in 1 .. Len(s) : f[i] = r
    BY <1>1 DEF Starts
  <2> HIDE DEF f
  <2> QED
    BY <2>1, <2>2, <2>3 DEF Bijection, Injection, Surjection, IsInjective
<1>3. IsFiniteSet(1 .. Len(s)) /\ Cardinality(1 .. Len(s)) = Len(s)
  <2>1. 1 \in Int /\ Len(s) \in Int
    BY <1>1
  <2>2. /\ IsFiniteSet(1 .. Len(s))
        /\ Cardinality(1 .. Len(s)) = IF 1 > Len(s) THEN 0 ELSE Len(s) - 1 + 1
    BY <2>1, FS_Interval
  <2> QED
    BY <2>2, <1>1
<1>4. IsFiniteSet(Starts(s)) /\ Cardinality(Starts(s)) = Len(s)
  BY <1>2, <1>3, FS_Bijection DEF ExistsBijection
<1>5. IsFiniteSet(Indices) /\ Cardinality(Indices) = GroupSize
  <2>1. 0 \in Int /\ GroupSize - 1 \in Int
    BY SizesAssumption
  <2>2. /\ IsFiniteSet(0 .. GroupSize - 1)
        /\ Cardinality(0 .. GroupSize - 1)
             = IF 0 > GroupSize - 1 THEN 0 ELSE (GroupSize - 1) - 0 + 1
    BY <2>1, FS_Interval
  <2> QED
    BY <2>2, SizesAssumption DEF Indices
<1>6. IsFiniteSet(BlocksIn(s)) /\ Cardinality(BlocksIn(s)) = Len(s) * GroupSize
  BY <1>4, <1>5, FS_Product DEF BlocksIn
<1>7. UsedIn(s) \subseteq BlocksIn(s)
  BY DEF UsedIn, BlocksIn, Starts, Address
<1> QED
  BY <1>1, <1>6, <1>7, SizesAssumption

\* When no flag is clear, every block is used.
LEMMA AllUsed ==
  ASSUME groups \in Seq(Group), NoneFree
  PROVE  UsedIn(groups) = BlocksIn(groups)
<1>1. \A i \in DOMAIN groups : groups[i].start \in Regions
  <2>1. \A i \in DOMAIN groups : groups[i] \in Group
    OBVIOUS
  <2> QED
    BY <2>1 DEF Group
<1>2. UsedIn(groups) \subseteq BlocksIn(groups)
  BY DEF UsedIn, BlocksIn, Starts, Address
<1>3. ASSUME NEW a \in BlocksIn(groups) PROVE a \in UsedIn(groups)
  <2>1. PICK i \in DOMAIN groups, b \in Indices : a = <<groups[i].start, b>>
    BY DEF BlocksIn, Starts
  <2>2. groups[i].flags[b]
    BY <2>1 DEF NoneFree
  <2> QED
    BY <2>1, <2>2, <1>1 DEF UsedIn, Address
<1> QED
  BY <1>2, <1>3

-----------------------------------------------------------------------------
(* The pool grows on demand only *)

LEMMA CapacityStep ==
  ASSUME LockInv, CapacityBound, [Next]_vars
  PROVE  CapacityBound'
<1>a. groups \in Seq(Group) /\ Distinct(groups) /\ Used = UsedIn(groups)
  BY UsedInGroups DEF LockInv, TypeInv, TypeOK
<1>b. Len(groups) \in Nat
  BY <1>a
<1>c. InitialGroups \in Nat /\ GroupSize \in Nat \ {0} /\ MaxUsed \in Nat
  BY InitialGroupsPositive, SizesAssumption
<1>d. Len(groups') = Len(groups) => CapacityBound'
  BY DEF CapacityBound, InitialGroups
<1>e. ASSUME NEW i, NEW b, \/ groups' = [groups EXCEPT ![i].flags[b] = TRUE]
                           \/ groups' = [groups EXCEPT ![i].flags[b] = FALSE]
      PROVE  Len(groups') = Len(groups)
  BY <1>a, <1>e
<1>1. ASSUME NEW t \in Threads, Grow(t) PROVE CapacityBound'
  <2>1. Cardinality(Used) < MaxUsed /\ NoneFree
    BY <1>1 DEF Grow, Room
  <2>2. GroupSize * Len(groups) < MaxUsed
    BY <2>1, <1>a, AllUsed, BlockCountOf
  <2>3. Len(groups') = Len(groups) + 1
    <3>1. PICK r \in Regions : groups' = Append(groups, NewGroup(r))
      BY <1>1 DEF Grow
    <3> QED
      BY <3>1, <1>a, NewGroupType
  <2> QED
    BY <2>2, <2>3, <1>b DEF CapacityBound
<1>2. ASSUME NEW t \in Threads, SweepRelease(t) PROVE CapacityBound'
  <2>1. index[t] \in 1 .. Len(groups) /\ groups' = SwapPop(groups, index[t])
    BY <1>2 DEF SweepRelease, LockInv, TypeInv, TypeOK, CallInv
  <2>2. Len(groups') = Len(groups) - 1
    BY <2>1, <1>a, SwapPopType
  <2>3. GroupSize * (Len(groups') - 1) = GroupSize * (Len(groups) - 1) - GroupSize
    BY <2>2, <1>b, <1>c
  <2>4. GroupSize * (Len(groups) - 1) \in Int
    BY <1>b, <1>c
  <2> QED
    BY <2>2, <2>3, <2>4, <1>b, <1>c DEF CapacityBound, InitialGroups
<1>3. ASSUME NEW t \in Threads, TakeFree(t) \/ GrowFlag(t) \/ BackClear(t) \/ BackStray(t)
      PROVE  CapacityBound'
  BY <1>3, <1>d, <1>e DEF TakeFree, GrowFlag, BackClear, BackStray
<1>4. CASE UNCHANGED groups
  BY <1>4, <1>d
<1> QED
  BY <1>1, <1>2, <1>3, <1>4
  DEF Next, GetBlock, BackBlock, Recovery, vars, CountTaken, GrowUse, GrowAll,
      BackFind, BackUnknown, BackUse, SweepStart, SweepKeep, SweepEnd

\* However the calls interleave, even when recovery runs while blocks are given
\* back, the pool has no more groups than at the start or than the most blocks
\* ever in use at once need.
THEOREM CapacityCorrect == Spec => []CapacityBound
<1>1. Init => CapacityBound
  <2>1. Init => Len(groups) = InitialGroups
    <3> SUFFICES ASSUME Init PROVE Len(groups) = InitialGroups
      OBVIOUS
    <3>1. PICK r \in [1 .. InitialGroups -> Regions] :
            groups = [i \in 1 .. InitialGroups |-> NewGroup(r[i])]
      BY DEF Init
    <3> QED
      BY <3>1, InitialGroupsPositive
  <2> QED
    BY <2>1, InitialGroupsPositive DEF CapacityBound
<1>2. LockInv /\ CapacityBound /\ [Next]_vars => CapacityBound'
  BY CapacityStep
<1> QED
  BY LockInit, LockStep, <1>1, <1>2, PTL DEF Spec

-----------------------------------------------------------------------------
(* The counters, as long as they can count the blocks: the clients' bound   *)
(* on used blocks and one group more fit into a counter                     *)

Countable == MaxUsed + GroupSize <= CounterMax + 1

\* The number of blocks never leaves the range of the counters.
LEMMA BlocksCountable ==
  ASSUME Countable, groups \in Seq(Group), CapacityBound
  PROVE  GroupSize * Len(groups) \in 0 .. CounterMax
<1> DEFINE n == Len(groups)
           m == InitialGroups
<1>1. /\ n \in Nat /\ m \in Nat /\ GroupSize \in Nat /\ CounterMax \in Nat
      /\ MaxUsed \in Nat /\ MaxUsed + GroupSize <= CounterMax + 1
  BY InitialGroupsPositive, SizesAssumption DEF Countable
<1>0. GroupSize * m <= CounterMax
  <2>1. m * GroupSize <= CounterMax
    BY InitialGroupsPositive
  <2> HIDE DEF m
  <2> QED
    BY <2>1, <1>1
<1>2. GroupSize * n \in Nat
  <2> HIDE DEF n, m
  <2> QED
    BY <1>1
<1>3. CASE n <= m
  <2>1. PICK d \in Nat : m = n + d
    <3>1. m - n \in Nat /\ m = n + (m - n)
      BY <1>1, <1>3
    <3> QED
      BY <3>1
  <2>2. GroupSize * m = GroupSize * n + GroupSize * d /\ GroupSize * d \in Nat
    <3> HIDE DEF n, m
    <3> QED
      BY <2>1, <1>1
  <2>3. GroupSize * n <= CounterMax
    <3> HIDE DEF n, m
    <3> QED
      BY <2>2, <1>0, <1>1, <1>2
  <2> QED
    BY <2>3, <1>1, <1>2
<1>4. CASE GroupSize * (n - 1) < MaxUsed
  <2>1. GroupSize * n = GroupSize * (n - 1) + GroupSize
    <3> HIDE DEF n
    <3> QED
      BY <1>1
  <2>2. GroupSize * (n - 1) \in Int
    BY <1>1
  <2>3. GroupSize * n <= CounterMax
    <3> HIDE DEF n
    <3> QED
      BY <2>1, <2>2, <1>1, <1>2, <1>4
  <2> QED
    BY <2>3, <1>1, <1>2
<1> QED
  BY <1>3, <1>4 DEF CapacityBound

\* At most one getBlock is growing the pool.
Growing == \E t \in Threads : pc[t] \in {"growUse", "growAll"}

AllCounted == all + (IF Growing THEN GroupSize ELSE 0) = GroupSize * Len(groups)

LEMMA GrowingOne == MutexInv => (AllCountExact <=> AllCounted)
<1> SUFFICES ASSUME MutexInv PROVE AllCountExact <=> AllCounted
  OBVIOUS
<1> DEFINE S == At({"growUse", "growAll"})
<1>1. \A t, u \in S : t = u
  BY OneInside DEF At, LockSteps, GrowSteps
<1>2. CASE Growing
  <2>1. PICK t \in Threads : t \in S
    BY <1>2 DEF Growing, At
  <2> HIDE DEF S
  <2>2. S = {t}
    BY <2>1, <1>1
  <2>4. Cardinality(S) = 1
    BY <2>2, FS_Singleton
  <2>3. GroupSize * 1 = GroupSize
    BY SizesAssumption
  <2> QED
    BY <1>2, <2>4, <2>3 DEF S, AllCountExact, AllCounted
<1>3. CASE ~ Growing
  <2>1. S = {}
    BY <1>3 DEF Growing, At
  <2>2. Cardinality(S) = 0
    BY <2>1, FS_EmptySet
  <2>3. GroupSize * 0 = 0
    BY SizesAssumption
  <2> QED
    BY <1>3, <2>2, <2>3 DEF AllCountExact, AllCounted
<1> QED
  BY <1>2, <1>3

LEMMA AllStep ==
  ASSUME Countable, LockInv, CapacityBound, CapacityBound', AllCounted, [Next]_vars
  PROVE  AllCounted'
<1>a. /\ groups \in Seq(Group) /\ all \in 0 .. CounterMax
      /\ CallsOK
      /\ Len(groups) \in Nat /\ GroupSize \in Nat \ {0} /\ CounterMax \in Nat
  BY SizesAssumption DEF LockInv, TypeInv, TypeOK, CallsOK
<1>b. /\ \A t, u \in Threads : pc[t] \in LockSteps /\ pc[u] \in LockSteps => t = u
      /\ mutex = NoThread => \A u \in Threads : pc[u] \notin LockSteps
      /\ {"count", "sweep", "growUse", "growAll", "growFlag"} = LockSteps
  BY OneInside DEF LockInv, LockSteps, GrowSteps
<1>c. ASSUME NEW t \in Threads, NEW s, NEW a, NEW i, Continue(t, s, a, i)
      PROVE  pc'[t] = s /\ \A u \in Threads \ {t} : pc'[u] = pc[u]
  BY <1>a, <1>c, ContinueEffect
<1>d. all' = all /\ Len(groups') = Len(groups) /\ Growing' = Growing => AllCounted'
  BY DEF AllCounted
<1>e. ASSUME NEW i, NEW b, \/ groups' = [groups EXCEPT ![i].flags[b] = TRUE]
                           \/ groups' = [groups EXCEPT ![i].flags[b] = FALSE]
      PROVE  Len(groups') = Len(groups)
  BY <1>a, <1>e
<1>f. GroupSize * Len(groups) <= CounterMax
  BY <1>a, BlocksCountable
<1>1. ASSUME NEW t \in Threads, Grow(t) PROVE AllCounted'
  <2>1. PICK r \in Regions :
          /\ groups' = Append(groups, NewGroup(r))
          /\ Continue(t, "growUse", <<r, 0>>, 0)
    BY <1>1 DEF Grow
  <2>2. Len(groups') = Len(groups) + 1
    BY <2>1, <1>a, NewGroupType
  <2>3. Growing'
    BY <2>1, <1>c DEF Growing
  <2>4. ~ Growing /\ all' = all
    BY <1>1, <1>b DEF Grow, Enter, Growing
  <2>5. GroupSize * (Len(groups) + 1) = GroupSize * Len(groups) + GroupSize
    BY <1>a
  <2> QED
    BY <2>2, <2>3, <2>4, <2>5, <1>a DEF AllCounted
<1>2. ASSUME NEW t \in Threads, GrowUse(t) PROVE AllCounted'
  <2>1. /\ pc[t] = "growUse" /\ all' = all /\ groups' = groups
        /\ Continue(t, "growAll", addr[t], index[t])
    BY <1>2 DEF GrowUse, Goto
  <2>2. Growing /\ Growing'
    BY <2>1, <1>c DEF Growing
  <2> QED
    BY <2>1, <2>2 DEF AllCounted
<1>3. ASSUME NEW t \in Threads, GrowAll(t) PROVE AllCounted'
  <2>1. /\ pc[t] = "growAll" /\ all' = Plus(all, GroupSize) /\ groups' = groups
        /\ Continue(t, "growFlag", addr[t], index[t])
    BY <1>3 DEF GrowAll, Goto
  <2>2. Growing
    BY <2>1 DEF Growing
  <2>3. ~ Growing'
    BY <2>1, <1>b, <1>c DEF Growing
  <2>4. all + GroupSize = GroupSize * Len(groups)
    BY <2>2 DEF AllCounted
  <2>5. all' = all + GroupSize
    BY <2>1, <2>4, <1>a, <1>f DEF Plus
  <2> QED
    BY <2>1, <2>3, <2>4, <2>5, <1>a DEF AllCounted
<1>4. ASSUME NEW t \in Threads, SweepRelease(t) PROVE AllCounted'
  <2>1. /\ pc[t] = "sweep" /\ pc' = pc /\ groups' = SwapPop(groups, index[t])
        /\ all' = Minus(all, GroupSize) /\ index[t] <= Len(groups)
    BY <1>4 DEF SweepRelease
  <2>2. index[t] \in 1 .. Len(groups)
    BY <2>1, <1>a DEF CallsOK, CallInv
  <2>3. Len(groups') = Len(groups) - 1 /\ Len(groups) >= 1
    BY <2>1, <2>2, <1>a, SwapPopType
  <2>4. ~ Growing /\ ~ Growing'
    BY <2>1, <1>b DEF Growing
  <2>5. /\ GroupSize * (Len(groups) - 1) = GroupSize * Len(groups) - GroupSize
        /\ GroupSize * (Len(groups) - 1) >= 0
    BY <1>a, <2>3
  <2>6. all = GroupSize * Len(groups)
    BY <2>4, <1>a DEF AllCounted
  <2>7. all' = all - GroupSize
    BY <2>1, <2>5, <2>6, <1>a DEF Minus
  <2> QED
    BY <2>3, <2>4, <2>5, <2>6, <2>7, <1>a DEF AllCounted
<1>5. ASSUME NEW t \in Threads,
             \/ TakeFree(t) \/ CountTaken(t) \/ GrowFlag(t) \/ BackUse(t)
             \/ BackClear(t) \/ BackStray(t) \/ SweepStart(t) \/ SweepKeep(t)
             \/ SweepEnd(t) \/ \E x \in held : BackFind(t, x)
      PROVE  AllCounted'
  <2>1. all' = all
    BY <1>5 DEF TakeFree, CountTaken, GrowFlag, BackUse, BackClear, BackStray,
                SweepStart, SweepKeep, SweepEnd, BackFind
  <2>2. Len(groups') = Len(groups)
    <3>1. CASE TakeFree(t) \/ GrowFlag(t) \/ BackClear(t) \/ BackStray(t)
      BY <3>1, <1>e DEF TakeFree, GrowFlag, BackClear, BackStray
    <3> QED
      BY <1>5, <3>1
      DEF CountTaken, BackUse, SweepStart, SweepKeep, SweepEnd, BackFind
  <2>3. \E s \in {"count", "idle", "backUse", "backClear", "sweep"} :
          pc' = [pc EXCEPT ![t] = s]
    BY <1>5 DEF TakeFree, CountTaken, GrowFlag, BackUse, BackClear, BackStray,
                SweepStart, SweepKeep, SweepEnd, BackFind, Goto, Leave, Continue
  <2>4. pc[t] \notin {"growUse", "growAll"}
    BY <1>5 DEF TakeFree, CountTaken, GrowFlag, BackUse, BackClear, BackStray,
                SweepStart, SweepKeep, SweepEnd, BackFind, Enter
  <2>5. Growing' = Growing
    BY <2>3, <2>4, <1>a DEF Growing, CallsOK
  <2> QED
    BY <2>1, <2>2, <2>5, <1>d
<1>6. CASE UNCHANGED <<groups, all, pc>>
  BY <1>6 DEF AllCounted, Growing
<1> QED
  BY <1>1, <1>2, <1>3, <1>4, <1>5, <1>6
  DEF Next, GetBlock, BackBlock, Recovery, vars, BackUnknown

\* Whoever calls recovery and when, getAllCount() reports the blocks of the
\* groups there are, but for the one group a getBlock is about to count.
THEOREM AllCountCorrect ==
  ASSUME Countable
  PROVE  Spec => []AllCountExact
<1>1. Init => CapacityBound /\ AllCounted
  <2> SUFFICES ASSUME Init PROVE CapacityBound /\ AllCounted
    OBVIOUS
  <2>1. Len(groups) = InitialGroups /\ InitialGroups \in Nat
    <3>1. PICK r \in [1 .. InitialGroups -> Regions] :
            groups = [i \in 1 .. InitialGroups |-> NewGroup(r[i])]
      BY DEF Init
    <3> QED
      BY <3>1, InitialGroupsPositive
  <2>2. all = InitialGroups * GroupSize /\ ~ Growing
    BY DEF Init, Growing
  <2>3. InitialGroups * GroupSize = GroupSize * InitialGroups
    BY <2>1, SizesAssumption
  <2>4. GroupSize * InitialGroups \in Nat
    BY <2>1, SizesAssumption
  <2> QED
    BY <2>1, <2>2, <2>3, <2>4 DEF CapacityBound, AllCounted
<1>2. LockInv /\ CapacityBound /\ [Next]_vars => CapacityBound'
  BY CapacityStep
<1>3. /\ LockInv /\ CapacityBound /\ CapacityBound' /\ AllCounted /\ [Next]_vars
      => AllCounted'
  BY AllStep
<1>4. LockInv /\ AllCounted => AllCountExact
  BY GrowingOne DEF LockInv
<1> QED
  BY LockInit, LockStep, <1>1, <1>2, <1>3, <1>4, PTL DEF Spec

-----------------------------------------------------------------------------
(* The number of used blocks *)

\* Calls whose block is counted in m_use_counts though no client owns it.
CountedSteps == {"backUse", "growAll", "growFlag"}

UseInv == IsFiniteSet(held) /\ IsFiniteSet(At(CountedSteps)) /\ UseCountExact

\* A thread that is about to count one more block finds the counter below its
\* limit: the counted blocks and this one are different blocks of the pool.
LEMMA UseRoom ==
  ASSUME Countable, IInv, CapacityBound, UseInv,
         NEW t \in Threads, pc[t] \in {"count", "growUse"}
  PROVE  use < CounterMax
<1> DEFINE x == addr[t]
           S == At(CountedSteps)
           B == {addr[u] : u \in S}
<1>1. /\ groups \in Seq(Group) /\ Distinct(groups) /\ Used = UsedIn(groups)
      /\ OwnUsed /\ OwnHeld /\ OwnUnique
      /\ held \subseteq Address
  BY UsedInGroups, OwnershipPointwise DEF IInv, TypeInv, TypeOK
<1>2. \A u \in S : pc[u] = "backUse"
  <2>1. pc[t] \in LockSteps /\ pc[t] \notin CountedSteps
    BY DEF LockSteps, GrowSteps, CountedSteps
  <2>2. \A u \in Threads : pc[u] \in LockSteps => u = t
    BY <2>1, OneInside DEF IInv
  <2> QED
    BY <2>1, <2>2 DEF At, CountedSteps, LockSteps, GrowSteps
<1>3. /\ S \subseteq Threads
      /\ \A u \in S : addr[u] \in Address /\ Owns(u, addr[u]) /\ addr[u] \in Used
  <2>1. S \subseteq Threads
    BY DEF At
  <2>2. \A u \in S : addr[u] \in Address
    BY <1>2, <2>1 DEF IInv, CallInv
  <2>3. \A u \in S : Owns(u, addr[u])
    BY <1>2 DEF Owns, OwnerSteps, BackSteps
  <2> QED
    BY <2>1, <2>2, <2>3, <1>1 DEF OwnUsed
<1>4. IsFiniteSet(B) /\ Cardinality(B) = Cardinality(S)
  <2> DEFINE f == [u \in S |-> addr[u]]
  <2>1. f \in [S -> B]
    OBVIOUS
  <2>2. \A u, v \in S : f[u] = f[v] => u = v
    BY <1>1, <1>3 DEF OwnUnique
  <2>3. \A b \in B : \E u \in S : f[u] = b
    OBVIOUS
  <2>4. f \in Bijection(S, B)
    <3> HIDE DEF f, B, S
    <3> QED
      BY <2>1, <2>2, <2>3 DEF Bijection, Injection, Surjection, IsInjective
  <2>5. IsFiniteSet(S)
    BY DEF UseInv
  <2> HIDE DEF f, B, S
  <2> QED
    BY <2>4, <2>5, FS_Bijection DEF ExistsBijection
<1>5. IsFiniteSet(held \cup B) /\ Cardinality(held \cup B) = use
  <2>1. held \cap B = {}
    BY <1>1, <1>3 DEF OwnHeld
  <2>2. IsFiniteSet(held) /\ use = Cardinality(held) + Cardinality(S)
    BY DEF UseInv, UseCountExact, CountedSteps
  <2>3. /\ IsFiniteSet(held \cup B)
        /\ Cardinality(held \cup B)
             = Cardinality(held) + Cardinality(B) - Cardinality(held \cap B)
    BY <2>2, <1>4, FS_Union
  <2>4. Cardinality(held \cap B) = 0
    BY <2>1, FS_EmptySet
  <2>5. Cardinality(held) \in Nat /\ Cardinality(B) \in Nat
    BY <2>2, <1>4, FS_CardinalityType
  <2> HIDE DEF B, S
  <2> QED
    BY <2>2, <2>3, <2>4, <2>5, <1>4
<1>6. x \in Address /\ x \notin held \cup B
  <2>1. x \in Address
    BY DEF IInv, CallInv
  <2>2. CASE pc[t] = "count"
    <3>1. Owns(t, x)
      BY <2>2 DEF Owns, OwnerSteps
    <3>2. x \notin held
      BY <3>1, <1>1 DEF OwnHeld
    <3>3. t \notin S
      BY <2>2, <1>2
    <3> QED
      BY <2>1, <3>1, <3>2, <3>3, <1>1, <1>3 DEF OwnUnique
  <2>3. CASE pc[t] = "growUse"
    <3>1. x \notin Used
      BY <2>3, GrowingUnused DEF GrowSteps
    <3>2. held \subseteq Used
      BY <1>1 DEF OwnUsed
    <3> QED
      BY <2>1, <3>1, <3>2, <1>3
  <2> QED
    BY <2>1, <2>2, <2>3
<1>7. (held \cup B) \cup {x} \subseteq BlocksIn(groups)
  <2>1. Used \subseteq BlocksIn(groups)
    BY <1>1, BlockCountOf
  <2>2. held \cup B \subseteq Used
    BY <1>1, <1>3 DEF OwnUsed
  <2>3. x \in BlocksIn(groups)
    <3>1. CASE pc[t] = "count"
      <4>1. x \in Used
        BY <3>1, <1>1, <1>6 DEF OwnUsed, Owns, OwnerSteps
      <4> QED
        BY <4>1, <2>1
    <3>2. CASE pc[t] = "growUse"
      <4>1. Len(groups) > 0 /\ x = <<groups[Len(groups)].start, 0>>
        BY <3>2 DEF IInv, GrowInv, At, GrowSteps
      <4>2. Len(groups) \in DOMAIN groups
        BY <4>1, <1>1
      <4> QED
        BY <4>1, <4>2, SizesAssumption DEF BlocksIn, Starts, Indices
    <3> QED
      BY <3>1, <3>2
  <2> QED
    BY <2>1, <2>2, <2>3
<1>8. /\ IsFiniteSet(BlocksIn(groups))
      /\ Cardinality(BlocksIn(groups)) <= CounterMax
  BY <1>1, BlockCountOf, BlocksCountable
<1>9. Cardinality((held \cup B) \cup {x}) = use + 1
  <2> HIDE DEF B, x
  <2> QED
    BY <1>5, <1>6, FS_AddElement
<1>10. Cardinality((held \cup B) \cup {x}) <= Cardinality(BlocksIn(groups))
  <2> HIDE DEF B, x
  <2> QED
    BY <1>7, <1>8, FS_Subset
<1>11. use \in Nat /\ CounterMax \in Nat
  BY SizesAssumption DEF IInv, TypeOK
<1>12. Cardinality(BlocksIn(groups)) \in Nat
  BY <1>8, FS_CardinalityType
<1> HIDE DEF B, x
<1> QED
  BY <1>8, <1>9, <1>10, <1>11, <1>12

\* Entering or leaving the counted steps changes their number by one.
LEMMA CountedStep ==
  ASSUME CallsOK, IsFiniteSet(At(CountedSteps)),
         NEW t \in Threads, NEW s, NEW a, NEW i, Continue(t, s, a, i)
  PROVE  LET n == Cardinality(At(CountedSteps)) IN
         /\ n \in Nat
         /\ IsFiniteSet(At(CountedSteps)')
         /\ Cardinality(At(CountedSteps)') =
              IF s \in CountedSteps
              THEN IF pc[t] \in CountedSteps THEN n ELSE n + 1
              ELSE IF pc[t] \in CountedSteps THEN n - 1 ELSE n
<1>1. pc'[t] = s /\ \A u \in Threads \ {t} : pc'[u] = pc[u]
  BY ContinueEffect
<1>2. At(CountedSteps)' = IF s \in CountedSteps THEN At(CountedSteps) \cup {t}
                          ELSE At(CountedSteps) \ {t}
  BY <1>1 DEF At
<1>3. t \in At(CountedSteps) <=> pc[t] \in CountedSteps
  BY DEF At
<1>4. Cardinality(At(CountedSteps)) \in Nat
  BY FS_CardinalityType
<1>5. /\ IsFiniteSet(At(CountedSteps) \cup {t})
      /\ Cardinality(At(CountedSteps) \cup {t}) =
           IF pc[t] \in CountedSteps THEN Cardinality(At(CountedSteps))
           ELSE Cardinality(At(CountedSteps)) + 1
  BY <1>3, FS_AddElement
<1>6. /\ IsFiniteSet(At(CountedSteps) \ {t})
      /\ Cardinality(At(CountedSteps) \ {t}) =
           IF pc[t] \in CountedSteps THEN Cardinality(At(CountedSteps)) - 1
           ELSE Cardinality(At(CountedSteps))
  BY <1>3, FS_RemoveElement
<1>7. CASE s \in CountedSteps
  BY <1>2, <1>4, <1>5, <1>7
<1>8. CASE s \notin CountedSteps
  BY <1>2, <1>4, <1>6, <1>8
<1> QED
  BY <1>7, <1>8

LEMMA UseStep ==
  ASSUME Quiescent = TRUE, Countable, IInv, CapacityBound, UseInv, [Next]_vars
  PROVE  UseInv'
<1> DEFINE h == Cardinality(held)
           n == Cardinality(At(CountedSteps))
<1>a. /\ CallsOK /\ use \in 0 .. CounterMax /\ CounterMax \in Nat
      /\ OwnUsed /\ OwnHeld /\ held \subseteq Address
  BY SizesAssumption, OwnershipPointwise DEF IInv, TypeInv, TypeOK, CallsOK
<1>b. /\ IsFiniteSet(held) /\ h \in Nat
      /\ IsFiniteSet(At(CountedSteps)) /\ n \in Nat /\ use = h + n
  BY FS_CardinalityType DEF UseInv, UseCountExact, CountedSteps
<1>c. ASSUME IsFiniteSet(held'), IsFiniteSet(At(CountedSteps)'),
             use' = Cardinality(held') + Cardinality(At(CountedSteps)')
      PROVE  UseInv'
  BY <1>c DEF UseInv, UseCountExact, CountedSteps, At
<1>d. ASSUME NEW t \in Threads, NEW s, NEW a, NEW i, Continue(t, s, a, i)
      PROVE  /\ IsFiniteSet(At(CountedSteps)')
             /\ Cardinality(At(CountedSteps)') =
                  IF s \in CountedSteps
                  THEN IF pc[t] \in CountedSteps THEN n ELSE n + 1
                  ELSE IF pc[t] \in CountedSteps THEN n - 1 ELSE n
  BY <1>a, <1>b, <1>d, CountedStep
<1>e. ASSUME NEW t \in Threads, pc[t] \in CountedSteps PROVE n >= 1
  <2>1. At(CountedSteps) # {}
    BY <1>e DEF At
  <2>2. n # 0
    BY <2>1, <1>b, FS_EmptySet
  <2> HIDE DEF n
  <2> QED
    BY <2>2, <1>b
<1>f. ASSUME NEW x, x \notin held
      PROVE  IsFiniteSet(held \cup {x}) /\ Cardinality(held \cup {x}) = h + 1
  BY <1>b, <1>f, FS_AddElement
<1>g. ASSUME NEW t \in Threads, pc[t] = "count" \/ pc[t] = "growFlag"
      PROVE  addr[t] \notin held
  <2>1. CASE pc[t] = "count"
    BY <2>1, <1>a DEF OwnHeld, Owns, OwnerSteps
  <2>2. CASE pc[t] = "growFlag"
    <3>1. addr[t] \notin Used
      BY <2>2, GrowingUnused DEF GrowSteps
    <3> QED
      BY <3>1, <1>a DEF OwnUsed
  <2> QED
    BY <1>g, <2>1, <2>2
<1> HIDE DEF h, n
<1>1. ASSUME NEW t \in Threads, CountTaken(t) PROVE UseInv'
  <2>1. /\ pc[t] = "count" /\ use' = Plus(use, 1) /\ held' = held \cup {addr[t]}
        /\ Continue(t, "idle", NoBlock, 0)
    BY <1>1 DEF CountTaken, Leave
  <2>2. use' = use + 1
    BY <2>1, <1>a, UseRoom DEF Plus
  <2>3. IsFiniteSet(held') /\ Cardinality(held') = h + 1
    BY <2>1, <1>f, <1>g
  <2>4. IsFiniteSet(At(CountedSteps)') /\ Cardinality(At(CountedSteps)') = n
    BY <2>1, <1>d DEF CountedSteps
  <2> QED
    BY <2>2, <2>3, <2>4, <1>b, <1>c
<1>2. ASSUME NEW t \in Threads, GrowUse(t) PROVE UseInv'
  <2>1. /\ pc[t] = "growUse" /\ use' = Plus(use, 1) /\ held' = held
        /\ Continue(t, "growAll", addr[t], index[t])
    BY <1>2 DEF GrowUse, Goto
  <2>2. use' = use + 1
    BY <2>1, <1>a, UseRoom DEF Plus
  <2>3. IsFiniteSet(At(CountedSteps)') /\ Cardinality(At(CountedSteps)') = n + 1
    BY <2>1, <1>d DEF CountedSteps
  <2> QED
    BY <2>1, <2>2, <2>3, <1>b, <1>c DEF h
<1>3. ASSUME NEW t \in Threads, GrowFlag(t) PROVE UseInv'
  <2>1. /\ pc[t] = "growFlag" /\ use' = use /\ held' = held \cup {addr[t]}
        /\ Continue(t, "idle", NoBlock, 0)
    BY <1>3 DEF GrowFlag, Leave
  <2>2. IsFiniteSet(held') /\ Cardinality(held') = h + 1
    BY <2>1, <1>f, <1>g
  <2>3. IsFiniteSet(At(CountedSteps)') /\ Cardinality(At(CountedSteps)') = n - 1
    BY <2>1, <1>d DEF CountedSteps
  <2> QED
    BY <2>1, <2>2, <2>3, <1>b, <1>c
<1>4. ASSUME NEW t \in Threads, NEW x \in held, BackFind(t, x) PROVE UseInv'
  <2>1. PICK i : Continue(t, "backUse", x, i)
    BY <1>4 DEF BackFind
  <2>2. pc[t] = "idle" /\ use' = use /\ held' = held \ {x}
    BY <1>4 DEF BackFind, Enter
  <2>3. IsFiniteSet(held') /\ Cardinality(held') = h - 1
    BY <2>2, <1>b, FS_RemoveElement DEF h
  <2>4. IsFiniteSet(At(CountedSteps)') /\ Cardinality(At(CountedSteps)') = n + 1
    BY <2>1, <2>2, <1>d DEF CountedSteps
  <2> QED
    BY <2>2, <2>3, <2>4, <1>b, <1>c
<1>5. ASSUME NEW t \in Threads, NEW x \in held PROVE ~ BackUnknown(t, x)
  <2>1. x \in Used
    BY DEF IInv, Ownership
  <2> QED
    BY <2>1 DEF BackUnknown, Used
<1>6. ASSUME NEW t \in Threads, BackUse(t) PROVE UseInv'
  <2>1. /\ pc[t] = "backUse" /\ use' = Minus(use, 1) /\ held' = held
        /\ Continue(t, "backClear", addr[t], index[t])
    BY <1>6 DEF BackUse, Goto
  <2>2. n >= 1
    BY <2>1, <1>e DEF CountedSteps
  <2>3. use' = use - 1
    BY <2>1, <2>2, <1>a, <1>b DEF Minus
  <2>4. IsFiniteSet(At(CountedSteps)') /\ Cardinality(At(CountedSteps)') = n - 1
    BY <2>1, <1>d DEF CountedSteps
  <2> QED
    BY <2>1, <2>3, <2>4, <1>b, <1>c DEF h
<1>7. ASSUME NEW t \in Threads,
             \/ TakeFree(t) \/ Grow(t) \/ GrowAll(t) \/ BackClear(t) \/ BackStray(t)
             \/ Recovery(t)
      PROVE  UseInv'
  <2>1. use' = use /\ held' = held
    BY <1>7 DEF TakeFree, Grow, GrowAll, BackClear, BackStray, Recovery, SweepStart,
                SweepRelease, SweepKeep, SweepEnd
  <2>2. At(CountedSteps)' = At(CountedSteps)
    <3>1. \/ pc' = pc
          \/ \E s \in {"count", "growUse", "idle", "sweep"} :
               pc' = [pc EXCEPT ![t] = s] /\ pc[t] \notin CountedSteps
          \/ pc' = [pc EXCEPT ![t] = "growFlag"] /\ pc[t] = "growAll"
      BY <1>7 DEF TakeFree, Grow, GrowAll, BackClear, BackStray, Recovery, SweepStart,
                  SweepRelease, SweepKeep, SweepEnd, Enter, Continue, Goto, Leave,
                  CountedSteps
    <3>2. DOMAIN pc = Threads
      BY <1>a DEF CallsOK
    <3> QED
      BY <3>1, <3>2 DEF At, CountedSteps
  <2> QED
    BY <2>1, <2>2, <1>b, <1>c DEF h, n
<1>8. CASE UNCHANGED vars
  <2>1. UNCHANGED <<use, held, pc>>
    BY <1>8 DEF vars
  <2>2. At(CountedSteps)' = At(CountedSteps)
    BY <2>1 DEF At
  <2> QED
    BY <2>1, <2>2, <1>b, <1>c DEF h, n
<1> QED
  BY <1>1, <1>2, <1>3, <1>4, <1>5, <1>6, <1>7, <1>8 DEF Next, GetBlock, BackBlock

\* Whenever recovery waits for the returns under way, m_use_counts is the number
\* of blocks the clients own, but for the calls under way, and it never wraps.
THEOREM UseCountCorrect ==
  ASSUME Quiescent = TRUE, Countable
  PROVE  Spec => []UseCountExact
<1>1. Init => UseInv
  <2> SUFFICES ASSUME Init PROVE UseInv
    OBVIOUS
  <2>1. held = {} /\ At(CountedSteps) = {} /\ use = 0
    BY DEF Init, At, CountedSteps
  <2> QED
    BY <2>1, FS_EmptySet DEF UseInv, UseCountExact, CountedSteps
<1>2. IInv /\ CapacityBound /\ UseInv /\ [Next]_vars => UseInv'
  BY UseStep
<1>3. UseInv => UseCountExact
  BY DEF UseInv
<1> QED
  BY Invariance, CapacityCorrect, <1>1, <1>2, <1>3, PTL DEF Spec

===============================================================================
