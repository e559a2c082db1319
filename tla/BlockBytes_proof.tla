---------------------------- MODULE BlockBytes_proof ----------------------------
(***************************************************************************)
(* What the arithmetic of memory.cc gives for every block size and group   *)
(* size whose product a uint32_t can hold, wherever the groups lie: blocks *)
(* do not overlap, lie in their group, and backBlock recovers the group    *)
(* and index getBlock started from.  The pool built on it (BlockBytes)     *)
(* then gives out blocks that share no byte, in whatever order blocks are  *)
(* taken and given back and groups come and go.                            *)
(***************************************************************************)
EXTENDS BlockBytes, TLAPS

-----------------------------------------------------------------------------
(* The arithmetic *)

LEMMA SmallMod ==
  ASSUME NEW a \in Nat, NEW m \in Nat, a < m
  PROVE  a % m = a
OBVIOUS

\* Products grow with their factors; block i ends before block i + 1.
LEMMA Monotone ==
  ASSUME NEW i \in Nat, NEW n \in Nat, NEW s \in Nat, i + 1 <= n
  PROVE  i * s + s <= n * s
<1>1. PICK k \in Nat : n = i + 1 + k
  <2>1. n - (i + 1) \in Nat /\ n = i + 1 + (n - (i + 1))
    OBVIOUS
  <2> QED BY <2>1
<1>2. n * s = i * s + s + k * s
  BY <1>1
<1>3. k * s \in Nat /\ i * s \in Nat
  OBVIOUS
<1> QED BY <1>2, <1>3

LEMMA DivideBack ==
  ASSUME NEW i \in Nat, NEW s \in Nat \ {0}
  PROVE  (i * s) \div s = i
OBVIOUS

\* The length of a group is its number of blocks times their size, unwrapped.
LEMMA GroupLength ==
  ASSUME NEW s \in Nat, NEW n \in Nat, s * n < Word
  PROVE  GroupBytes(s, n) = n * s /\ Times(n, s) = n * s
<1>1. s * n \in Nat /\ s * n = n * s
  OBVIOUS
<1> QED BY <1>1, SmallMod, WordAssumption DEF GroupBytes, Times

\* Every byte of a block getBlock returns was allocated for its group.
THEOREM BlockInGroup ==
  ASSUME NEW s \in Nat \ {0}, NEW n \in Nat \ {0}, s * n < Word,
         NEW start \in Nat, NEW i \in 0 .. n - 1
  PROVE  /\ start <= Address(start, s, i)
         /\ Address(start, s, i) + s <= start + GroupBytes(s, n)
<1>1. i \in Nat /\ i + 1 <= n /\ i * s \in Nat
  OBVIOUS
<1>2. i * s + s <= n * s /\ n * s \in Nat
  BY <1>1, Monotone
<1>3. GroupBytes(s, n) = n * s
  BY GroupLength
<1> QED BY <1>1, <1>2, <1>3 DEF Address

\* Two blocks of a group have no byte in common.
THEOREM BlocksDisjoint ==
  ASSUME NEW s \in Nat \ {0}, NEW start \in Nat, NEW i \in Nat, NEW j \in Nat, i < j
  PROVE  Address(start, s, i) + s <= Address(start, s, j)
<1>1. i * s + s <= j * s
  BY Monotone
<1>2. i * s \in Nat /\ j * s \in Nat
  OBVIOUS
<1> QED BY <1>1, <1>2 DEF Address

\* backBlock clears the flag getBlock has set: hasBlockHelp finds the block in its
\* group, the division gives its index, and no group elsewhere on the heap claims it.
THEOREM RoundTrip ==
  ASSUME NEW s \in Nat \ {0}, NEW n \in Nat \ {0}, s * n < Word, n < Word,
         NEW start \in Nat, NEW i \in 0 .. n - 1
  PROVE  /\ Within(start, s, n, Address(start, s, i))
         /\ IndexOf(start, s, Address(start, s, i)) = i
         /\ \A other \in Nat :
              other + GroupBytes(s, n) <= start \/ start + GroupBytes(s, n) <= other =>
                ~Within(other, s, n, Address(start, s, i))
<1>1. i \in Nat /\ i < Word /\ Word \in Nat /\ i * s \in Nat
  BY WordAssumption
<1>2. GroupBytes(s, n) = n * s /\ Times(n, s) = n * s /\ n * s \in Nat
  BY GroupLength
<1>3. start <= Address(start, s, i) /\ Address(start, s, i) + s <= start + n * s
  BY <1>2, BlockInGroup
<1>4. Address(start, s, i) \in Nat
  BY <1>1 DEF Address
<1>5. Within(start, s, n, Address(start, s, i))
  BY <1>2, <1>3, <1>4 DEF Within
<1>6. IndexOf(start, s, Address(start, s, i)) = i
  <2>1. Address(start, s, i) - start = i * s
    BY <1>1 DEF Address
  <2>2. (Address(start, s, i) - start) \div s = i
    BY <1>1, <2>1, DivideBack
  <2> QED BY <1>1, <2>2, SmallMod DEF IndexOf
<1>7. ASSUME NEW other \in Nat,
             other + GroupBytes(s, n) <= start \/ start + GroupBytes(s, n) <= other
      PROVE  ~Within(other, s, n, Address(start, s, i))
  BY <1>2, <1>3, <1>4, <1>7 DEF Within
<1> QED BY <1>5, <1>6, <1>7

-----------------------------------------------------------------------------
(* Groups and blocks of the pool *)

LEMMA Numbers ==
  ASSUME Wrapping = FALSE, TypeOK
  PROVE  /\ block_size \in Nat \ {0} /\ block_group_size \in Nat \ {0}
         /\ block_size * block_group_size \in Nat
         /\ block_size * block_group_size < Word /\ block_group_size < Word
         /\ GroupBytes(block_size, block_group_size) = block_size * block_group_size
         /\ GroupBytes(block_size, block_group_size) \in Nat \ {0}
<1>1. /\ block_size \in Nat \ {0} /\ block_group_size \in Nat \ {0}
      /\ block_size * block_group_size < Word /\ block_group_size < Word
  BY SizesAssumption, WrappingAssumption DEF TypeOK
<1>2. block_size * block_group_size \in Nat \ {0}
  BY <1>1
<1>3. GroupBytes(block_size, block_group_size) = block_size * block_group_size
  BY <1>1, <1>2, SmallMod, WordAssumption DEF GroupBytes, Times
<1> QED
  BY <1>1, <1>2, <1>3

\* Places of groups are intervals, which are disjoint when one ends before the
\* other starts.
LEMMA IntervalsApart ==
  ASSUME NEW a \in Nat, NEW b \in Nat, NEW n \in Nat \ {0},
         Place(a, n) \cap Place(b, n) = {}
  PROVE  a + n <= b \/ b + n <= a
<1>1. a + n <= b \/ b + n <= a \/ b \in Place(a, n) \/ a \in Place(b, n)
  BY DEF Place
<1>2. a \in Place(a, n) /\ b \in Place(b, n)
  BY DEF Place
<1> QED
  BY <1>1, <1>2

LEMMA GroupTyped ==
  ASSUME TypeOK, NEW k \in DOMAIN groups
  PROVE  /\ groups[k] \in Group /\ groups[k].start \in Nat
         /\ groups[k].flags \in [Indices -> BOOLEAN]
<1>1. groups[k] \in Group
  BY DEF TypeOK
<1> QED
  BY <1>1, BoundsAssumption DEF Group

LEMMA GroupsApart ==
  ASSUME Wrapping = FALSE, TypeOK, GroupsMade,
         NEW j \in DOMAIN groups, NEW k \in DOMAIN groups, j # k
  PROVE  \/ groups[j].start + GroupBytes(block_size, block_group_size) <= groups[k].start
         \/ groups[k].start + GroupBytes(block_size, block_group_size) <= groups[j].start
<1>1. groups[j].start \in Nat /\ groups[k].start \in Nat
  BY GroupTyped
<1> QED
  BY <1>1, Numbers, IntervalsApart DEF GroupsMade, Placed

\* Different blocks of the pool share no byte, and a block lies in its group.
LEMMA PoolBlocks ==
  ASSUME Wrapping = FALSE, TypeOK, GroupsMade,
         NEW k \in DOMAIN groups, NEW i \in Indices
  PROVE  /\ groups[k].start \in Nat /\ BlockAddress(k, i) \in Nat
         /\ groups[k].start <= BlockAddress(k, i)
         /\ BlockAddress(k, i) + block_size
              <= groups[k].start + GroupBytes(block_size, block_group_size)
         /\ \A j \in DOMAIN groups, h \in Indices :
              k # j \/ i # h =>
                \/ BlockAddress(k, i) + block_size <= BlockAddress(j, h)
                \/ BlockAddress(j, h) + block_size <= BlockAddress(k, i)
<1> DEFINE n == GroupBytes(block_size, block_group_size)
<1>1. ASSUME NEW j \in DOMAIN groups, NEW h \in Indices
      PROVE  /\ groups[j].start \in Nat /\ BlockAddress(j, h) \in Nat
             /\ groups[j].start <= BlockAddress(j, h)
             /\ BlockAddress(j, h) + block_size <= groups[j].start + n
  <2>1. groups[j].start \in Nat
    BY GroupTyped
  <2>2. /\ groups[j].start <= BlockAddress(j, h)
        /\ BlockAddress(j, h) + block_size <= groups[j].start + n
    BY <2>1, Numbers, BlockInGroup DEF BlockAddress, Indices
  <2>3. h * block_size \in Nat
    <3>0. block_group_size \in Nat /\ block_size \in Nat
      BY Numbers
    <3>1. h \in Nat
      BY <3>0 DEF Indices
    <3> QED
      BY <3>0, <3>1
  <2>4. BlockAddress(j, h) \in Nat
    BY <2>1, <2>3 DEF BlockAddress, Address
  <2> QED
    BY <2>1, <2>2, <2>4
<1>2. ASSUME NEW j \in DOMAIN groups, NEW h \in Indices, k # j \/ i # h
      PROVE  \/ BlockAddress(k, i) + block_size <= BlockAddress(j, h)
             \/ BlockAddress(j, h) + block_size <= BlockAddress(k, i)
  <2>1. CASE k # j
    <3>1. groups[k].start + n <= groups[j].start \/ groups[j].start + n <= groups[k].start
      BY <2>1, GroupsApart
    <3>2. n \in Nat /\ block_size \in Nat
      BY Numbers
    <3> HIDE DEF n
    <3> QED
      BY <3>1, <3>2, <1>1
  <2>2. CASE k = j
    <3>1. i \in Nat /\ h \in Nat /\ (i < h \/ h < i)
      BY <2>2, <1>2, Numbers DEF Indices
    <3> QED
      BY <3>1, <2>2, <1>1, Numbers, BlocksDisjoint DEF BlockAddress
  <2> QED
    BY <2>1, <2>2
<1> QED
  BY <1>1, <1>2

\* The address names the block.
AddressesDiffer ==
  \A k, j \in DOMAIN groups : \A i, h \in Indices :
    BlockAddress(k, i) = BlockAddress(j, h) => k = j /\ i = h

LEMMA OneBlock == Wrapping = FALSE /\ TypeOK /\ GroupsMade => AddressesDiffer
<1> SUFFICES ASSUME Wrapping = FALSE, TypeOK, GroupsMade,
                    NEW k \in DOMAIN groups, NEW j \in DOMAIN groups,
                    NEW i \in Indices, NEW h \in Indices,
                    BlockAddress(k, i) = BlockAddress(j, h)
             PROVE  k = j /\ i = h
  BY DEF AddressesDiffer
<1>1. BlockAddress(k, i) \in Nat /\ block_size \in Nat \ {0}
  BY PoolBlocks, Numbers
<1>2. k # j \/ i # h =>
        \/ BlockAddress(k, i) + block_size <= BlockAddress(j, h)
        \/ BlockAddress(j, h) + block_size <= BlockAddress(k, i)
  BY PoolBlocks
<1> QED
  BY <1>1, <1>2

\* Two blocks that are given out share no byte, and each lies in a group.
LEMMA HeldApart == Wrapping = FALSE /\ IInv => BlocksApart
<1> SUFFICES ASSUME Wrapping = FALSE, IInv PROVE BlocksApart
  OBVIOUS
<1> USE DEF IInv
<1>1. ASSUME NEW a \in held
      PROVE  \E k \in DOMAIN groups : BlockAt(a) \subseteq Bytes(groups[k])
  <2>1. PICK k \in DOMAIN groups, i \in Indices : a = BlockAddress(k, i)
    BY DEF HeldFlagged
  <2>2. /\ a \in Nat /\ groups[k].start \in Nat /\ groups[k].start <= a
        /\ a + block_size <= groups[k].start + groups[k].bytes
        /\ groups[k].bytes \in Nat /\ block_size \in Nat
    BY <2>1, PoolBlocks, Numbers DEF GroupsMade
  <2> QED
    BY <2>2 DEF BlockAt, Bytes
<1>2. ASSUME NEW a \in held, NEW b \in held, a # b
      PROVE  BlockAt(a) \cap BlockAt(b) = {}
  <2>1. PICK k \in DOMAIN groups, i \in Indices : a = BlockAddress(k, i)
    BY DEF HeldFlagged
  <2>2. PICK j \in DOMAIN groups, h \in Indices : b = BlockAddress(j, h)
    BY DEF HeldFlagged
  <2>3. a + block_size <= b \/ b + block_size <= a
    BY <2>1, <2>2, <1>2, PoolBlocks
  <2>4. a \in Nat /\ b \in Nat /\ block_size \in Nat
    BY <2>1, <2>2, PoolBlocks, Numbers
  <2> QED
    BY <2>3, <2>4 DEF BlockAt
<1> QED
  BY <1>1, <1>2 DEF BlocksApart

-----------------------------------------------------------------------------
(* The pool *)

\* A group that operator new has just placed.
LEMMA NewGroupTyped ==
  ASSUME TypeOK, NEW start \in 0 .. Heap - 1
  PROVE  /\ NewGroup(start) \in Group
         /\ NewGroup(start).start = start
         /\ NewGroup(start).bytes = GroupBytes(block_size, block_group_size)
         /\ \A i \in Indices : NewGroup(start).flags[i] = FALSE
<1>1. GroupBytes(block_size, block_group_size) \in 0 .. Word - 1
  BY SizesAssumption, WordAssumption DEF GroupBytes, Times, TypeOK
<1>2. [i \in Indices |-> FALSE] \in [Indices -> BOOLEAN]
  OBVIOUS
<1> QED
  BY <1>1, <1>2 DEF NewGroup, Group

LEMMA InvInit == Wrapping = FALSE /\ Init => IInv
<1> SUFFICES ASSUME Wrapping = FALSE, Init PROVE IInv
  OBVIOUS
<1>1. GroupCount \in Nat
  <2>1. BlockCount \in Nat /\ block_group_size \in Nat \ {0}
    BY BoundsAssumption, SizesAssumption DEF Init
  <2> QED
    BY <2>1 DEF GroupCount
<1>2. block_size \in BlockSizes /\ block_group_size \in GroupSizes
  BY DEF Init
<1>3. PICK starts \in [1 .. GroupCount -> 0 .. Heap - 1] :
        groups = [k \in 1 .. GroupCount |-> NewGroup(starts[k])]
  BY DEF Init
<1>4. ASSUME NEW k \in 1 .. GroupCount
      PROVE  /\ groups[k] \in Group
             /\ groups[k].bytes = GroupBytes(block_size, block_group_size)
             /\ \A i \in Indices : groups[k].flags[i] = FALSE
  <2>1. GroupBytes(block_size, block_group_size) \in 0 .. Word - 1
    BY <1>2, SizesAssumption, WordAssumption DEF GroupBytes, Times
  <2>2. groups[k] = NewGroup(starts[k])
    BY <1>3
  <2>3. [i \in Indices |-> FALSE] \in [Indices -> BOOLEAN]
    OBVIOUS
  <2> QED
    BY <1>3, <2>1, <2>2, <2>3 DEF NewGroup, Group
<1>5. groups \in Seq(Group) /\ DOMAIN groups = 1 .. GroupCount
  <2>1. groups = [k \in 1 .. GroupCount |-> groups[k]]
    BY <1>3
  <2>2. groups \in [1 .. GroupCount -> Group]
    BY <2>1, <1>4
  <2> QED
    BY <1>1, <2>2
<1>6. TypeOK
  BY <1>2, <1>5 DEF TypeOK, Init
<1>7. GroupsMade
  BY <1>4, <1>5 DEF GroupsMade, Init
<1>8. HeldFlagged /\ FlagsExact
  BY <1>4, <1>5 DEF HeldFlagged, FlagsExact, Init
<1> QED
  BY <1>6, <1>7, <1>8 DEF IInv

\* getBlock and backBlock change one flag and the block it stands for.
LEMMA FlagStep ==
  ASSUME Wrapping = FALSE, IInv,
         NEW k \in DOMAIN groups, NEW i \in Indices, NEW v \in BOOLEAN,
         groups' = [groups EXCEPT ![k].flags[i] = v],
         held' = IF v THEN held \cup {BlockAddress(k, i)} ELSE held \ {BlockAddress(k, i)},
         UNCHANGED <<block_size, block_group_size, index>>
  PROVE  IInv'
<1> USE DEF IInv
<1>1. Indices' = Indices /\ Group' = Group
  BY DEF Indices, Group
<1>2. ASSUME NEW j \in DOMAIN groups
      PROVE  /\ groups'[j] \in Group
             /\ groups'[j].start = groups[j].start /\ groups'[j].bytes = groups[j].bytes
             /\ \A h \in Indices :
                  groups'[j].flags[h] = IF j = k /\ h = i THEN v ELSE groups[j].flags[h]
  <2>1. groups[j] \in Group
    BY GroupTyped
  <2> QED
    BY <2>1 DEF Group
<1>3. groups' \in Seq(Group) /\ DOMAIN groups' = DOMAIN groups
  BY <1>2 DEF TypeOK
<1>4. ASSUME NEW j \in DOMAIN groups, NEW h \in Indices
      PROVE  BlockAddress(j, h)' = BlockAddress(j, h)
  BY <1>2 DEF BlockAddress
<1>5. BlockAddress(k, i) \in 0 .. Heap - 1
  <2>1. Place(groups[k].start, groups[k].bytes) \subseteq 0 .. Heap - 1
    BY DEF GroupsMade, Placed
  <2>2. /\ groups[k].bytes \in Nat \ {0} /\ block_size \in Nat \ {0}
        /\ groups[k].start \in Nat /\ BlockAddress(k, i) \in Nat
        /\ groups[k].start <= BlockAddress(k, i)
        /\ BlockAddress(k, i) + block_size <= groups[k].start + groups[k].bytes
    BY PoolBlocks, Numbers DEF GroupsMade
  <2>3. BlockAddress(k, i) \in Place(groups[k].start, groups[k].bytes)
    BY <2>2 DEF Place
  <2> QED
    BY <2>1, <2>3
<1>6. TypeOK'
  BY <1>1, <1>3, <1>5 DEF TypeOK
<1>7. GroupsMade'
  <2>1. \A j \in DOMAIN groups :
          groups'[j].start = groups[j].start /\ groups'[j].bytes = groups[j].bytes
    BY <1>2
  <2>2. GroupsMade
    OBVIOUS
  <2> HIDE DEF IInv
  <2>3. Placed(groups)'
    BY <1>3, <2>1, <2>2 DEF GroupsMade, Placed, Place
  <2> QED
    BY <1>3, <2>1, <2>2, <2>3 DEF GroupsMade, GroupBytes
<1>8. HeldFlagged'
  <2> SUFFICES ASSUME NEW a \in held'
               PROVE  \E j \in DOMAIN groups, h \in Indices :
                        a = BlockAddress(j, h) /\ groups'[j].flags[h]
    BY <1>1, <1>3, <1>4 DEF HeldFlagged
  <2>1. CASE v /\ a = BlockAddress(k, i)
    BY <2>1, <1>2
  <2>2. CASE ~(v /\ a = BlockAddress(k, i))
    <3>1. a \in held /\ (~v => a # BlockAddress(k, i))
      BY <2>2
    <3>2. PICK j \in DOMAIN groups, h \in Indices :
            a = BlockAddress(j, h) /\ groups[j].flags[h]
      BY <3>1 DEF HeldFlagged
    <3>3. ~(j = k /\ h = i)
      BY <2>2, <3>1, <3>2
    <3> QED
      BY <3>2, <3>3, <1>2
  <2> QED
    BY <2>1, <2>2
<1>9. FlagsExact'
  <2> SUFFICES ASSUME NEW j \in DOMAIN groups, NEW h \in Indices
               PROVE  groups'[j].flags[h] <=> BlockAddress(j, h) \in held'
    BY <1>1, <1>3, <1>4 DEF FlagsExact
  <2>1. groups[j].flags[h] <=> BlockAddress(j, h) \in held
    BY DEF FlagsExact
  <2>2. BlockAddress(j, h) = BlockAddress(k, i) => j = k /\ h = i
    BY OneBlock DEF AddressesDiffer
  <2>3. groups'[j].flags[h] = IF j = k /\ h = i THEN v ELSE groups[j].flags[h]
    BY <1>2
  <2>4. CASE v = TRUE
    BY <2>1, <2>2, <2>3, <2>4
  <2>5. CASE v = FALSE
    BY <2>1, <2>2, <2>3, <2>5
  <2> QED
    BY <2>4, <2>5
<1> QED
  BY <1>6, <1>7, <1>8, <1>9

\* getBlock from a new group: it lies apart from the others, and its other blocks
\* are free.
LEMMA NewStep ==
  ASSUME Wrapping = FALSE, IInv, GetNew
  PROVE  IInv'
<1> USE DEF IInv
<1>1. PICK start \in 0 .. Heap - 1 :
        /\ groups' = Append(groups, [NewGroup(start) EXCEPT !.flags[0] = TRUE])
        /\ held' = held \cup {start}
  BY DEF GetNew
<1>2. UNCHANGED <<block_size, block_group_size, index>> /\ Placed(groups)'
  BY DEF GetNew, Placed, Place
<1>3. Indices' = Indices /\ Group' = Group /\ 0 \in Indices
  <2>1. block_group_size \in Nat \ {0}
    BY Numbers
  <2> QED
    BY <1>2, <2>1 DEF Indices, Group
<1> DEFINE g == [NewGroup(start) EXCEPT !.flags[0] = TRUE]
<1>0. PICK n \in Nat : n = Len(groups) + 1
  BY DEF TypeOK
<1>4. /\ g \in Group /\ g.start = start
      /\ g.bytes = GroupBytes(block_size, block_group_size)
      /\ \A i \in Indices : g.flags[i] = (i = 0)
  BY <1>3, NewGroupTyped DEF Group
<1> HIDE DEF g
<1>5. /\ groups \in Seq(Group) /\ groups' = Append(groups, g)
      /\ DOMAIN groups = 1 .. n - 1 /\ n \in Nat \ {0}
  BY <1>1, <1>0 DEF TypeOK, g
<1>6. /\ groups' \in Seq(Group) /\ DOMAIN groups' = 1 .. n
      /\ groups'[n] = g /\ \A j \in DOMAIN groups : groups'[j] = groups[j]
  BY <1>4, <1>5
<1>7. TypeOK'
  BY <1>1, <1>2, <1>3, <1>6 DEF TypeOK
<1>8. GroupsMade'
  BY <1>2, <1>4, <1>5, <1>6 DEF GroupsMade
<1>9. ASSUME NEW j \in DOMAIN groups, NEW h \in Indices
      PROVE  BlockAddress(j, h)' = BlockAddress(j, h) /\ j \in DOMAIN groups'
  BY <1>2, <1>5, <1>6 DEF BlockAddress
<1>10. BlockAddress(n, 0)' = start
  <2>0. block_size \in Nat
    BY Numbers
  <2>1. start \in Nat /\ block_size \in Nat
    BY <2>0, BoundsAssumption
  <2>2. 0 * block_size = 0
    BY <2>1
  <2> QED
    BY <1>2, <1>4, <1>6, <2>1, <2>2 DEF BlockAddress, Address
<1>11. AddressesDiffer'
  <2>1. TypeOK' /\ GroupsMade' /\ (Wrapping = FALSE)'
    BY <1>7, <1>8
  <2> QED
    BY <2>1, OneBlock, PTL
<1>12. ASSUME NEW j \in DOMAIN groups', NEW h \in Indices, j # n \/ h # 0
       PROVE  BlockAddress(j, h)' # start
  <2>2. 0 \in Indices' /\ h \in Indices' /\ n \in DOMAIN groups'
    BY <1>3, <1>5, <1>6
  <2> QED
    BY <1>10, <1>12, <2>2, <1>11 DEF AddressesDiffer
<1>13. HeldFlagged'
  <2> SUFFICES ASSUME NEW a \in held'
               PROVE  \E j \in DOMAIN groups', h \in Indices :
                        a = BlockAddress(j, h)' /\ groups'[j].flags[h]
    BY <1>3 DEF HeldFlagged
  <2>1. CASE a = start
    <3>1. a = BlockAddress(n, 0)' /\ groups'[n].flags[0]
      BY <2>1, <1>3, <1>4, <1>6, <1>10
    <3> QED
      BY <3>1, <1>3, <1>5, <1>6
  <2>2. CASE a \in held
    <3>1. PICK j \in DOMAIN groups, h \in Indices :
            a = BlockAddress(j, h) /\ groups[j].flags[h]
      BY <2>2 DEF HeldFlagged
    <3>2. /\ a = BlockAddress(j, h)' /\ groups'[j].flags[h]
          /\ j \in DOMAIN groups' /\ h \in Indices
      BY <3>1, <1>6, <1>9
    <3> QED
      BY <3>2
  <2> QED
    BY <2>1, <2>2, <1>1
<1>14. FlagsExact'
  <2> SUFFICES ASSUME NEW j \in DOMAIN groups', NEW h \in Indices
               PROVE  groups'[j].flags[h] <=> BlockAddress(j, h)' \in held'
    BY <1>3 DEF FlagsExact
  <2>1. CASE j = n
    <3>1. groups'[j].flags[h] <=> h = 0
      BY <2>1, <1>4, <1>6
    <3>2. h = 0 => BlockAddress(j, h)' = start
      BY <2>1, <1>10
    <3>3. BlockAddress(j, h)' \notin held
      <4> SUFFICES ASSUME BlockAddress(j, h)' \in held PROVE FALSE
        OBVIOUS
      <4>1. PICK k \in DOMAIN groups, i \in Indices : BlockAddress(j, h)' = BlockAddress(k, i)
        BY DEF HeldFlagged
      <4>2. BlockAddress(k, i)' = BlockAddress(j, h)' /\ k \in DOMAIN groups' /\ k # n
        BY <4>1, <1>5, <1>6, <1>9
      <4> QED
        BY <4>2, <2>1, <1>3, <1>11 DEF AddressesDiffer
    <3> QED
      BY <3>1, <3>2, <3>3, <1>1, <1>12
  <2>2. CASE j # n
    <3>1. j \in DOMAIN groups
      BY <2>2, <1>5, <1>6
    <3> QED
      BY <2>2, <3>1, <1>1, <1>6, <1>9, <1>12 DEF FlagsExact
  <2> QED
    BY <2>1, <2>2
<1> QED
  BY <1>7, <1>8, <1>13, <1>14

\* backBlock finds the block it is given: its group, by its address, and its index.
LEMMA BackStep ==
  ASSUME Wrapping = FALSE, IInv, NEW a \in held, BackBlock(a)
  PROVE  IInv'
<1> USE DEF IInv
<1>1. PICK j \in DOMAIN groups, h \in Indices : a = BlockAddress(j, h)
  BY DEF HeldFlagged
<1>2. /\ block_size \in Nat \ {0} /\ block_group_size \in Nat \ {0}
      /\ block_size * block_group_size < Word /\ block_group_size < Word
      /\ h \in 0 .. block_group_size - 1 /\ groups[j].start \in Nat
  BY Numbers, GroupTyped DEF Indices
<1>3. /\ Within(groups[j].start, block_size, block_group_size, a)
      /\ IndexOf(groups[j].start, block_size, a) = h
      /\ \A other \in Nat :
           \/ other + GroupBytes(block_size, block_group_size) <= groups[j].start
           \/ groups[j].start + GroupBytes(block_size, block_group_size) <= other
           => ~Within(other, block_size, block_group_size, a)
  BY <1>1, <1>2, RoundTrip DEF BlockAddress
<1>4. ASSUME NEW k \in DOMAIN groups, k # j
      PROVE  ~Within(groups[k].start, block_size, block_group_size, a)
  BY <1>3, <1>4, GroupsApart, GroupTyped
<1>5. ASSUME NEW k \in DOMAIN groups PROVE GroupOf(k, a) <=> k = j
  <2>1. DOMAIN groups \subseteq Nat /\ 1 .. k - 1 \subseteq DOMAIN groups
    BY DEF TypeOK
  <2> QED
    BY <2>1, <1>3, <1>4 DEF GroupOf
<1>6. /\ held' = held \ {BlockAddress(j, h)}
      /\ groups' = [groups EXCEPT ![j].flags[h] = FALSE]
      /\ UNCHANGED <<block_size, block_group_size, index>>
  BY <1>1, <1>3, <1>5 DEF BackBlock
<1> QED
  BY <1>6, FlagStep

LEMMA GetFreeStep ==
  ASSUME Wrapping = FALSE, IInv, GetFree
  PROVE  IInv'
<1>1. PICK k \in DOMAIN groups, i \in Indices :
        /\ groups' = [groups EXCEPT ![k].flags[i] = TRUE]
        /\ held' = held \cup {BlockAddress(k, i)}
  BY DEF GetFree, BlockAddress
<1>2. UNCHANGED <<block_size, block_group_size, index>>
  BY DEF GetFree
<1> QED
  BY <1>1, <1>2, FlagStep

\* recovery frees a group none of whose blocks is given out; the last group, with
\* its memory and flags, is then at another place of the vector.
LEMMA ReleaseStep ==
  ASSUME Wrapping = FALSE, IInv, Release,
         UNCHANGED <<block_size, block_group_size, held>>
  PROVE  IInv'
<1> USE DEF IInv
<1>1. PICK n \in Nat : n = Len(groups)
  BY DEF TypeOK
<1>2. PICK i \in 1 .. n : i = index
  BY <1>1 DEF Release, TypeOK
<1>3. /\ DOMAIN groups = 1 .. n /\ n > 0
      /\ groups' = [k \in 1 .. n - 1 |-> IF k = i THEN groups[n] ELSE groups[k]]
      /\ \A h \in Indices : ~groups[i].flags[h]
  BY <1>1, <1>2 DEF Release, SwapPop, Unused, TypeOK
<1> DEFINE From(k) == IF k = i THEN n ELSE k
<1>4. /\ DOMAIN groups' = 1 .. n - 1
      /\ \A k \in 1 .. n - 1 :
           groups'[k] = groups[From(k)] /\ From(k) \in 1 .. n /\ From(k) # i
  BY <1>3
<1>5. \A j, k \in 1 .. n - 1 : From(j) = From(k) => j = k
  OBVIOUS
<1>6. \A k \in 1 .. n : k # i => \E j \in 1 .. n - 1 : From(j) = k
  <2> SUFFICES ASSUME NEW k \in 1 .. n, k # i PROVE \E j \in 1 .. n - 1 : From(j) = k
    OBVIOUS
  <2>1. CASE k = n
    <3>1. i \in 1 .. n - 1 /\ From(i) = k
      BY <2>1
    <3> QED
      BY <3>1
  <2>2. CASE k # n
    <3>1. k \in 1 .. n - 1 /\ From(k) = k
      BY <2>2
    <3> QED
      BY <3>1
  <2> QED
    BY <2>1, <2>2
<1>7. Indices' = Indices /\ Group' = Group
  BY DEF Indices, Group
<1> HIDE DEF From
<1>8. ASSUME NEW k \in 1 .. n - 1, NEW h \in Indices
      PROVE  BlockAddress(k, h)' = BlockAddress(From(k), h)
  BY <1>4 DEF BlockAddress
<1>9. TypeOK'
  <2>1. \A k \in 1 .. n - 1 : groups'[k] \in Group
    BY <1>3, <1>4, GroupTyped
  <2>2. groups' \in Seq(Group)
    <3>1. groups' = [k \in 1 .. n - 1 |-> groups'[k]] /\ n - 1 \in Nat
      BY <1>3
    <3>2. groups' \in [1 .. n - 1 -> Group]
      BY <2>1, <3>1
    <3> QED
      BY <3>1, <3>2
  <2>3. index' = index
    BY DEF Release
  <2> QED
    BY <1>7, <2>2, <2>3 DEF TypeOK
<1>10. GroupsMade'
  <2>1. ASSUME NEW k \in 1 .. n - 1
        PROVE  /\ groups'[k].bytes = GroupBytes(block_size, block_group_size)
               /\ Place(groups'[k].start, groups'[k].bytes) \subseteq 0 .. Heap - 1
    BY <1>3, <1>4 DEF GroupsMade, Placed
  <2>2. ASSUME NEW j \in 1 .. n - 1, NEW k \in 1 .. n - 1, j # k
        PROVE  Place(groups'[j].start, groups'[j].bytes)
                 \cap Place(groups'[k].start, groups'[k].bytes) = {}
    <3>1. From(j) \in DOMAIN groups /\ From(k) \in DOMAIN groups /\ From(j) # From(k)
      BY <2>2, <1>3, <1>4, <1>5
    <3>2. \A x, y \in DOMAIN groups :
            x # y => Place(groups[x].start, groups[x].bytes)
                       \cap Place(groups[y].start, groups[y].bytes) = {}
      BY DEF GroupsMade, Placed
    <3> QED
      BY <3>1, <3>2, <1>4
  <2> QED
    BY <2>1, <2>2, <1>4 DEF GroupsMade, Placed
<1>11. HeldFlagged'
  <2> SUFFICES ASSUME NEW a \in held
               PROVE  \E k \in 1 .. n - 1, h \in Indices :
                        a = BlockAddress(k, h)' /\ groups'[k].flags[h]
    BY <1>4, <1>7 DEF HeldFlagged
  <2>1. PICK j \in 1 .. n, h \in Indices : a = BlockAddress(j, h) /\ groups[j].flags[h]
    BY <1>3 DEF HeldFlagged
  <2>2. j # i
    BY <2>1, <1>3
  <2>3. PICK k \in 1 .. n - 1 : From(k) = j
    BY <2>2, <1>6
  <2>4. a = BlockAddress(k, h)' /\ groups'[k].flags[h]
    BY <2>1, <2>3, <1>4, <1>8
  <2> QED
    BY <2>4
<1>12. FlagsExact'
  <2> SUFFICES ASSUME NEW k \in 1 .. n - 1, NEW h \in Indices
               PROVE  groups'[k].flags[h] <=> BlockAddress(k, h)' \in held
    BY <1>4, <1>7 DEF FlagsExact
  <2>1. groups[From(k)].flags[h] <=> BlockAddress(From(k), h) \in held
    BY <1>3, <1>4 DEF FlagsExact
  <2> QED
    BY <2>1, <1>4, <1>8
<1> QED
  BY <1>9, <1>10, <1>11, <1>12

LEMMA InvStep == Wrapping = FALSE /\ IInv /\ [Next]_vars => IInv'
<1> SUFFICES ASSUME Wrapping = FALSE, IInv, [Next]_vars PROVE IInv'
  OBVIOUS
<1>1. ASSUME UNCHANGED <<block_size, block_group_size, groups, held>>, index' \in Nat
      PROVE  IInv'
  <2>1. Indices' = Indices /\ Group' = Group
    BY <1>1 DEF Indices, Group
  <2>2. TypeOK'
    BY <1>1, <2>1 DEF IInv, TypeOK
  <2>3. GroupsMade'
    BY <1>1 DEF IInv, GroupsMade, Placed
  <2>4. HeldFlagged' /\ FlagsExact'
    BY <1>1, <2>1 DEF IInv, HeldFlagged, FlagsExact, BlockAddress
  <2> QED
    BY <2>2, <2>3, <2>4 DEF IInv
<1>2. CASE GetFree
  BY <1>2, GetFreeStep
<1>3. CASE GetNew
  BY <1>3, NewStep
<1>4. ASSUME NEW a \in held, BackBlock(a) PROVE IInv'
  BY <1>4, BackStep
<1>5. CASE Recovery
  <2>1. UNCHANGED <<block_size, block_group_size, held>>
    BY <1>5 DEF Recovery
  <2>2. CASE Release
    BY <2>1, <2>2, ReleaseStep
  <2>3. CASE Begin \/ Keep \/ End
    BY <2>1, <2>3, <1>1 DEF Begin, Keep, End, IInv, TypeOK
  <2> QED
    BY <2>2, <2>3, <1>5 DEF Recovery
<1>6. CASE UNCHANGED vars
  BY <1>6, <1>1 DEF vars, IInv, TypeOK
<1> QED
  BY <1>2, <1>3, <1>4, <1>5, <1>6 DEF Next

\* The groups and flags, for every size that does not wrap.
THEOREM Invariance ==
  ASSUME Wrapping = FALSE
  PROVE  Spec => []IInv
<1>1. Init => IInv
  BY InvInit
<1>2. IInv /\ [Next]_vars => IInv'
  BY InvStep
<1> QED
  BY <1>1, <1>2, PTL DEF Spec

\* Blocks that are given out share no byte and lie in the memory of the pool.
THEOREM BlocksApartCorrect ==
  ASSUME Wrapping = FALSE
  PROVE  Spec => []BlocksApart
<1>1. IInv => BlocksApart
  BY HeldApart
<1> QED
  BY <1>1, Invariance, PTL

\* backBlock clears the flag that getBlock set: the flags are those of the blocks
\* that are given out.
THEOREM FlagsExactCorrect ==
  ASSUME Wrapping = FALSE
  PROVE  Spec => []FlagsExact
<1>1. IInv => FlagsExact
  BY DEF IInv
<1> QED
  BY <1>1, Invariance, PTL

===============================================================================
