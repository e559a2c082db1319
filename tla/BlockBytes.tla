------------------------------- MODULE BlockBytes -------------------------------
(***************************************************************************)
(* The address arithmetic of memory.cc.  MemoryPool names a block by its    *)
(* group and index; here a block is the address that getBlock computes and *)
(* backBlock takes apart again, a group is a piece of the heap, and        *)
(* products of two uint32_t are taken modulo Word.  One thread: how calls  *)
(* interleave is MemoryPool's subject.                                     *)
(***************************************************************************)
EXTENDS BlockArith, Sequences

CONSTANTS
  Heap,        \* bound: addresses are 0 .. Heap - 1
  MaxGroups,   \* bound: number of groups
  BlockCount,  \* number of blocks asked of the constructor
  BlockSizes,  \* the block sizes, in bytes, and group sizes, in blocks, that a
  GroupSizes,  \* pool may be made with
  Wrapping     \* TRUE: a group may be as large as Word bytes, or larger

ASSUME BoundsAssumption ==
  Heap \in Nat /\ MaxGroups \in Nat /\ BlockCount \in Nat
ASSUME SizesAssumption ==
  /\ BlockSizes \subseteq Nat \ {0} /\ GroupSizes \subseteq Nat \ {0}
  /\ \A s \in BlockSizes, n \in GroupSizes : s < Word /\ n < Word
ASSUME WrappingAssumption ==
  /\ Wrapping \in BOOLEAN
  /\ ~Wrapping => \A s \in BlockSizes, n \in GroupSizes : s * n < Word

VARIABLES
  block_size, block_group_size, \* m_block_size and m_block_group_size
  groups,                       \* m_block_groups: m_start, bytes allocated, m_use_flags
  held,                         \* addresses returned by getBlock and not given back
  index                         \* the group recovery looks at; 0 outside recovery

vars == <<block_size, block_group_size, groups, held, index>>

-----------------------------------------------------------------------------
Indices == 0 .. block_group_size - 1

\* The bytes of a block, and of a group; operator new returns a place of its own
\* for 0 bytes too.
BlockAt(a) == a .. a + block_size - 1
Bytes(g)   == g.start .. g.start + g.bytes - 1
Place(start, bytes) == start .. start + (IF bytes = 0 THEN 0 ELSE bytes - 1)

-----------------------------------------------------------------------------
\* Mutant: one flag more than the group has blocks.
NewGroupExtra(start) ==
  [start |-> start, bytes |-> GroupBytes(block_size, block_group_size),
   flags |-> [i \in 0 .. block_group_size |-> FALSE]]

NewGroup(start) ==
  [start |-> start, bytes |-> GroupBytes(block_size, block_group_size),
   flags |-> [i \in Indices |-> FALSE]]

\* The groups lie where operator new can put them: none on another.
Placed(gs) ==
  /\ \A k \in DOMAIN gs : Place(gs[k].start, gs[k].bytes) \subseteq 0 .. Heap - 1
  /\ \A j, k \in DOMAIN gs :
       j # k => Place(gs[j].start, gs[j].bytes) \cap Place(gs[k].start, gs[k].bytes) = {}

\* The constructor makes at least one group.
GroupCount == BlockCount \div block_group_size + 1

Init ==
  /\ block_size \in BlockSizes /\ block_group_size \in GroupSizes
  /\ \E starts \in [1 .. GroupCount -> 0 .. Heap - 1] :
       groups = [k \in 1 .. GroupCount |-> NewGroup(starts[k])]
  /\ Placed(groups)
  /\ held = {} /\ index = 0

\* Block i of group k is free, and the first such.
FirstFree(k, i) ==
  /\ ~groups[k].flags[i]
  /\ \A j \in DOMAIN groups : \A h \in Indices : ~groups[j].flags[h] => j > k \/ (j = k /\ h >= i)

\* getBlock from a group.
GetFree ==
  /\ index = 0
  /\ \E k \in DOMAIN groups : \E i \in Indices :
       /\ FirstFree(k, i)
       /\ groups' = [groups EXCEPT ![k].flags[i] = TRUE]
       /\ held' = held \cup {Address(groups[k].start, block_size, i)}
  /\ UNCHANGED <<block_size, block_group_size, index>>

\* getBlock from a new group.
GetNew ==
  /\ index = 0 /\ Len(groups) < MaxGroups
  /\ \A k \in DOMAIN groups : \A i \in Indices : groups[k].flags[i]
  /\ \E start \in 0 .. Heap - 1 :
       /\ groups' = Append(groups, [NewGroup(start) EXCEPT !.flags[0] = TRUE])
       /\ held' = held \cup {start}
  /\ Placed(groups')
  /\ UNCHANGED <<block_size, block_group_size, index>>

\* hasBlockHelp: the first group address a is in.
GroupOf(k, a) ==
  LET In(j) == Within(groups[j].start, block_size, block_group_size, a)
  IN In(k) /\ \A j \in 1 .. k - 1 : ~In(j)

BackBlock(a) ==
  /\ index = 0
  /\ held' = held \ {a}
  /\ \/ \E k \in DOMAIN groups :
          /\ GroupOf(k, a)
          /\ groups' = [groups EXCEPT ![k].flags[IndexOf(groups[k].start, block_size, a)] = FALSE]
     \/ /\ \A k \in DOMAIN groups : ~GroupOf(k, a)
        /\ UNCHANGED groups
  /\ UNCHANGED <<block_size, block_group_size, index>>

\* swap and pop_back.
SwapPop(gs, i) == [k \in 1 .. Len(gs) - 1 |-> IF k = i THEN gs[Len(gs)] ELSE gs[k]]

\* Mutant: only the first flag of a group is looked at.
UnusedFirst(k) == ~groups[k].flags[0]

Unused(k) == \A i \in Indices : ~groups[k].flags[i]

\* recovery, one iteration of its loop a step: a group without a block in use is
\* freed, and the last takes its place.
Begin == index = 0 /\ index' = 1 /\ UNCHANGED groups

Keep ==
  /\ index \in DOMAIN groups /\ ~Unused(index)
  /\ index' = index + 1 /\ UNCHANGED groups

Release ==
  /\ index \in DOMAIN groups /\ Unused(index)
  /\ groups' = SwapPop(groups, index) /\ UNCHANGED index

End == index > Len(groups) /\ index' = 0 /\ UNCHANGED groups

Recovery ==
  /\ Begin \/ Keep \/ Release \/ End
  /\ UNCHANGED <<block_size, block_group_size, held>>

Next ==
  \/ GetFree \/ GetNew
  \/ \E a \in held : BackBlock(a)
  \/ Recovery

Spec == Init /\ [][Next]_vars

-----------------------------------------------------------------------------
(* Properties *)

Group == [start : 0 .. Heap - 1, bytes : 0 .. Word - 1, flags : [Indices -> BOOLEAN]]

TypeOK ==
  /\ block_size \in BlockSizes /\ block_group_size \in GroupSizes
  /\ groups \in Seq(Group)
  /\ held \subseteq 0 .. Heap - 1
  /\ index \in Nat

\* Every block of every group, by the group and its index in it.
BlockAddress(k, i) == Address(groups[k].start, block_size, i)

GroupsMade ==
  /\ \A k \in DOMAIN groups : groups[k].bytes = GroupBytes(block_size, block_group_size)
  /\ Placed(groups)

\* A block that is given out has its flag in some group: recovery frees none that
\* holds it.
HeldFlagged ==
  \A a \in held : \E k \in DOMAIN groups : \E i \in Indices :
    a = BlockAddress(k, i) /\ groups[k].flags[i]

\* A block that is given out lies in the memory of the pool, and no byte of it is
\* in another block that is given out.
BlocksApart ==
  /\ \A a \in held : \E k \in DOMAIN groups : BlockAt(a) \subseteq Bytes(groups[k])
  /\ \A a, b \in held : a # b => BlockAt(a) \cap BlockAt(b) = {}

\* backBlock finds the flag that getBlock set: the flags are those of the blocks
\* that are given out, in whatever order they are given back and wherever the
\* groups lie.
FlagsExact ==
  \A k \in DOMAIN groups : \A i \in Indices :
    groups[k].flags[i] <=> BlockAddress(k, i) \in held

IInv == TypeOK /\ GroupsMade /\ HeldFlagged /\ FlagsExact
=============================================================================
