---------------------------- MODULE CoctxSwap_proof ----------------------------
(***************************************************************************)
(* coctx_swap is a switch of asymmetric coroutines: theorems about         *)
(* CoctxSwap for every number of coroutines, stack size and depth of       *)
(* calls.  The argument follows the instructions: what the first half has  *)
(* saved (Saving) and the second half has loaded (Loading) so far, with    *)
(* the words each context keeps on its own stack meanwhile (AllStopped).   *)
(***************************************************************************)
EXTENDS CoctxSwap, SequenceTheorems, TLAPS

-----------------------------------------------------------------------------
(* The instructions *)

LEMMA Table ==
  /\ Len(Saves) = 17 /\ Len(Program) = 33 /\ DOMAIN Program = 1 .. 33
  /\ \A p \in 1 .. 17 : Program[p] = Saves[p]
  /\ \A p \in 18 .. 33 : Program[p] = Loads[p - 17]
<1> DEFINE S == {Saves[i] : i \in 1 .. 17} \cup {Loads[i] : i \in 1 .. 16}
<1>1. Saves \in Seq(S) /\ Len(Saves) = 17
  <2>1. ASSUME NEW T, \A i \in 1 .. 17 : Saves[i] \in T PROVE Saves \in Seq(T)
    BY <2>1 DEF Saves
  <2>2. Len(Saves) = 17
    BY DEF Saves
  <2> QED
    BY <2>1, <2>2
<1>2. Loads \in Seq(S) /\ Len(Loads) = 16
  <2>1. ASSUME NEW T, \A i \in 1 .. 16 : Loads[i] \in T PROVE Loads \in Seq(T)
    BY <2>1 DEF Loads
  <2>2. Len(Loads) = 16
    BY DEF Loads
  <2> QED
    BY <2>1, <2>2
<1> HIDE DEF S
<1>3. /\ Program \in Seq(S) /\ Len(Program) = Len(Saves) + Len(Loads)
      /\ \A i \in 1 .. Len(Saves) + Len(Loads) :
           Program[i] = IF i <= Len(Saves) THEN Saves[i] ELSE Loads[i - Len(Saves)]
  BY <1>1, <1>2, ConcatProperties DEF Program
<1> QED
  BY <1>1, <1>2, <1>3

LEMMA Lengths == Len(Saves) = 17 /\ Len(Program) = 33
BY Table

LEMMA SaveRows ==
  /\ Program[1] = <<"lea", "rax", 0>> /\ Program[2] = <<"save", "rax", 13>>
  /\ Program[3] = <<"save", "rbx", 12>> /\ Program[4] = <<"save", "rcx", 11>>
  /\ Program[5] = <<"save", "rdx", 10>> /\ Program[6] = <<"deref", "rax", 0>>
  /\ Program[7] = <<"save", "rax", 9>> /\ Program[8] = <<"save", "rsi", 8>>
  /\ Program[9] = <<"save", "rdi", 7>> /\ Program[10] = <<"save", "rbp", 6>>
  /\ Program[11] = <<"save", "r8", 5>> /\ Program[12] = <<"save", "r9", 4>>
  /\ Program[13] = <<"save", "r12", 3>> /\ Program[14] = <<"save", "r13", 2>>
  /\ Program[15] = <<"save", "r14", 1>> /\ Program[16] = <<"save", "r15", 0>>
  /\ Program[17] = <<"clear", "rax", 0>>
BY Table DEF Saves, Save, Other

LEMMA LoadRows ==
  /\ Program[18] = <<"load", "rbp", 6>> /\ Program[19] = <<"load", "rsp", 13>>
  /\ Program[20] = <<"load", "r15", 0>> /\ Program[21] = <<"load", "r14", 1>>
  /\ Program[22] = <<"load", "r13", 2>> /\ Program[23] = <<"load", "r12", 3>>
  /\ Program[24] = <<"load", "r9", 4>> /\ Program[25] = <<"load", "r8", 5>>
  /\ Program[26] = <<"load", "rdi", 7>> /\ Program[27] = <<"load", "rdx", 10>>
  /\ Program[28] = <<"load", "rcx", 11>> /\ Program[29] = <<"load", "rbx", 12>>
  /\ Program[30] = <<"skip", "rax", 0>> /\ Program[31] = <<"push", "rax", 0>>
  /\ Program[32] = <<"load", "rsi", 8>> /\ Program[33] = <<"ret", "rax", 0>>
BY Table DEF Loads, Load, Other

\* The instruction that is fetched is one of the table.
LEMMA Fetched ==
  ASSUME TypeOK, NEW op, Fetch(op)
  PROVE  ip \in 1 .. 33 /\ Program[ip][1] = op
<1>1. ip \in 0 .. 33
  BY Lengths DEF TypeOK
<1> QED
  BY <1>1 DEF Fetch

\* The stack pointer and the return address are saved.
LEMMA SaveAt ==
  IsSave(2) /\ Program[2][3] = 13 /\ IsSave(7) /\ Program[7][3] = 9
<1>1. 2 \in DOMAIN Program /\ 7 \in DOMAIN Program
  BY Table
<1>2. Program[2] = <<"save", "rax", 13>> /\ Program[7] = <<"save", "rax", 9>>
  BY SaveRows
<1> QED
  BY <1>1, <1>2 DEF IsSave

\* Which instructions there are, and what they work on.
LEMMA Instructions ==
  \A p \in 1 .. 33 :
    /\ Program[p][1] = "save" <=> p \in 2 .. 16 \ {6}
    /\ Program[p][1] = "load" <=> p \in 18 .. 32 \ {30, 31}
    /\ Program[p][1] = "lea" <=> p = 1
    /\ Program[p][1] = "deref" <=> p = 6
    /\ Program[p][1] = "clear" <=> p = 17
    /\ Program[p][1] = "skip" <=> p = 30
    /\ Program[p][1] = "push" <=> p = 31
    /\ Program[p][1] = "ret" <=> p = 33
    /\ Program[p][2] \in Registers /\ Program[p][3] \in 0 .. 13
BY SaveRows, LoadRows DEF Registers

\* A register has a slot of its own.
LEMMA SaveSlots ==
  \A p \in 2 .. 16 \ {6} :
    /\ Program[p][3] = 13 <=> p = 2
    /\ Program[p][3] = 9 <=> p = 7
    /\ Program[p][2] = "rax" <=> p \in {2, 7}
    /\ Program[p][2] # "rsp"
    /\ \A q \in 2 .. 16 \ {6} : p # q => Program[p][3] # Program[q][3]
BY SaveRows

LEMMA LoadSlots ==
  \A p \in 18 .. 32 \ {30, 31} :
    /\ Program[p][3] = 13 <=> p = 19
    /\ Program[p][3] # 9
    /\ Program[p][2] = "rsp" <=> p = 19
    /\ Program[p][2] = "rsi" <=> p = 32
    /\ \A q \in 18 .. 32 \ {30, 31} : p # q => Program[p][2] # Program[q][2]
BY LoadRows

\* Every register a function must keep is saved to the slot it is loaded from.
LEMMA SavedAndLoaded ==
  \A r \in CalleeSaved :
    \E p \in 2 .. 16 \ {6}, q \in 18 .. 32 \ {30, 31} :
      /\ Program[p][2] = r /\ Program[q][2] = r
      /\ Program[p][3] = Program[q][3] /\ Program[p][3] \notin {13, 9}
<1>1. Program[3][2] = "rbx" /\ Program[29][2] = "rbx" /\ Program[3][3] = 12 /\ Program[29][3] = 12
  BY SaveRows, LoadRows
<1>2. Program[10][2] = "rbp" /\ Program[18][2] = "rbp" /\ Program[10][3] = 6 /\ Program[18][3] = 6
  BY SaveRows, LoadRows
<1>3. Program[13][2] = "r12" /\ Program[23][2] = "r12" /\ Program[13][3] = 3 /\ Program[23][3] = 3
  BY SaveRows, LoadRows
<1>4. Program[14][2] = "r13" /\ Program[22][2] = "r13" /\ Program[14][3] = 2 /\ Program[22][3] = 2
  BY SaveRows, LoadRows
<1>5. Program[15][2] = "r14" /\ Program[21][2] = "r14" /\ Program[15][3] = 1 /\ Program[21][3] = 1
  BY SaveRows, LoadRows
<1>6. Program[16][2] = "r15" /\ Program[20][2] = "r15" /\ Program[16][3] = 0 /\ Program[20][3] = 0
  BY SaveRows, LoadRows
<1> QED
  BY <1>1, <1>2, <1>3, <1>4, <1>5, <1>6 DEF CalleeSaved

-----------------------------------------------------------------------------
(* The stacks *)

LEMMA Monotone ==
  ASSUME NEW i \in Nat, NEW n \in Nat, NEW s \in Nat, i + 1 <= n
  PROVE  i * s + s <= n * s
<1>1. PICK k \in Nat : n = i + 1 + k
  <2>1. n - (i + 1) \in Nat /\ n = i + 1 + (n - (i + 1))
    OBVIOUS
  <2> QED
    BY <2>1
<1>2. n * s = i * s + s + k * s
  BY <1>1
<1>3. k * s \in Nat /\ i * s \in Nat
  OBVIOUS
<1> QED
  BY <1>2, <1>3

\* Where the stack of a coroutine ends.
LEMMA StackEnd ==
  ASSUME NEW c \in Coroutines
  PROVE  /\ Low(c) \in Nat /\ Low(c) + Stride <= N * Stride /\ N * Stride \in Nat
         /\ Top(c) \in Nat /\ Top(c) % 2 = 0
         /\ Top(c) = Low(c) + Size \/ Top(c) = Low(c) + Size - 1
         /\ Base(c) = Top(c) + 1
<1>1. c \in Nat /\ c - 1 \in Nat /\ c - 1 + 1 <= N /\ N \in Nat /\ Stride \in Nat /\ Size \in Nat \ {0}
  BY SizesAssumption DEF Coroutines
<1>2. Low(c) \in Nat /\ N * Stride \in Nat
  BY <1>1 DEF Low
<1>3. Low(c) + Stride <= N * Stride
  BY <1>1, Monotone DEF Low
<1>4. Top(c) = Low(c) + Size - ((Low(c) + Size) % 2)
  BY <1>1, <1>2 DEF Top
<1>5. Base(c) = Top(c) + 1
  BY <1>1 DEF Base, Main
<1> HIDE DEF Top, Base
<1>6. Top(c) \in Nat /\ Top(c) % 2 = 0 /\ (Top(c) = Low(c) + Size \/ Top(c) = Low(c) + Size - 1)
  BY <1>1, <1>2, <1>4
<1> QED
  BY <1>2, <1>3, <1>5, <1>6

\* The words in which a context keeps its locals and return address are words of
\* the memory, and no two contexts share one: the one word a coroutine writes
\* above its block is the lowest of the next block, which is never reached.
LEMMA Areas ==
  /\ MainTop \in Nat
  /\ \A c \in Contexts : Base(c) \in Nat /\ Base(c) <= MainTop /\ Base(c) - Depth - 2 >= 0
  /\ \A c, d \in Contexts :
       c # d => Base(c) <= Base(d) - Depth - 2 \/ Base(d) <= Base(c) - Depth - 2
<1>1. Depth \in Nat /\ Size \in Nat /\ Stride \in Nat /\ N \in Nat /\ Size > Depth + 2 /\ Stride >= Size
  BY SizesAssumption
<1>2. N * Stride \in Nat /\ MainTop = 2 * (N * Stride + Depth + 2) /\ Base(Main) = MainTop
  BY <1>1 DEF MainTop, Base
<1>3. Contexts = Coroutines \cup {Main}
  BY <1>1 DEF Contexts, Coroutines, Main
<1>4. ASSUME NEW c \in Coroutines
      PROVE  /\ Low(c) \in Nat /\ Base(c) \in Nat
             /\ Low(c) <= Base(c) - Depth - 3 /\ Base(c) <= Low(c) + Stride + 1
             /\ Base(c) <= N * Stride + 1
  BY <1>1, StackEnd
<1>5. ASSUME NEW c \in Coroutines, NEW d \in Coroutines, c < d
      PROVE  Base(c) <= Base(d) - Depth - 2
  <2>1. c - 1 \in Nat /\ d - 1 \in Nat /\ (c - 1) + 1 <= d - 1
    BY <1>1, <1>5 DEF Coroutines
  <2>2. Low(c) + Stride <= Low(d)
    BY <2>1, <1>1, Monotone DEF Low
  <2> QED
    BY <2>2, <1>1, <1>4
<1> HIDE DEF Base, MainTop
<1>6. ASSUME NEW c \in Coroutines PROVE Base(c) <= Base(Main) - Depth - 2
  BY <1>1, <1>2, <1>4
<1>7. MainTop \in Nat /\ Base(Main) - Depth - 2 >= 0
  BY <1>1, <1>2
<1>8. ASSUME NEW c \in Coroutines, NEW d \in Coroutines, c # d PROVE c < d \/ d < c
  BY <1>1, <1>8 DEF Coroutines
<1>9. \A c \in Contexts : Base(c) \in Nat /\ Base(c) <= MainTop /\ Base(c) - Depth - 2 >= 0
  BY <1>1, <1>2, <1>3, <1>4, <1>6, <1>7
<1> QED
  BY <1>3, <1>5, <1>6, <1>7, <1>8, <1>9

\* The stack a context left lies in its own words, above the return address.
LEMMA FrameInArea ==
  ASSUME NEW c \in Contexts, FrameKept(c)
  PROVE  /\ left[c].frame \subseteq Area(c)
         /\ \E sp \in Area(c) :
              /\ left[c].reg["rsp"] = Word(sp + 1) /\ left[c].reg["rsp"].n - 1 = sp
              /\ sp \notin left[c].frame
<1>1. PICK d \in 1 .. Depth + 1 :
        left[c].frame = Base(c) - d .. Base(c) - 1 /\ left[c].reg["rsp"] = Word(Base(c) - d)
  BY DEF FrameKept
<1>2. Base(c) \in Nat /\ Depth \in Nat
  BY Areas, SizesAssumption
<1>3. left[c].reg["rsp"].n = Base(c) - d
  BY <1>1 DEF Word, Value
<1>4. Base(c) - d - 1 \in Area(c) /\ Base(c) - d - 1 + 1 = Base(c) - d
  BY <1>2 DEF Area
<1> QED
  BY <1>1, <1>2, <1>3, <1>4 DEF Area

LEMMA AreasApart ==
  /\ \A c \in Contexts : /\ Area(c) \subseteq 0 .. MainTop - 1 /\ Area(c) \subseteq Words
                         /\ \A a \in Area(c) : a \in Nat /\ a + 1 \in Words /\ a + 1 - 1 = a
  /\ \A c, d \in Contexts : c # d => Area(c) \cap Area(d) = {}
BY Areas, SizesAssumption DEF Area, Words

\* A context that does not run stays as it is when its own words and its coctx do.
LEMMA StaysKept ==
  ASSUME NEW c \in Contexts, FrameKept(c), left'[c] = left[c],
         \A a \in left[c].frame : mem'[a] = mem[a]
  PROVE  FrameKept(c)'
BY DEF FrameKept

LEMMA StaysStopped ==
  ASSUME NEW c \in Contexts, Stopped(c), left'[c] = left[c], coctx'[c] = coctx[c],
         Saved(c) => \A a \in left[c].frame : mem'[a] = mem[a]
  PROVE  Stopped(c)'
<1>1. CASE Saved(c)
  <2>1. FrameKept(c)'
    BY <1>1, StaysKept DEF Saved
  <2>2. Saved(c)'
    BY <1>1, <2>1 DEF Saved, ReturnPlaces, IsSave
  <2> QED
    BY <2>2 DEF Stopped
<1>2. CASE ~Saved(c)
  BY <1>2 DEF Stopped, Boot
<1> QED
  BY <1>1, <1>2

\* The context that a switch under way goes to.
LEMMA Target ==
  ASSUME IInv, ip # 0
  PROVE  /\ goal \in Contexts /\ at.cor \in Contexts /\ goal # at.cor
         /\ \/ Saved(goal)
            \/ goal \in Coroutines /\ coctx[goal] = Boot(goal)
         /\ coctx[goal][kRETAddr].cor = goal
         /\ \E sp \in Area(goal) : coctx[goal][kRSP] = Word(sp) /\ coctx[goal][kRSP].n = sp
<1>1. goal \in Contexts /\ at.cor \in Contexts /\ goal # at.cor /\ ip \in 0 .. Len(Program)
  BY DEF IInv, TypeOK, TargetReady
<1>2. Stopped(goal)
  BY <1>1 DEF IInv, AllStopped
<1>3. coctx[goal][kRETAddr].kind # "zero"
  BY DEF IInv, TargetReady
<1>4. CASE Saved(goal)
  <2>1. coctx[goal][kRETAddr].cor = goal
    BY <1>4 DEF Saved, ReturnPlaces, Code, Value
  <2>2. PICK sp \in Area(goal) : left[goal].reg["rsp"].n - 1 = sp
    BY <1>1, <1>4, FrameInArea DEF Saved
  <2>3. coctx[goal][kRSP] = Word(sp)
    BY <1>4, <2>2 DEF Saved
  <2> QED
    BY <1>1, <1>4, <2>1, <2>3 DEF Word, Value
<1>5. CASE goal # Main /\ coctx[goal] = Boot(goal)
  <2>1. goal \in Coroutines
    BY <1>1, <1>5, SizesAssumption DEF Contexts, Coroutines, Main
  <2>2. coctx[goal][kRETAddr] = Code("entry", goal) /\ coctx[goal][kRSP] = Word(Top(goal))
    BY <1>5 DEF Boot, kRETAddr, kRSP, kRBP
  <2>3. Top(goal) \in Area(goal)
    <3>1. Top(goal) \in Nat /\ Base(goal) = Top(goal) + 1
      BY <2>1, StackEnd
    <3>2. Depth \in Nat
      BY SizesAssumption
    <3> QED
      BY <3>1, <3>2 DEF Area
  <2> QED
    BY <1>1, <1>5, <2>1, <2>2, <2>3 DEF Code, Word, Value
<1>6. ~(coctx[goal][kRETAddr] = Zero)
  BY <1>3 DEF Zero, Value
<1> QED
  BY <1>2, <1>4, <1>5, <1>6 DEF Stopped

-----------------------------------------------------------------------------
(* The steps *)

LEMMA ValueTypes ==
  /\ Zero \in Values
  /\ \A a \in Words : Word(a) \in Values
  /\ \A c \in Contexts : /\ Coctx(c) \in Values /\ This(c) \in Values
                         /\ Code("entry", c) \in Values /\ ReturnPlaces(c) \subseteq Values
                         /\ \A r \in Registers \cup {"local"}, n \in 0 .. 1 : Value(r, c, n) \in Values
  /\ Area(Main) \subseteq Words /\ Main \in Contexts
<1>1. MainTop \in Nat /\ MainTop >= 1 /\ Main \in Contexts
  <2>1. N \in Nat /\ Stride \in Nat /\ Depth \in Nat
    BY SizesAssumption
  <2>2. N * Stride \in Nat
    BY <2>1
  <2> QED
    BY <2>1, <2>2 DEF MainTop, Contexts, Main
<1>2. {0, 1} \subseteq Words /\ 0 .. 1 \subseteq Words
  BY <1>1 DEF Words
<1> USE DEF Value, Values
<1>3. Zero \in Values /\ \A a \in Words : Word(a) \in Values
  BY <1>1, <1>2 DEF Zero, Word
<1>4. ASSUME NEW c \in Contexts
      PROVE  /\ Coctx(c) \in Values /\ This(c) \in Values
             /\ Code("entry", c) \in Values /\ ReturnPlaces(c) \subseteq Values
             /\ \A r \in Registers \cup {"local"}, n \in 0 .. 1 : Value(r, c, n) \in Values
  <2>1. Coctx(c) \in Values /\ This(c) \in Values
    BY <1>2 DEF Coctx, This
  <2>2. \A q \in Places : Code(q, c) \in Values
    BY <1>2 DEF Code, Places
  <2>3. ReturnPlaces(c) \subseteq Values /\ Code("entry", c) \in Values
    BY <2>2 DEF ReturnPlaces, Places
  <2>4. \A r \in Registers \cup {"local"}, n \in 0 .. 1 : Value(r, c, n) \in Values
    BY <1>2
  <2> QED
    BY <2>1, <2>3, <2>4
<1>5. Area(Main) \subseteq Words
  BY <1>1, AreasApart DEF Words
<1> QED
  BY <1>1, <1>3, <1>4, <1>5

\* What an instruction leaves alone.
LEMMA Typed ==
  ASSUME TypeOK, UNCHANGED <<at, goal, left, epoch>>,
         reg' \in [Registers -> Values], mem' \in [Words -> Values],
         coctx' \in [Contexts -> [0 .. 13 -> Values]], ip' \in 0 .. 33
  PROVE  TypeOK'
BY Lengths DEF TypeOK

\* A context calls coctx_swap: its words are written, and no other's.
LEMMA CallStep ==
  ASSUME IInv, NEW from \in Contexts, NEW to \in Contexts, NEW place,
         from = Main <=> to # Main, Code(place, from) \in ReturnPlaces(from),
         coctx[to][kRETAddr].kind \in {"main", "entry", "yield"},
         CallSwap(from, to, place)
  PROVE  IInv'
<1> USE DEF IInv
<1>1. PICK d \in 1 .. Depth + 1, sp \in Area(from) :
        /\ sp = Base(from) - d - 1
        /\ Runs(from)
        /\ reg' = [r \in Registers |->
                     IF r = "rdi" THEN Coctx(from)
                     ELSE IF r = "rsi" THEN Coctx(to)
                     ELSE IF r = "rsp" THEN Word(sp)
                     ELSE Value(r, from, epoch[from])]
        /\ mem' = [a \in Words |-> IF a \in Base(from) - d .. Base(from) - 1 THEN Local(from)
                                   ELSE IF a = sp THEN Code(place, from) ELSE mem[a]]
        /\ left' = [left EXCEPT ![from] =
             [reg |-> [reg' EXCEPT !["rsp"] = Word(sp + 1)],
              frame |-> Base(from) - d .. Base(from) - 1, tag |-> Local(from)]]
        /\ epoch' = [epoch EXCEPT ![from] = 1 - @]
        /\ goal' = to /\ ip' = 1
        /\ UNCHANGED <<coctx, at>>
  <2>1. PICK d \in 1 .. Depth + 1 :
        /\ Runs(from)
        /\ reg' = [r \in Registers |->
                     IF r = "rdi" THEN Coctx(from)
                     ELSE IF r = "rsi" THEN Coctx(to)
                     ELSE IF r = "rsp" THEN Word(Base(from) - d - 1)
                     ELSE Value(r, from, epoch[from])]
        /\ mem' = [a \in Words |-> IF a \in Base(from) - d .. Base(from) - 1 THEN Local(from)
                                   ELSE IF a = Base(from) - d - 1 THEN Code(place, from) ELSE mem[a]]
        /\ left' = [left EXCEPT ![from] =
             [reg |-> [reg' EXCEPT !["rsp"] = Word(Base(from) - d - 1 + 1)],
              frame |-> Base(from) - d .. Base(from) - 1, tag |-> Local(from)]]
        /\ epoch' = [epoch EXCEPT ![from] = 1 - @]
        /\ goal' = to /\ ip' = 1
        /\ UNCHANGED <<coctx, at>>
    BY DEF CallSwap
  <2>2. Base(from) - d - 1 \in Area(from)
    BY Areas, SizesAssumption DEF Area
  <2> QED
    BY <2>1, <2>2
<1>2. /\ sp + 1 = Base(from) - d /\ Base(from) - d .. Base(from) - 1 \subseteq Area(from)
      /\ sp \notin Base(from) - d .. Base(from) - 1 /\ Area(from) \subseteq Words /\ sp + 1 \in Words
      /\ sp \in Nat /\ sp + 1 - 1 = sp
  <2>1. Base(from) \in Nat /\ Depth \in Nat /\ sp = Base(from) - d - 1
    BY <1>1, Areas, SizesAssumption
  <2>2. Base(from) - d .. Base(from) - 1 \subseteq Area(from)
    BY <2>1 DEF Area
  <2> QED
    BY <1>1, <2>1, <2>2, AreasApart
<1>3. ip = 0 /\ at.cor = from /\ at'.cor = from /\ goal' = to /\ ip' = 1
  BY <1>1 DEF Runs
<1>4. Local(from) \in Values /\ Code(place, from) \in Values
  BY ValueTypes DEF Local, TypeOK
<1>5. reg' \in [Registers -> Values]
  <2>1. epoch[from] \in 0 .. 1
    BY DEF TypeOK
  <2>2. Word(sp) \in Values /\ Coctx(from) \in Values /\ Coctx(to) \in Values
    BY <1>2, ValueTypes
  <2> QED
    BY <1>1, <2>1, <2>2, ValueTypes
<1>6. TypeOK'
  <2>1. mem' \in [Words -> Values]
    BY <1>1, <1>4 DEF TypeOK
  <2>2. [reg' EXCEPT !["rsp"] = Word(sp + 1)] \in [Registers -> Values]
    BY <1>2, <1>5, ValueTypes
  <2>3. left' \in [Contexts -> [reg : [Registers -> Values], frame : SUBSET Words, tag : Values]]
    BY <1>1, <1>2, <1>4, <2>2 DEF TypeOK
  <2>4. epoch' \in [Contexts -> 0 .. 1]
    <3>1. epoch \in [Contexts -> 0 .. 1]
      BY DEF TypeOK
    <3>2. 1 - epoch[from] \in 0 .. 1
      BY <3>1
    <3> QED
      BY <1>1, <3>1, <3>2
  <2>5. coctx' = coctx /\ at' = at /\ goal' \in Contexts /\ ip' \in 0 .. 33
    BY <1>1
  <2> QED
    BY <1>5, <2>1, <2>3, <2>4, <2>5, Lengths DEF TypeOK
<1>7. /\ left'[from].reg = [reg' EXCEPT !["rsp"] = Word(sp + 1)]
      /\ left'[from].frame = Base(from) - d .. Base(from) - 1 /\ left'[from].tag = Local(from)
      /\ \A c \in Contexts : c # from => left'[c] = left[c]
  BY <1>1 DEF TypeOK
<1>8. left'[from].reg["rsp"] = Word(sp + 1) /\ left'[from].reg["rsp"].n - 1 = sp
  <2>1. left'[from].reg["rsp"] = Word(sp + 1)
    BY <1>5, <1>7 DEF Registers
  <2> QED
    BY <1>2, <2>1 DEF Word, Value
<1>9. FrameKept(from)'
  <2>1. \A a \in Base(from) - d .. Base(from) - 1 : mem'[a] = Local(from)
    BY <1>1, <1>2
  <2> QED
    BY <1>2, <1>7, <1>8, <2>1 DEF FrameKept
<1>10. AllStopped'
  <2>1. ASSUME NEW c \in Contexts, c # from PROVE Stopped(c)'
    <3>1. Stopped(c)
      BY <1>3, <2>1 DEF AllStopped
    <3>2. Saved(c) => \A a \in left[c].frame : mem'[a] = mem[a]
      <4> SUFFICES ASSUME Saved(c), NEW a \in left[c].frame PROVE mem'[a] = mem[a]
        OBVIOUS
      <4>1. a \in Area(c) /\ a \in Words /\ a \notin Area(from)
        BY <2>1, FrameInArea, AreasApart DEF Saved
      <4> QED
        BY <4>1, <1>1, <1>2
    <3> QED
      BY <3>1, <3>2, <1>1, <1>7, <2>1, StaysStopped
  <2> QED
    BY <2>1, <1>3, Lengths DEF AllStopped
<1>11. TargetReady'
  BY <1>1, <1>3, Lengths DEF TargetReady
<1>12. Saving'
  <2>1. mem'[sp] = Code(place, from)
    BY <1>1, <1>2
  <2>2. /\ reg'["rdi"] = Coctx(from) /\ reg'["rsi"] = Coctx(to) /\ reg'["rsp"] = Word(sp)
        /\ \A r \in Registers \ {"rsp", "rax"} : reg'[r] = left'[from].reg[r]
    BY <1>1, <1>7 DEF Registers
  <2>3. ReturnPlaces(from)' = ReturnPlaces(from)
    BY DEF ReturnPlaces
  <2> QED
    BY <1>3, <1>8, <1>9, <2>1, <2>2, <2>3 DEF Saving
<1>13. Loading' /\ Restored' /\ StackKept' /\ EntryByTheABI'
  BY <1>3, Lengths DEF Loading, Restored, StackKept, EntryByTheABI
<1> QED
  BY <1>6, <1>10, <1>11, <1>12, <1>13

\* setCallBack writes the saved registers of a coroutine that does not run.
LEMMA SetCallBackStep ==
  ASSUME IInv, NEW c \in Coroutines, SetCallBack(c)
  PROVE  IInv'
<1> USE DEF IInv
<1>1. /\ ip = 0 /\ coctx' = [coctx EXCEPT ![c] = Boot(c)]
      /\ UNCHANGED <<reg, mem, ip, at, goal, left, epoch>>
  BY DEF SetCallBack
<1>2. c # Main /\ c \in Contexts
  BY SizesAssumption DEF Coroutines, Main, Contexts
<1>3. Boot(c) \in [0 .. 13 -> Values]
  <2>1. Word(Top(c)) \in Values
    <3>1. Top(c) \in Area(c)
      BY StackEnd, Areas, <1>2, SizesAssumption DEF Area
    <3> QED
      BY <3>1, <1>2, AreasApart, ValueTypes
  <2> QED
    BY <1>2, <2>1, ValueTypes DEF Boot
<1>4. TypeOK'
  <2>1. coctx' \in [Contexts -> [0 .. 13 -> Values]]
    BY <1>1, <1>2, <1>3 DEF TypeOK
  <2> QED
    BY <1>1, <2>1 DEF TypeOK
<1>5. AllStopped'
  <2>1. ASSUME NEW d \in Contexts, d # at.cor PROVE Stopped(d)'
    <3>1. CASE d = c
      <4>1. coctx'[c] = Boot(c)
        BY <1>1, <1>2 DEF TypeOK
      <4> QED
        BY <4>1, <3>1, <1>2 DEF Stopped, Boot
    <3>2. CASE d # c
      <4>1. Stopped(d) /\ coctx'[d] = coctx[d]
        BY <2>1, <3>2, <1>1 DEF AllStopped, TypeOK
      <4> QED
        BY <4>1, <1>1, StaysStopped
    <3> QED
      BY <3>1, <3>2
  <2> QED
    BY <2>1, <1>1, Lengths DEF AllStopped
<1>6. TargetReady' /\ Saving' /\ Loading'
  BY <1>1, Lengths DEF TargetReady, Saving, Loading
<1>7. Restored' /\ StackKept' /\ EntryByTheABI'
  BY <1>1 DEF Restored, StackKept, EntryByTheABI, Sp
<1> QED
  BY <1>4, <1>5, <1>6, <1>7

\* What says nothing in one half of coctx_swap.
LEMMA InFirstHalf ==
  ASSUME ip' \in 1 .. 17
  PROVE  Loading' /\ Restored' /\ StackKept' /\ EntryByTheABI'
<1>1. Len(Saves) = 17 /\ ip' # 0 /\ ~(ip' > Len(Saves))
  BY Lengths
<1>2. Loading'
  BY <1>1 DEF Loading
<1>3. Restored' /\ StackKept' /\ EntryByTheABI'
  BY <1>1 DEF Restored, StackKept, EntryByTheABI
<1> QED
  BY <1>2, <1>3

LEMMA InSecondHalf ==
  ASSUME ip' \in 18 .. 33
  PROVE  Saving' /\ Restored' /\ StackKept' /\ EntryByTheABI'
<1>1. ip' # 0 /\ ip' \notin 1 .. Len(Saves)
  BY Lengths
<1>2. Saving'
  BY <1>1 DEF Saving
<1>3. Restored' /\ StackKept' /\ EntryByTheABI'
  BY <1>1 DEF Restored, StackKept, EntryByTheABI
<1> QED
  BY <1>2, <1>3

\* What has been saved so far, with names for the context and its stack pointer.
LEMMA SavedSoFar ==
  ASSUME Saving, ip \in 1 .. 17, NEW me, me = at.cor,
         NEW sp, sp = left[me].reg["rsp"].n - 1
  PROVE  /\ FrameKept(me) /\ mem[sp] \in ReturnPlaces(me)
         /\ reg["rdi"] = Coctx(me) /\ reg["rsi"] = Coctx(goal) /\ reg["rsp"] = Word(sp)
         /\ \A r \in Registers \ {"rsp", "rax"} : reg[r] = left[me].reg[r]
         /\ ip \in 2 .. 6 => reg["rax"] = Word(sp)
         /\ ip \in 7 .. 17 => reg["rax"] = mem[sp]
         /\ \A p \in 1 .. ip - 1 : IsSave(p) => coctx[me][Program[p][3]] = Stored(me, p)
BY Lengths DEF Saving

\* The target stays ready while the coctx are not written.
LEMMA StaysReady ==
  ASSUME TargetReady, ip # 0, UNCHANGED <<coctx, at, goal>>,
         ip' > 17 => coctx[at.cor][kRETAddr] \in ReturnPlaces(at.cor)
  PROVE  TargetReady'
BY Lengths DEF TargetReady, ReturnPlaces

\* movq %r, slot(%rdi)
LEMMA SaveStepInv ==
  ASSUME IInv, SaveStep
  PROVE  IInv'
<1> USE DEF IInv
<1>1. ip \in 2 .. 16 \ {6}
  BY Fetched, Instructions DEF SaveStep
<1>me. PICK me \in Contexts : me = at.cor
  BY DEF TypeOK
<1>sp. PICK sp : sp = left[me].reg["rsp"].n - 1
  OBVIOUS
<1>2. /\ FrameKept(me) /\ mem[sp] \in ReturnPlaces(me)
      /\ reg["rdi"] = Coctx(me) /\ reg["rsi"] = Coctx(goal) /\ reg["rsp"] = Word(sp)
      /\ \A r \in Registers \ {"rsp", "rax"} : reg[r] = left[me].reg[r]
      /\ ip \in 2 .. 6 => reg["rax"] = Word(sp)
      /\ ip \in 7 .. 17 => reg["rax"] = mem[sp]
      /\ \A p \in 1 .. ip - 1 : IsSave(p) => coctx[me][Program[p][3]] = Stored(me, p)
  BY <1>1, <1>me, <1>sp, SavedSoFar
<1>3. reg["rdi"].cor = me
  BY <1>2 DEF Coctx, Value
<1>4. /\ coctx' = [coctx EXCEPT ![me][Slot] = reg[Operand]]
      /\ ip' = ip + 1 /\ UNCHANGED <<reg, mem, at, goal, left, epoch>>
  BY <1>3 DEF SaveStep, Advance
<1>5. Slot \in 0 .. 13 /\ Operand \in Registers /\ reg[Operand] \in Values
  <2>1. ip \in 1 .. 33
    BY <1>1
  <2>2. Slot \in 0 .. 13 /\ Operand \in Registers
    BY <2>1, Instructions DEF Slot, Operand
  <2> QED
    BY <2>2 DEF TypeOK
<1>6. TypeOK'
  <2>1. coctx' \in [Contexts -> [0 .. 13 -> Values]]
    BY <1>2, <1>4, <1>5 DEF TypeOK
  <2>2. reg' \in [Registers -> Values] /\ mem' \in [Words -> Values] /\ ip' \in 0 .. 33
    BY <1>1, <1>4 DEF TypeOK
  <2> QED
    BY <2>1, <2>2, <1>4, Typed
<1>7. /\ \A c \in Contexts : c # me => coctx'[c] = coctx[c]
      /\ coctx'[me][Slot] = reg[Operand]
      /\ \A i \in 0 .. 13 : i # Slot => coctx'[me][i] = coctx[me][i]
  BY <1>2, <1>4, <1>5 DEF TypeOK
<1>8. AllStopped'
  <2>1. ASSUME NEW c \in Contexts, c # me PROVE Stopped(c)'
    <3>1. Stopped(c)
      BY <2>1, <1>me DEF AllStopped
    <3> QED
      BY <3>1, <2>1, <1>4, <1>7, StaysStopped
  <2> QED
    BY <2>1, <1>1, <1>4, <1>me, Lengths DEF AllStopped
<1>9. TargetReady'
  BY <1>1, <1>4, <1>7, <1>me, Target, Lengths DEF TargetReady
<1>10. Saving'
  <2>1. reg[Operand] = Stored(me, ip)
    <3>1. CASE ip \in {2, 7}
      <4>1. Operand = "rax" /\ (Slot = 13 <=> ip = 2) /\ (Slot = 9 <=> ip = 7)
        BY <3>1, <1>1, SaveSlots DEF Operand, Slot
      <4> QED
        BY <3>1, <4>1, <1>2, <1>sp DEF Stored, Slot, Operand, kRSP, kRETAddr
    <3>2. CASE ip \notin {2, 7}
      <4>1. Operand \in Registers \ {"rsp", "rax"} /\ Slot # 13 /\ Slot # 9
        BY <3>2, <1>1, <1>5, SaveSlots DEF Operand, Slot
      <4> QED
        BY <4>1, <1>2, <1>sp DEF Stored, Slot, Operand, kRSP, kRETAddr
    <3> QED
      BY <3>1, <3>2
  <2>2. ASSUME NEW p \in 1 .. ip, IsSave(p)
        PROVE  coctx'[me][Program[p][3]] = Stored(me, p)
    <3>1. p \in 2 .. 16 \ {6}
      BY <2>2, <1>1, Instructions DEF IsSave
    <3>2. CASE p = ip
      BY <3>2, <2>1, <1>7 DEF Slot
    <3>3. CASE p # ip
      <4>1. Program[p][3] # Slot /\ Program[p][3] \in 0 .. 13 /\ p \in 1 .. ip - 1
        BY <3>1, <3>3, <1>1, SaveSlots, Instructions DEF Slot
      <4> QED
        BY <4>1, <2>2, <1>2, <1>7
    <3> QED
      BY <3>2, <3>3
  <2>3. \A p \in 1 .. ip : Stored(me, p)' = Stored(me, p) /\ (IsSave(p)' <=> IsSave(p))
    BY <1>4 DEF Stored, IsSave
  <2>4. FrameKept(me)' /\ ReturnPlaces(me)' = ReturnPlaces(me)
    BY <1>2, <1>4, StaysKept DEF ReturnPlaces
  <2>5. ip' \in 2 .. 6 => ip \in 2 .. 6
    BY <1>1, <1>4
  <2>6. ip' \in 7 .. 17 => ip \in 7 .. 17
    BY <1>1, <1>4
  <2>7. 1 .. ip' - 1 = 1 .. ip
    BY <1>1, <1>4
  <2>8. \A p \in 1 .. ip' - 1 : IsSave(p)' => coctx'[me][Program[p][3]] = Stored(me, p)'
    BY <2>2, <2>3, <2>7
  <2>9. me = at'.cor /\ sp = left'[me].reg["rsp"].n - 1 /\ mem'[sp] \in ReturnPlaces(me)
    BY <1>2, <1>4, <1>me, <1>sp
  <2>10. /\ reg'["rdi"] = Coctx(me) /\ reg'["rsi"] = Coctx(goal') /\ reg'["rsp"] = Word(sp)
         /\ \A r \in Registers \ {"rsp", "rax"} : reg'[r] = left'[me].reg[r]
         /\ ip' \in 2 .. 6 => reg'["rax"] = Word(sp)
         /\ ip' \in 7 .. 17 => reg'["rax"] = mem'[sp]
    BY <1>2, <1>4, <2>5, <2>6
  <2> HIDE DEF IInv
  <2> QED
    BY <2>4, <2>8, <2>9, <2>10, Lengths DEF Saving
<1>11. Loading' /\ Restored' /\ StackKept' /\ EntryByTheABI'
  BY <1>1, <1>4, Lengths DEF Loading, Restored, StackKept, EntryByTheABI
<1> QED
  BY <1>6, <1>8, <1>9, <1>10, <1>11

\* What the steps of the first half that store nothing leave to show.
LEMMA FirstHalf ==
  ASSUME IInv, ip \in 1 .. 16, ip' = ip + 1,
         UNCHANGED <<mem, coctx, at, goal, left, epoch>>,
         ~IsSave(ip), NEW v \in Values, reg' = [reg EXCEPT !["rax"] = v],
         ip' \in 2 .. 6 => v = Word(left[at.cor].reg["rsp"].n - 1),
         ip' \in 7 .. 17 => v = mem[left[at.cor].reg["rsp"].n - 1]
  PROVE  IInv'
<1> USE DEF IInv
<1>1. TypeOK'
  <2>1. reg' \in [Registers -> Values]
    BY DEF TypeOK
  <2>2. mem' \in [Words -> Values] /\ coctx' \in [Contexts -> [0 .. 13 -> Values]] /\ ip' \in 0 .. 33
    BY DEF TypeOK
  <2> QED
    BY <2>1, <2>2, Typed
<1>2. AllStopped'
  <2>1. ASSUME NEW c \in Contexts, c # at.cor PROVE Stopped(c)'
    <3>1. Stopped(c)
      BY <2>1 DEF AllStopped
    <3> QED
      BY <3>1, StaysStopped
  <2> QED
    BY <2>1, Lengths DEF AllStopped
<1>3. TargetReady' /\ Loading' /\ Restored' /\ StackKept' /\ EntryByTheABI'
  <2>1. ip # 0 /\ ip' \in 1 .. 17 /\ ~(ip' > 17)
    OBVIOUS
  <2> QED
    BY <2>1, StaysReady, InFirstHalf
<1>4. Saving'
  <2>1. PICK me \in Contexts : me = at.cor
    BY DEF TypeOK
  <2>2. PICK sp : sp = left[me].reg["rsp"].n - 1
    OBVIOUS
  <2>3. /\ FrameKept(me) /\ mem[sp] \in ReturnPlaces(me)
        /\ reg["rdi"] = Coctx(me) /\ reg["rsi"] = Coctx(goal) /\ reg["rsp"] = Word(sp)
        /\ \A r \in Registers \ {"rsp", "rax"} : reg[r] = left[me].reg[r]
        /\ \A p \in 1 .. ip - 1 : IsSave(p) => coctx[me][Program[p][3]] = Stored(me, p)
    <3>1. ip \in 1 .. 17
      OBVIOUS
    <3> QED
      BY <2>1, <2>2, <3>1, SavedSoFar
  <2>4. /\ \A r \in Registers \ {"rax"} : reg'[r] = reg[r]
        /\ reg'["rax"] = v
    BY DEF TypeOK, Registers
  <2>5. FrameKept(me)' /\ ReturnPlaces(me)' = ReturnPlaces(me)
    BY <2>3, StaysKept DEF ReturnPlaces
  <2>6. \A p \in 1 .. ip : Stored(me, p)' = Stored(me, p) /\ (IsSave(p)' <=> IsSave(p))
    BY DEF Stored, IsSave
  <2>7. \A p \in 1 .. ip' - 1 : IsSave(p)' => coctx'[me][Program[p][3]] = Stored(me, p)'
    <3>1. \A p \in 1 .. ip' - 1 : p = ip \/ p \in 1 .. ip - 1
      OBVIOUS
    <3> QED
      BY <2>3, <2>6, <3>1
  <2>8. me = at'.cor /\ sp = left'[me].reg["rsp"].n - 1 /\ mem'[sp] \in ReturnPlaces(me)
    BY <2>1, <2>2, <2>3
  <2>9. /\ reg'["rdi"] = Coctx(me) /\ reg'["rsi"] = Coctx(goal') /\ reg'["rsp"] = Word(sp)
        /\ \A r \in Registers \ {"rsp", "rax"} : reg'[r] = left'[me].reg[r]
        /\ ip' \in 2 .. 6 => reg'["rax"] = Word(sp)
        /\ ip' \in 7 .. 17 => reg'["rax"] = mem'[sp]
    BY <2>1, <2>2, <2>3, <2>4 DEF Registers
  <2> HIDE DEF IInv
  <2>10. Len(Saves) = 17 /\ ip' \in 1 .. 17
    BY Lengths
  <2> QED
    BY <2>5, <2>7, <2>8, <2>9, <2>10 DEF Saving
<1> QED
  BY <1>1, <1>2, <1>3, <1>4

\* leaq (%rsp),%rax and movq 0(%rax),%rax
LEMMA LeaStep ==
  ASSUME IInv, MoveStep, ip \in {1, 6}
  PROVE  IInv'
<1>1. ~IsSave(ip) /\ ip \in 1 .. 16 /\ ip \in 1 .. 33
  BY Instructions DEF IsSave
<1>2. ip' = ip + 1 /\ UNCHANGED <<mem, coctx, at, goal, left, epoch>>
  BY DEF MoveStep, Advance
<1>3. CASE ip = 1
  <2>1. reg' = [reg EXCEPT !["rax"] = reg["rsp"]]
    BY <1>1, <1>3, Instructions DEF MoveStep, Fetch, Reg
  <2>2. reg["rsp"] = Word(left[at.cor].reg["rsp"].n - 1)
    BY <1>3, Lengths DEF IInv, Saving
  <2>3. reg["rsp"] \in Values
    BY DEF IInv, TypeOK, Registers
  <2>4. PICK v \in Values : v = reg["rsp"]
    BY <2>3
  <2>5. /\ reg' = [reg EXCEPT !["rax"] = v]
        /\ ip' \in 2 .. 6 => v = Word(left[at.cor].reg["rsp"].n - 1)
        /\ ip' \in 7 .. 17 => v = mem[left[at.cor].reg["rsp"].n - 1]
    BY <1>2, <1>3, <2>1, <2>2, <2>4
  <2> QED
    BY <1>1, <1>2, <2>5, FirstHalf
<1>4. CASE ip = 6
  <2>1. reg' = [reg EXCEPT !["rax"] = mem[reg["rax"].n]]
    BY <1>1, <1>4, Instructions DEF MoveStep, Fetch, Reg
  <2>2. reg["rax"] = Word(left[at.cor].reg["rsp"].n - 1)
        /\ mem[left[at.cor].reg["rsp"].n - 1] \in ReturnPlaces(at.cor)
    <3>1. Saving /\ ip \in 1 .. 17 /\ ip \in 2 .. 6
      BY <1>4 DEF IInv
    <3> QED
      BY <3>1, SavedSoFar
  <2>3. reg["rax"].n = left[at.cor].reg["rsp"].n - 1
    BY <2>2 DEF Word, Value
  <2>4. mem[reg["rax"].n] \in Values
    BY <2>2, <2>3, ValueTypes DEF IInv, TypeOK
  <2>5. PICK v \in Values : v = mem[reg["rax"].n]
    BY <2>4
  <2>6. /\ reg' = [reg EXCEPT !["rax"] = v]
        /\ ip' \in 2 .. 6 => v = Word(left[at.cor].reg["rsp"].n - 1)
        /\ ip' \in 7 .. 17 => v = mem[left[at.cor].reg["rsp"].n - 1]
    BY <1>2, <1>4, <2>1, <2>3, <2>5
  <2> QED
    BY <1>1, <1>2, <2>6, FirstHalf
<1> QED
  BY <1>3, <1>4

\* xorq %rax,%rax: all that the context needs to go on has been saved.
LEMMA ClearStep ==
  ASSUME IInv, MoveStep, ip = 17
  PROVE  IInv'
<1> USE DEF IInv
<1>1. ip \in 1 .. 33 /\ ip' = 18 /\ UNCHANGED <<mem, coctx, at, goal, left, epoch>>
  BY DEF MoveStep, Advance
<1>2. reg' = [reg EXCEPT !["rax"] = Zero]
  BY <1>1, Instructions DEF MoveStep, Fetch, Reg
<1>3. TypeOK'
  <2>1. reg' \in [Registers -> Values]
    BY <1>2, ValueTypes DEF TypeOK
  <2>2. mem' \in [Words -> Values] /\ coctx' \in [Contexts -> [0 .. 13 -> Values]] /\ ip' \in 0 .. 33
    BY <1>1 DEF TypeOK
  <2> QED
    BY <1>1, <2>1, <2>2, Typed
<1>4. Saved(at.cor)
  <2>1. PICK me \in Contexts : me = at.cor
    BY DEF TypeOK
  <2>2. PICK sp : sp = left[me].reg["rsp"].n - 1
    OBVIOUS
  <2>3. /\ FrameKept(me) /\ mem[sp] \in ReturnPlaces(me)
        /\ \A p \in 1 .. 16 : IsSave(p) => coctx[me][Program[p][3]] = Stored(me, p)
    <3>1. Saving /\ ip \in 1 .. 17 /\ ip - 1 = 16
      OBVIOUS
    <3> HIDE DEF IInv
    <3> QED
      BY <2>1, <2>2, <3>1, SavedSoFar
  <2> HIDE DEF IInv
  <2>4. coctx[me][kRSP] = Word(sp)
    <3>1. 2 \in 1 .. 16 /\ IsSave(2) /\ Program[2][3] = 13
      BY SaveAt
    <3>2. coctx[me][13] = Stored(me, 2)
      BY <2>3, <3>1
    <3>3. Stored(me, 2) = Word(sp)
      BY <2>2, <3>1 DEF Stored, kRSP, kRETAddr
    <3> QED
      BY <3>2, <3>3 DEF kRSP, kRETAddr
  <2>5. coctx[me][kRETAddr] = mem[sp]
    <3>1. 7 \in 1 .. 16 /\ IsSave(7) /\ Program[7][3] = 9
      BY SaveAt
    <3>2. coctx[me][9] = Stored(me, 7)
      BY <2>3, <3>1
    <3>3. Stored(me, 7) = mem[sp]
      BY <2>2, <3>1 DEF Stored, kRSP, kRETAddr
    <3> QED
      BY <3>2, <3>3 DEF kRSP, kRETAddr
  <2>6. ASSUME NEW p \in DOMAIN Program, IsSave(p), Program[p][3] \notin {kRSP, kRETAddr}
        PROVE  coctx[me][Program[p][3]] = left[me].reg[Program[p][2]]
    <3>1. p \in 1 .. 16
      BY <2>6, Lengths, Instructions DEF IsSave
    <3> QED
      BY <2>3, <2>6, <3>1 DEF Stored
  <2> QED
    BY <2>1, <2>2, <2>3, <2>4, <2>5, <2>6 DEF Saved
<1>5. AllStopped'
  <2>1. ASSUME NEW c \in Contexts PROVE Stopped(c)'
    <3>1. Stopped(c)
      BY <1>4 DEF AllStopped, Stopped
    <3> QED
      BY <1>1, <3>1, StaysStopped
  <2> QED
    BY <2>1 DEF AllStopped
<1>6. TargetReady' /\ Saving' /\ Restored' /\ StackKept' /\ EntryByTheABI'
  <2>1. coctx[at.cor][kRETAddr] \in ReturnPlaces(at.cor)
    BY <1>4 DEF Saved
  <2> QED
    BY <1>1, <2>1, StaysReady, InSecondHalf
<1>7. Loading'
  <2>1. reg'["rsi"] = Coctx(goal)
    <3>1. reg["rsi"] = Coctx(goal)
      BY Lengths DEF Saving
    <3>2. "rsi" \in DOMAIN reg
      BY DEF TypeOK, Registers
    <3> QED
      BY <1>2, <3>1, <3>2
  <2> QED
    BY <1>1, <2>1, Lengths DEF Loading
<1> QED
  BY <1>3, <1>5, <1>6, <1>7

\* What the steps of the second half, but for the last, leave to show: they write
\* at most the word the stack pointer of the target says.
LEMMA SecondHalf ==
  ASSUME IInv, ip \in 18 .. 32, ip' = ip + 1,
         UNCHANGED <<coctx, at, goal, left, epoch>>,
         reg' \in [Registers -> Values], mem' \in [Words -> Values],
         \A a \in Words \ {coctx[goal][kRSP].n} : mem'[a] = mem[a],
         Loading'
  PROVE  IInv'
<1> USE DEF IInv
<1>1. TypeOK'
  <2>1. coctx' \in [Contexts -> [0 .. 13 -> Values]] /\ ip' \in 0 .. 33
    BY DEF TypeOK
  <2> QED
    BY <2>1, Typed
<1>2. AllStopped'
  <2>1. ASSUME NEW c \in Contexts PROVE Stopped(c)'
    <3>1. Stopped(c)
      BY Lengths DEF AllStopped
    <3>2. ASSUME Saved(c), NEW a \in left[c].frame PROVE mem'[a] = mem[a]
      <4>1. a \in Area(c) /\ a \in Words
        BY <3>2, FrameInArea, AreasApart DEF Saved
      <4>2. PICK n \in Area(goal) : coctx[goal][kRSP].n = n /\ coctx[goal][kRSP] = Word(n)
        BY Target
      <4>3. CASE c # goal
        <5>1. a # n
          BY <4>1, <4>2, <4>3, AreasApart DEF TypeOK
        <5> QED
          BY <4>1, <4>2, <5>1
      <4>4. CASE c = goal
        <5>1. PICK sp \in Area(c) : left[c].reg["rsp"].n - 1 = sp /\ sp \notin left[c].frame
          BY <3>2, FrameInArea DEF Saved
        <5>2. Word(n) = Word(sp)
          BY <3>2, <4>2, <4>4, <5>1 DEF Saved
        <5>3. n = sp
          BY <5>2 DEF Word, Value
        <5> QED
          BY <3>2, <4>1, <4>2, <5>1, <5>3
      <4> QED
        BY <4>3, <4>4
    <3> QED
      BY <3>1, <3>2, StaysStopped
  <2> QED
    BY <2>1 DEF AllStopped
<1>3. TargetReady'
  <2>1. coctx[at.cor][kRETAddr] \in ReturnPlaces(at.cor)
    BY Lengths DEF TargetReady
  <2> QED
    BY <2>1, StaysReady
<1>4. ip' \in 18 .. 33
  OBVIOUS
<1> QED
  BY <1>1, <1>2, <1>3, <1>4, InSecondHalf

\* movq slot(%rsi),%r
LEMMA LoadStepInv ==
  ASSUME IInv, LoadStep
  PROVE  IInv'
<1>1. ip \in 18 .. 32 \ {30, 31} /\ ip \in 1 .. 33
  BY Fetched, Instructions DEF LoadStep, IInv
<1>2. PICK to \in Contexts : to = goal
  BY DEF IInv, TypeOK
<1>3. PICK sp \in Area(to) : coctx[to][kRSP] = Word(sp) /\ coctx[to][kRSP].n = sp
  BY <1>1, <1>2, Target
<1>4. /\ reg["rsi"] = Coctx(to)
      /\ ip > 19 => reg["rsp"] = IF ip = 31 THEN Word(sp + 1) ELSE Word(sp)
      /\ ip > 31 => mem[sp] = coctx[to][kRETAddr]
      /\ \A p \in 18 .. ip - 1 :
           IsLoad(p) /\ Program[p][3] # kRSP => reg[Program[p][2]] = coctx[to][Program[p][3]]
  BY <1>1, <1>2, <1>3, Lengths DEF IInv, Loading
<1>5. reg["rsi"].cor = to
  BY <1>4 DEF Coctx, Value
<1>6. /\ reg' = [reg EXCEPT ![Operand] = coctx[to][Slot]]
      /\ ip' = ip + 1 /\ UNCHANGED <<mem, coctx, at, goal, left, epoch>>
  BY <1>5 DEF LoadStep, Advance, Reg, Of
<1>7. /\ Slot \in 0 .. 13 /\ Operand \in Registers /\ coctx[to][Slot] \in Values
      /\ reg \in [Registers -> Values]
  <2>1. Slot \in 0 .. 13 /\ Operand \in Registers
    BY <1>1, Instructions DEF Slot, Operand
  <2> QED
    BY <2>1 DEF IInv, TypeOK
<1>8. reg' \in [Registers -> Values] /\ reg'[Operand] = coctx[to][Slot]
      /\ \A r \in Registers : r # Operand => reg'[r] = reg[r]
  BY <1>6, <1>7
<1>9. Loading'
  <2>1. /\ Operand = "rsp" <=> ip = 19
        /\ Operand = "rsi" <=> ip = 32
        /\ Slot = 13 <=> ip = 19
    BY <1>1, LoadSlots DEF Operand, Slot
  <2>2. ip' < 33 => reg'["rsi"] = Coctx(to)
    BY <1>1, <1>4, <1>6, <1>8, <2>1 DEF Registers
  <2>3. ip' > 19 => reg'["rsp"] = IF ip' = 31 THEN Word(sp + 1) ELSE Word(sp)
    <3>1. CASE ip = 19
      BY <3>1, <1>3, <1>6, <1>8, <2>1 DEF kRSP
    <3>2. CASE ip # 19 /\ ip' > 19
      <4>1. reg'["rsp"] = reg["rsp"] /\ ip > 19 /\ ip # 31 /\ ip' # 31
        BY <3>2, <1>1, <1>6, <1>8, <2>1 DEF Registers
      <4> QED
        BY <4>1, <1>4
    <3> QED
      BY <3>1, <3>2
  <2>4. ip' > 31 => mem'[sp] = coctx'[to][kRETAddr]
    BY <1>1, <1>4, <1>6
  <2>5. ASSUME NEW p \in 18 .. ip, IsLoad(p), Program[p][3] # kRSP
        PROVE  reg'[Program[p][2]] = coctx[to][Program[p][3]]
    <3>1. p \in 18 .. 32 \ {30, 31}
      BY <2>5, <1>1, Instructions DEF IsLoad
    <3>2. CASE p = ip
      BY <3>2, <1>8 DEF Slot, Operand
    <3>3. CASE p # ip
      <4>1. Program[p][2] # Operand /\ Program[p][2] \in Registers /\ p \in 18 .. ip - 1
        BY <3>1, <3>3, <1>1, LoadSlots, Instructions DEF Operand
      <4> QED
        BY <4>1, <2>5, <1>4, <1>8
    <3> QED
      BY <3>2, <3>3
  <2>6. \A p \in 18 .. ip' - 1 :
          IsLoad(p)' /\ Program[p][3] # kRSP => reg'[Program[p][2]] = coctx'[to][Program[p][3]]
    BY <2>5, <1>1, <1>6 DEF IsLoad
  <2>7. to = goal' /\ coctx'[to][kRSP].n = sp
    BY <1>2, <1>3, <1>6
  <2> QED
    BY <2>2, <2>3, <2>4, <2>6, <2>7, Lengths DEF Loading
<1>10. mem' \in [Words -> Values] /\ \A a \in Words \ {coctx[goal][kRSP].n} : mem'[a] = mem[a]
  BY <1>6 DEF IInv, TypeOK
<1>11. ip \in 18 .. 32
  BY <1>1
<1> QED
  BY <1>6, <1>8, <1>9, <1>10, <1>11, SecondHalf

\* leaq 8(%rsp),%rsp drops the old return address, pushq 72(%rsi) puts it back.
LEMMA StackStep ==
  ASSUME IInv, (ip = 30 /\ MoveStep) \/ (ip = 31 /\ PushStep)
  PROVE  IInv'
<1>1. ip \in {30, 31} /\ ip \in 1 .. 33 /\ ip \in 18 .. 32
  OBVIOUS
<1>2. PICK to \in Contexts : to = goal
  BY DEF IInv, TypeOK
<1>3. PICK sp \in Area(to) : coctx[to][kRSP] = Word(sp) /\ coctx[to][kRSP].n = sp
  BY <1>1, <1>2, Target
<1>4. /\ reg["rsi"] = Coctx(to)
      /\ reg["rsp"] = IF ip = 31 THEN Word(sp + 1) ELSE Word(sp)
      /\ \A p \in 18 .. ip - 1 :
           IsLoad(p) /\ Program[p][3] # kRSP => reg[Program[p][2]] = coctx[to][Program[p][3]]
  BY <1>1, <1>2, <1>3, Lengths DEF IInv, Loading
<1>5. sp \in Words /\ sp + 1 \in Words /\ sp \in Nat
  BY <1>2, <1>3, AreasApart DEF IInv, TypeOK
<1>6. /\ reg' = [reg EXCEPT !["rsp"] = IF ip = 30 THEN Word(sp + 1) ELSE Word(sp)]
      /\ mem' = IF ip = 30 THEN mem ELSE [mem EXCEPT ![sp] = coctx[to][kRETAddr]]
      /\ ip' = ip + 1 /\ UNCHANGED <<coctx, at, goal, left, epoch>>
  <2>1. CASE ip = 30 /\ MoveStep
    <3>1. Sp = sp
      BY <2>1, <1>4 DEF Sp, Word, Value
    <3> QED
      <4>1. Program[ip][1] = "skip"
        BY <2>1, <1>1, Instructions
      <4> QED
        BY <2>1, <3>1, <4>1 DEF MoveStep, Advance, Fetch, Reg
  <2>2. CASE ip = 31 /\ PushStep
    <3>1. reg["rsp"] = Word(sp + 1) /\ reg["rsi"] = Coctx(to)
      BY <2>2, <1>4
    <3>2. Sp = sp + 1 /\ reg["rsi"].cor = to
      BY <3>1 DEF Sp, Word, Coctx, Value
    <3>3. Sp - 1 = sp
      BY <3>2, <1>5
    <3>4. /\ reg' = [reg EXCEPT !["rsp"] = Word(sp)]
          /\ mem' = [mem EXCEPT ![sp] = coctx[to][kRETAddr]]
          /\ ip' = ip + 1 /\ UNCHANGED <<coctx, at, goal, left, epoch>>
      BY <2>2, <3>2, <3>3 DEF PushStep, Advance, Reg, Of
    <3> QED
      BY <2>2, <3>4
  <2> QED
    BY <2>1, <2>2
<1>7. /\ reg \in [Registers -> Values] /\ mem \in [Words -> Values]
      /\ coctx[to][kRETAddr] \in Values /\ Word(sp) \in Values /\ Word(sp + 1) \in Values
  <2>1. coctx[to] \in [0 .. 13 -> Values]
    BY DEF IInv, TypeOK
  <2> QED
    BY <2>1, <1>5, ValueTypes DEF IInv, TypeOK, kRETAddr
<1>8. /\ reg' \in [Registers -> Values]
      /\ reg'["rsp"] = IF ip = 30 THEN Word(sp + 1) ELSE Word(sp)
      /\ \A r \in Registers : r # "rsp" => reg'[r] = reg[r]
  BY <1>6, <1>7 DEF Registers
<1>9. /\ mem' \in [Words -> Values] /\ \A a \in Words \ {sp} : mem'[a] = mem[a]
      /\ ip = 31 => mem'[sp] = coctx[to][kRETAddr]
  BY <1>5, <1>6, <1>7
<1>10. Loading'
  <2>1. reg'["rsi"] = Coctx(to)
    BY <1>4, <1>8 DEF Registers
  <2>2. reg'["rsp"] = IF ip' = 31 THEN Word(sp + 1) ELSE Word(sp)
    BY <1>1, <1>6, <1>8
  <2>3. ip' > 31 => mem'[sp] = coctx'[to][kRETAddr]
    BY <1>1, <1>6, <1>9
  <2>4. ASSUME NEW p \in 18 .. ip, IsLoad(p), Program[p][3] # kRSP
        PROVE  reg'[Program[p][2]] = coctx[to][Program[p][3]]
    <3>1. p \in 18 .. 32 \ {30, 31}
      BY <2>4, <1>1, Instructions DEF IsLoad
    <3>2. Program[p][2] # "rsp" /\ Program[p][2] \in Registers /\ p \in 18 .. ip - 1
      BY <2>4, <3>1, <1>1, LoadSlots, Instructions DEF kRSP
    <3> QED
      BY <2>4, <3>2, <1>4, <1>8
  <2>5. \A p \in 18 .. ip' - 1 :
          IsLoad(p)' /\ Program[p][3] # kRSP => reg'[Program[p][2]] = coctx'[to][Program[p][3]]
    BY <2>4, <1>1, <1>6 DEF IsLoad
  <2>6. to = goal' /\ coctx'[to][kRSP].n = sp
    BY <1>2, <1>3, <1>6
  <2> QED
    BY <2>1, <2>2, <2>3, <2>5, <2>6, Lengths DEF Loading
<1>11. \A a \in Words \ {coctx[goal][kRSP].n} : mem'[a] = mem[a]
  BY <1>2, <1>3, <1>9
<1> QED
  BY <1>1, <1>6, <1>8, <1>9, <1>10, <1>11, SecondHalf

\* ret: the target goes on where it left, or enters runCallBack.
LEMMA RetStepInv ==
  ASSUME IInv, RetStep
  PROVE  IInv' /\ at' = coctx[goal][kRETAddr]
<1>1. ip = 33
  BY Fetched, Instructions DEF RetStep, IInv
<1>2. PICK to \in Contexts : to = goal
  BY DEF IInv, TypeOK
<1>3. PICK sp \in Area(to) : coctx[to][kRSP] = Word(sp) /\ coctx[to][kRSP].n = sp
  BY <1>1, <1>2, Target
<1>4. /\ reg["rsp"] = Word(sp) /\ mem[sp] = coctx[to][kRETAddr]
      /\ \A p \in 18 .. 32 :
           IsLoad(p) /\ Program[p][3] # kRSP => reg[Program[p][2]] = coctx[to][Program[p][3]]
  BY <1>1, <1>2, <1>3, Lengths DEF IInv, Loading
<1>5. sp \in Nat /\ sp + 1 \in Words
  BY <1>2, <1>3, AreasApart DEF IInv, TypeOK
<1>6. /\ at' = coctx[to][kRETAddr] /\ ip' = 0
      /\ reg' = [reg EXCEPT !["rsp"] = Word(sp + 1)]
      /\ UNCHANGED <<mem, coctx, goal, left, epoch>>
  <2>1. Sp = sp
    BY <1>4 DEF Sp, Word, Value
  <2> QED
    BY <2>1, <1>4 DEF RetStep, Reg
<1>7. /\ reg' \in [Registers -> Values] /\ reg'["rsp"] = Word(sp + 1)
      /\ \A r \in Registers : r # "rsp" => reg'[r] = reg[r]
  <2>1. reg \in [Registers -> Values] /\ Word(sp + 1) \in Values
    BY <1>5, ValueTypes DEF IInv, TypeOK
  <2> QED
    BY <1>6, <2>1 DEF Registers
<1>8. coctx[to][kRETAddr].cor = to
  BY <1>1, <1>2, Target
<1>9. \/ /\ Saved(to)
         /\ coctx[to][kRETAddr] \in ReturnPlaces(to)
         /\ coctx[to][kRETAddr].kind # "entry"
      \/ /\ to \in Coroutines /\ coctx[to] = Boot(to)
         /\ coctx[to][kRETAddr] = Code("entry", to)
         /\ coctx[to][kRETAddr].kind = "entry"
  <2>1. Saved(to) \/ (to \in Coroutines /\ coctx[to] = Boot(to))
    BY <1>1, <1>2, Target
  <2>2. ASSUME Saved(to)
        PROVE  coctx[to][kRETAddr] \in ReturnPlaces(to) /\ coctx[to][kRETAddr].kind # "entry"
    BY <2>2 DEF Saved, ReturnPlaces, Code, Value
  <2>3. ASSUME coctx[to] = Boot(to)
        PROVE  /\ coctx[to][kRETAddr] = Code("entry", to)
               /\ coctx[to][kRETAddr].kind = "entry"
    BY <2>3 DEF Boot, kRETAddr, kRSP, kRBP, Code, Value
  <2> QED
    BY <2>1, <2>2, <2>3
<1>10. TypeOK'
  <2>1. at' \in [kind : Places, cor : Contexts, n : {0}]
    BY <1>2, <1>6, <1>9 DEF ReturnPlaces, Code, Value, Places
  <2>2. goal' = goal /\ left' = left /\ epoch' = epoch /\ mem' = mem /\ coctx' = coctx
    BY <1>6
  <2> QED
    BY <1>6, <1>7, <2>1, <2>2, Lengths DEF IInv, TypeOK
<1>11. AllStopped'
  <2>1. ASSUME NEW c \in Contexts PROVE Stopped(c)'
    <3>1. Stopped(c)
      BY <1>1, Lengths DEF IInv, AllStopped
    <3> QED
      BY <1>6, <3>1, StaysStopped
  <2> QED
    BY <2>1 DEF AllStopped
<1>12. TargetReady' /\ Saving' /\ Loading'
  BY <1>6, Lengths DEF TargetReady, Saving, Loading
<1>13. ASSUME at'.kind # "entry"
       PROVE  /\ \A r \in CalleeSaved \cup {"rsp"} : reg'[r] = left'[to].reg[r]
              /\ \A a \in left'[to].frame : mem'[a] = left'[to].tag
  <2>1. Saved(to)
    BY <1>6, <1>9, <1>13
  <2>2. ASSUME NEW r \in CalleeSaved PROVE reg'[r] = left[to].reg[r]
    <3>1. PICK p \in 2 .. 16 \ {6}, q \in 18 .. 32 \ {30, 31} :
            /\ Program[p][2] = r /\ Program[q][2] = r
            /\ Program[p][3] = Program[q][3] /\ Program[p][3] \notin {13, 9}
      BY SavedAndLoaded
    <3>2. p \in DOMAIN Program /\ IsSave(p) /\ IsLoad(q)
      BY Lengths, Instructions DEF IsSave, IsLoad
    <3>3. coctx[to][Program[p][3]] = left[to].reg[r]
      BY <2>1, <3>1, <3>2 DEF Saved, kRSP, kRETAddr
    <3>4. reg[r] = coctx[to][Program[q][3]]
      BY <1>4, <3>1, <3>2 DEF kRSP
    <3>5. r \in Registers /\ r # "rsp"
      BY DEF CalleeSaved, Registers
    <3> QED
      BY <1>7, <3>1, <3>3, <3>4, <3>5
  <2>3. reg'["rsp"] = left[to].reg["rsp"]
    <3>1. PICK n \in Area(to) : left[to].reg["rsp"] = Word(n + 1) /\ left[to].reg["rsp"].n - 1 = n
      BY <2>1, FrameInArea DEF Saved
    <3>2. Word(n) = Word(sp)
      BY <2>1, <3>1, <1>3 DEF Saved
    <3>3. n = sp
      BY <3>2 DEF Word, Value
    <3> QED
      BY <3>1, <3>3, <1>7
  <2>4. \A a \in left[to].frame : mem[a] = left[to].tag
    BY <2>1 DEF Saved, FrameKept
  <2> QED
    BY <2>2, <2>3, <2>4, <1>6
<1>14. ASSUME at'.kind = "entry"
       PROVE  /\ reg'["rdi"] = This(to) /\ Sp' % 2 = 1
              /\ Sp' - Low(to) \in Size - 1 .. Size + 1
  <2>1. to \in Coroutines /\ coctx[to] = Boot(to)
    BY <1>6, <1>9, <1>14
  <2>2. coctx[to][7] = This(to) /\ coctx[to][13] = Word(Top(to))
    BY <2>1 DEF Boot, kRETAddr, kRSP, kRBP, kRDI
  <2>3. reg["rdi"] = coctx[to][7]
    <3>1. Program[26][2] = "rdi" /\ Program[26][3] = 7 /\ IsLoad(26)
      BY Lengths, LoadRows DEF IsLoad
    <3> QED
      BY <3>1, <1>4 DEF kRSP
  <2>4. sp = Top(to)
    BY <1>3, <2>2 DEF kRSP, Word, Value
  <2>5. Sp' = Top(to) + 1
    BY <1>7, <2>4 DEF Sp, Word, Value
  <2>6. Sp' % 2 = 1 /\ Sp' - Low(to) \in Size - 1 .. Size + 1
    BY <2>1, <2>5, StackEnd, SizesAssumption
  <2> QED
    BY <1>7, <2>2, <2>3, <2>6 DEF Registers
<1>15. Restored' /\ StackKept'
  BY <1>2, <1>6, <1>8, <1>13 DEF Restored, StackKept
<1>16. EntryByTheABI'
  <2>1. at'.cor = to
    BY <1>6, <1>8
  <2> QED
    BY <2>1, <1>14 DEF EntryByTheABI
<1> QED
  BY <1>2, <1>6, <1>10, <1>11, <1>12, <1>15, <1>16 DEF IInv

LEMMA InvInit == Init => IInv
<1> SUFFICES ASSUME Init PROVE IInv
  OBVIOUS
<1>1. MainTop \in Words /\ Main \in Contexts /\ 0 \in Words
  BY ValueTypes, Areas DEF Words
<1>2. TypeOK
  <2>1. /\ reg = [r \in Registers |-> IF r = "rsp" THEN Word(MainTop) ELSE Zero]
        /\ mem = [a \in Words |-> Zero]
        /\ coctx = [c \in Contexts |-> [i \in 0 .. 13 |-> Zero]]
        /\ ip = 0 /\ at = Code("main", Main) /\ goal = Main
        /\ left = [c \in Contexts |-> [reg |-> reg, frame |-> {}, tag |-> Zero]]
        /\ epoch = [c \in Contexts |-> 0]
    BY DEF Init
  <2>2. reg \in [Registers -> Values] /\ mem \in [Words -> Values]
    BY <1>1, <2>1, ValueTypes
  <2>3. coctx \in [Contexts -> [0 .. 13 -> Values]]
    BY <2>1, ValueTypes
  <2>4. at \in [kind : Places, cor : Contexts, n : {0}]
    BY <1>1, <2>1 DEF Code, Value, Places
  <2>5. left \in [Contexts -> [reg : [Registers -> Values], frame : SUBSET Words, tag : Values]]
    BY <2>1, <2>2, ValueTypes
  <2>6. epoch \in [Contexts -> 0 .. 1] /\ goal \in Contexts /\ ip \in 0 .. Len(Program)
    BY <1>1, <2>1, Lengths
  <2> QED
    BY <2>2, <2>3, <2>4, <2>5, <2>6 DEF TypeOK
<1>3. ip = 0 /\ goal = Main /\ at.cor = Main /\ at.kind = "main"
  BY DEF Init, Code, Value
<1>4. AllStopped
  <2>1. ASSUME NEW c \in Contexts, c # Main PROVE Stopped(c)
    <3>1. coctx[c][kRETAddr] = Zero
      BY DEF Init, kRETAddr
    <3> QED
      BY <2>1, <3>1 DEF Stopped
  <2> QED
    BY <2>1, <1>3, Lengths DEF AllStopped
<1>5. TargetReady /\ Saving /\ Loading
  BY <1>3, Lengths DEF TargetReady, Saving, Loading
<1>6. left[Main].reg = reg /\ left[Main].frame = {}
  BY <1>1 DEF Init
<1>7. Restored /\ StackKept /\ EntryByTheABI
  BY <1>3, <1>6 DEF Restored, StackKept, EntryByTheABI
<1> QED
  BY <1>2, <1>4, <1>5, <1>7 DEF IInv

\* The calls the program makes.
LEMMA Calls ==
  ASSUME IInv, NEW c \in Coroutines, Resume(c) \/ Yield(c)
  PROVE  IInv'
<1>1. c \in Contexts /\ c # Main /\ Main \in Contexts
  BY ValueTypes, SizesAssumption DEF Coroutines, Main, Contexts
<1>2. CASE Resume(c)
  <2>1. CallSwap(Main, c, "main") /\ Life[c] \in {"ready", "suspended"}
    BY <1>2 DEF Resume
  <2>2. coctx[c][kRETAddr].kind \in {"entry", "yield"}
    BY <2>1 DEF Life
  <2>3. Code("main", Main) \in ReturnPlaces(Main)
    BY DEF ReturnPlaces
  <2> QED
    BY <1>1, <2>1, <2>2, <2>3, CallStep
<1>3. CASE Yield(c)
  <2>1. PICK place \in {"yield", "final"} : CallSwap(c, Main, place)
    BY <1>3 DEF Yield
  <2>2. Code(place, c) \in ReturnPlaces(c)
    BY <1>1 DEF ReturnPlaces
  <2>3. at.cor = c
    BY <2>1 DEF CallSwap, Runs
  <2>4. Saved(Main)
    BY <1>1, <2>3 DEF IInv, AllStopped, Stopped
  <2>5. coctx[Main][kRETAddr].kind = "main"
    BY <2>4 DEF Saved, ReturnPlaces, Code, Value
  <2> QED
    BY <1>1, <2>1, <2>2, <2>5, CallStep
<1> QED
  BY <1>2, <1>3

LEMMA InvStep == IInv /\ [Next]_vars => IInv'
<1> SUFFICES ASSUME IInv, [Next]_vars PROVE IInv'
  OBVIOUS
<1>1. CASE SaveStep
  BY <1>1, SaveStepInv
<1>2. CASE LoadStep
  BY <1>2, LoadStepInv
<1>3. CASE MoveStep
  <2>1. ip \in {1, 6, 17, 30}
    BY <1>3, Fetched, Instructions DEF MoveStep, IInv
  <2> QED
    BY <1>3, <2>1, LeaStep, ClearStep, StackStep
<1>4. CASE PushStep
  <2>1. ip = 31
    BY <1>4, Fetched, Instructions DEF PushStep, IInv
  <2> QED
    BY <1>4, <2>1, StackStep
<1>5. CASE RetStep
  BY <1>5, RetStepInv
<1>6. ASSUME NEW c \in Coroutines, SetCallBack(c) PROVE IInv'
  BY <1>6, SetCallBackStep
<1>7. ASSUME NEW c \in Coroutines, Resume(c) \/ Yield(c) PROVE IInv'
  BY <1>7, Calls
<1>8. CASE UNCHANGED vars
  <2> USE <1>8 DEF vars
  <2>1. TypeOK'
    BY DEF IInv, TypeOK
  <2>2. AllStopped'
    BY StaysStopped DEF IInv, AllStopped
  <2>3. TargetReady'
    BY DEF IInv, TargetReady
  <2>4. Saving'
    BY DEF IInv, Saving, FrameKept, ReturnPlaces, IsSave, Stored
  <2>5. Loading'
    BY DEF IInv, Loading, IsLoad
  <2>6. Restored' /\ StackKept' /\ EntryByTheABI'
    BY DEF IInv, Restored, StackKept, EntryByTheABI, Sp
  <2> QED
    BY <2>1, <2>2, <2>3, <2>4, <2>5, <2>6 DEF IInv
<1> QED
  BY <1>1, <1>2, <1>3, <1>4, <1>5, <1>6, <1>7, <1>8 DEF Next, Instruction

\* The inductive invariant: types, the contexts that stopped, the two halves of
\* coctx_swap as far as they have come, and the three promises below.
THEOREM Invariance == Spec => []IInv
BY InvInit, InvStep, PTL DEF Spec

\* A context that goes on after a call of coctx_swap is the one that was meant
\* to, and finds the stack pointer and the registers of a callee as it left them.
THEOREM RestoredCorrect == Spec => []Restored
<1>1. IInv => Restored
  BY DEF IInv
<1> QED
  BY <1>1, Invariance, PTL

\* So are the locals on its stack, whatever other contexts did meanwhile.
THEOREM StackKeptCorrect == Spec => []StackKept
<1>1. IInv => StackKept
  BY DEF IInv
<1> QED
  BY <1>1, Invariance, PTL

\* The first switch to a coroutine calls runCallBack by the rules of the ABI.
THEOREM EntryCorrect == Spec => []EntryByTheABI
<1>1. IInv => EntryByTheABI
  BY DEF IInv
<1> QED
  BY <1>1, Invariance, PTL

-----------------------------------------------------------------------------
(* The instructions implement one switch, at the ret *)

LEMMA RefineInit == Init => Abstract!Init
<1> SUFFICES ASSUME Init PROVE Abstract!Init
  OBVIOUS
<1>1. at.cor = Main /\ \A c \in Coroutines : c # Main /\ c \in Contexts
  BY SizesAssumption DEF Init, Code, Value, Coroutines, Contexts, Main
<1>2. \A c \in Coroutines : coctx[c][kRETAddr].kind = "zero"
  BY <1>1 DEF Init, Zero, Value, kRETAddr
<1>3. Life = [c \in Coroutines |-> "idle"]
  BY <1>1, <1>2 DEF Life
<1> QED
  BY <1>1, <1>3 DEF Abstract!Init, Control

\* Only the two halves of coctx_swap store in a coctx, in that of the context that
\* is running, so nobody's life changes before the ret.
LEMMA SaveStutters ==
  ASSUME IInv, SaveStep
  PROVE  UNCHANGED <<Control, Life>>
<1>1. ip \in 1 .. 17
  <2>1. ip \in 1 .. 33 /\ Program[ip][1] = "save"
    BY Fetched DEF SaveStep, IInv
  <2> QED
    BY <2>1, Instructions
<1>2. reg["rdi"].cor = at.cor
  BY <1>1, Lengths DEF IInv, Saving, Coctx, Value
<1>3. /\ coctx' = [coctx EXCEPT ![at.cor][Slot] = reg[Operand]]
      /\ at' = at
  BY <1>2 DEF SaveStep, Advance
<1>4. \A c \in Coroutines : c \in Contexts
  BY DEF Coroutines, Contexts
<1>5. \A c \in Coroutines : c # at.cor => coctx'[c] = coctx[c]
  BY <1>3, <1>4 DEF IInv, TypeOK
<1>6. Life' = Life
  BY <1>3, <1>5 DEF Life
<1> QED
  BY <1>3, <1>6 DEF Control

\* setCallBack makes a coroutine ready whose callback is not running.
LEMMA SetCallBackRefines ==
  ASSUME IInv, NEW c \in Coroutines, SetCallBack(c)
  PROVE  Abstract!Next
<1>1. /\ coctx' = [coctx EXCEPT ![c] = Boot(c)] /\ at' = at
      /\ Life[c] \in {"idle", "ready", "done"}
  BY DEF SetCallBack
<1>2. \A d \in Coroutines : d \in Contexts
  BY DEF Coroutines, Contexts
<1>3. coctx'[c][kRETAddr].kind = "entry"
  BY <1>1, <1>2 DEF IInv, TypeOK, Boot, Code, Value, kRETAddr, kRSP, kRBP
<1>4. \A d \in Coroutines : d # c => coctx'[d] = coctx[d]
  BY <1>1, <1>2 DEF IInv, TypeOK
<1>5. at.cor # c
  BY <1>1 DEF Life
<1>6. Life' = [Life EXCEPT ![c] = "ready"]
  BY <1>1, <1>3, <1>4, <1>5 DEF Life
<1>7. Abstract!Arm(c)
  BY <1>1, <1>6 DEF Abstract!Arm, Abstract!Become, Control
<1> QED
  BY <1>7 DEF Abstract!Next

\* The ret is the switch.
LEMMA RetRefines ==
  ASSUME IInv, RetStep
  PROVE  Abstract!Next
<1>1. /\ at' = coctx[goal][kRETAddr] /\ IInv'
      /\ UNCHANGED <<coctx, goal>> /\ ip' = 0 /\ ip # 0
  BY RetStepInv DEF RetStep, Fetch
<1>2. at'.cor = goal
  BY <1>1 DEF IInv, Restored
<1>3. /\ goal \in Contexts /\ at.cor \in Contexts
      /\ goal = Main <=> at.cor # Main
      /\ coctx[goal][kRETAddr].kind \in {"main", "entry", "yield"}
  BY <1>1, Target DEF IInv, TargetReady
<1>4. \A c \in Contexts : c \in Coroutines <=> c # Main
  BY SizesAssumption DEF Coroutines, Contexts, Main
<1>5. Control' = [Control EXCEPT !["thread"] = goal] /\ Control["thread"] = at.cor
  BY <1>2 DEF Control
<1>6. CASE goal = Main
  <2>1. PICK c \in Coroutines : c = at.cor
    BY <1>3, <1>4, <1>6
  <2>2. PICK l \in {"suspended", "done"} : Life'[c] = l
    <3>1. ip = 33
      BY Fetched, Instructions DEF RetStep, IInv
    <3>2. coctx[c][kRETAddr] \in ReturnPlaces(c) /\ c # Main
      BY <3>1, <2>1, <1>3, <1>6, Lengths DEF IInv, TargetReady
    <3>3. coctx[c][kRETAddr].kind \in {"yield", "final"}
      BY <3>2 DEF ReturnPlaces, Code, Value
    <3>4. coctx' = coctx /\ at'.cor # c
      BY <1>1, <1>2, <1>6, <3>2
    <3> QED
      BY <3>3, <3>4 DEF Life
  <2>3. Life' = [Life EXCEPT ![c] = l]
    <3>1. coctx' = coctx /\ at.cor = c /\ at'.cor \notin Coroutines
      BY <1>1, <1>2, <1>3, <1>4, <1>6, <2>1
    <3>2. \A d \in Coroutines : d # c => Life'[d] = Life[d]
      BY <3>1 DEF Life
    <3>3. Life = [d \in Coroutines |-> Life[d]] /\ Life' = [d \in Coroutines |-> Life'[d]]
      BY DEF Life
    <3> QED
      BY <2>2, <3>2, <3>3
  <2>4. Life[c] = "running"
    BY <2>1 DEF Life
  <2>5. Abstract!SwitchBack("thread")
    BY <1>3, <1>5, <1>6, <2>1, <2>3, <2>4 DEF Abstract!SwitchBack, Abstract!Become
  <2> QED
    BY <2>5 DEF Abstract!Next
<1>7. CASE goal # Main
  <2>1. PICK c \in Coroutines : c = goal
    BY <1>3, <1>4, <1>7
  <2>2. at.cor = Main /\ at.cor \notin Coroutines
    BY <1>3, <1>4, <1>7
  <2>3. coctx[c][kRETAddr].kind \in {"entry", "yield"}
    <3>1. Saved(c) \/ coctx[c] = Boot(c)
      BY <1>1, <2>1, Target
    <3>2. Saved(c) => coctx[c][kRETAddr].kind # "main"
      BY <1>4, <2>1, <1>3, <1>7 DEF Saved, ReturnPlaces, Code, Value
    <3>3. coctx[c] = Boot(c) => coctx[c][kRETAddr].kind # "main"
      BY DEF Boot, Code, Value, kRETAddr, kRSP, kRBP
    <3> QED
      BY <1>3, <2>1, <3>1, <3>2, <3>3
  <2>4. Life[c] \in {"ready", "suspended"}
    BY <2>2, <2>3 DEF Life
  <2>5. Life' = [Life EXCEPT ![c] = "running"]
    BY <1>1, <1>2, <2>1, <2>2 DEF Life
  <2>6. Abstract!SwitchTo("thread", c)
    BY <1>5, <2>1, <2>2, <2>4, <2>5 DEF Abstract!SwitchTo, Abstract!Become
  <2> QED
    BY <2>6 DEF Abstract!Next
<1> QED
  BY <1>6, <1>7

LEMMA RefineStep ==
  IInv /\ [Next]_vars => [Abstract!Next]_<<Control, Life>>
<1> SUFFICES ASSUME IInv, [Next]_vars PROVE Abstract!Next \/ UNCHANGED <<Control, Life>>
  OBVIOUS
<1>1. ASSUME UNCHANGED <<at, coctx>> PROVE UNCHANGED <<Control, Life>>
  BY <1>1 DEF Control, Life
<1>2. CASE SaveStep
  BY <1>2, SaveStutters
<1>3. CASE LoadStep \/ MoveStep \/ PushStep
  BY <1>3, <1>1 DEF LoadStep, MoveStep, PushStep, Advance
<1>4. CASE RetStep
  BY <1>4, RetRefines
<1>5. ASSUME NEW c \in Coroutines, SetCallBack(c) PROVE Abstract!Next
  BY <1>5, SetCallBackRefines
<1>6. ASSUME NEW c \in Coroutines, Resume(c) \/ Yield(c) PROVE UNCHANGED <<Control, Life>>
  BY <1>6, <1>1 DEF Resume, Yield, CallSwap
<1>7. CASE UNCHANGED vars
  BY <1>7, <1>1 DEF vars
<1> QED
  BY <1>2, <1>3, <1>4, <1>5, <1>6, <1>7 DEF Next, Instruction

\* Seen from outside, the thirty-three instructions are one switch: control goes
\* from the main program to a coroutine that has something to run and comes back,
\* and a coroutine suspended in its callback is continued, never restarted.
THEOREM ImplementsSwitch == Spec => SwitchSpec
BY RefineInit, RefineStep, Invariance, PTL DEF Spec, SwitchSpec, Abstract!Spec
================================================================================
