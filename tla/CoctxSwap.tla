------------------------------ MODULE CoctxSwap ------------------------------
(***************************************************************************)
(* coctx_swap.S, one instruction at a time, together with what setCallBack *)
(* writes into the saved registers of a coroutine.  Memory is counted in   *)
(* words of 8 bytes; a context is 0 (main) or the number of a coroutine.   *)
(*                                                                         *)
(* Words and registers hold tagged values, so that a property can tell     *)
(* where a value came from: two registers, two contexts or two successive  *)
(* switches never have the same value by chance.                           *)
(***************************************************************************)
EXTENDS Integers, Sequences, FiniteSets

CONSTANTS
  N,        \* number of coroutines
  Size,     \* m_stack_size in words
  Stride,   \* distance of two stack blocks in words: Size inside a block group
  Depth     \* bound: words of locals a function keeps on a stack

ASSUME SizesAssumption ==
  /\ N \in Nat \ {0} /\ Depth \in Nat
  /\ Size \in Nat /\ Size > Depth + 2
  /\ Stride \in Nat /\ Stride >= Size

VARIABLES
  reg,     \* the registers of the processor
  mem,     \* the words of all stacks
  coctx,   \* per context, regs[0 .. 13]
  ip,      \* the instruction of Code to execute; 0 in the code of the program
  at,      \* the place in the code of the program that was reached last
  goal,    \* the context that is to run
  left,    \* per context, the registers and words it left when it switched
  epoch    \* per context, a bit that changes with every switch

vars == <<reg, mem, coctx, ip, at, goal, left, epoch>>

-----------------------------------------------------------------------------
(* Values *)

Main == 0
Coroutines == 1 .. N
Contexts == 0 .. N

Registers == {"rax", "rbx", "rcx", "rdx", "rsi", "rdi", "rbp", "rsp",
              "r8", "r9", "r12", "r13", "r14", "r15"}

\* Registers a function must leave as it found them (besides rsp).
CalleeSaved == {"rbx", "rbp", "r12", "r13", "r14", "r15"}

Places == {"entry", "yield", "final", "main"}

Value(kind, c, n) == [kind |-> kind, cor |-> c, n |-> n]

Zero       == Value("zero", Main, 0)
Word(a)    == Value("word", Main, a)    \* the address of a word
Coctx(c)   == Value("coctx", c, 0)      \* &m_coctx
This(c)    == Value("this", c, 0)       \* the coroutine
Code(p, c) == Value(p, c, 0)            \* a place in the code, run by context c
Local(c)   == Value("local", c, epoch[c])

\* Enumerators of coctx.h.
kRBP == 6
kRDI == 7
kRETAddr == 9
kRSP == 13

Low(c) == (c - 1) * Stride                      \* m_stack_sp

\* The main stack starts above all blocks, on an even word.
MainTop == 2 * (N * Stride + Depth + 2)

Words == 0 .. MainTop

\* The 16-byte boundary at or below the end of the block.
Top(c) == LET end == Low(c) + Size IN end - (end % 2)

\* Words that belong to context c.
Own(c) == IF c = Main THEN N * Stride + 1 .. MainTop ELSE Low(c) .. Low(c) + Size - 1

Reg(r, v) == reg' = [reg EXCEPT ![r] = v]

Init ==
  /\ reg = [r \in Registers |-> IF r = "rsp" THEN Word(MainTop) ELSE Zero]
  /\ mem = [a \in Words |-> Zero]
  /\ coctx = [c \in Contexts |-> [i \in 0 .. 13 |-> Zero]]
  /\ ip = 0
  /\ at = Code("main", Main)
  /\ goal = Main
  /\ left = [c \in Contexts |-> [reg |-> reg, frame |-> {}, tag |-> Zero]]
  /\ epoch = [c \in Contexts |-> 0]

-----------------------------------------------------------------------------
(* The instructions; "save" and "load" move a register to and from a slot of *)
(* the coctx that %rdi and %rsi point to                                     *)

Save(r, i) == <<"save", r, i>>
Load(r, i) == <<"load", r, i>>
Other(op)  == <<op, "rax", 0>>

\* Mutants: the address of the return address is saved instead of it; it is not
\* saved at all.
SavesAddress ==
  << Other("lea"), Save("rax", 13), Save("rbx", 12), Save("rcx", 11), Save("rdx", 10),
     Save("rax", 9), Save("rsi", 8), Save("rdi", 7), Save("rbp", 6), Save("r8", 5),
     Save("r9", 4), Save("r12", 3), Save("r13", 2), Save("r14", 1), Save("r15", 0),
     Other("clear") >>

SavesNoReturn ==
  << Other("lea"), Save("rax", 13), Save("rbx", 12), Save("rcx", 11), Save("rdx", 10),
     Other("deref"), Save("rsi", 8), Save("rdi", 7), Save("rbp", 6), Save("r8", 5),
     Save("r9", 4), Save("r12", 3), Save("r13", 2), Save("r14", 1), Save("r15", 0),
     Other("clear") >>

Saves ==
  << Other("lea"), Save("rax", 13), Save("rbx", 12), Save("rcx", 11), Save("rdx", 10),
     Other("deref"), Save("rax", 9), Save("rsi", 8), Save("rdi", 7), Save("rbp", 6),
     Save("r8", 5), Save("r9", 4), Save("r12", 3), Save("r13", 2), Save("r14", 1),
     Save("r15", 0), Other("clear") >>

\* Mutants: %r12 comes from the slot of %r13; two words are dropped before the
\* return address is pushed.
LoadsSwapped ==
  << Load("rbp", 6), Load("rsp", 13), Load("r15", 0), Load("r14", 1), Load("r13", 2),
     Load("r12", 2), Load("r9", 4), Load("r8", 5), Load("rdi", 7), Load("rdx", 10),
     Load("rcx", 11), Load("rbx", 12), Other("skip"), Other("push"), Load("rsi", 8),
     Other("ret") >>

LoadsSkipTwo ==
  << Load("rbp", 6), Load("rsp", 13), Load("r15", 0), Load("r14", 1), Load("r13", 2),
     Load("r12", 3), Load("r9", 4), Load("r8", 5), Load("rdi", 7), Load("rdx", 10),
     Load("rcx", 11), Load("rbx", 12), Other("skip"), Other("skip"), Other("push"),
     Load("rsi", 8), Other("ret") >>

Loads ==
  << Load("rbp", 6), Load("rsp", 13), Load("r15", 0), Load("r14", 1), Load("r13", 2),
     Load("r12", 3), Load("r9", 4), Load("r8", 5), Load("rdi", 7), Load("rdx", 10),
     Load("rcx", 11), Load("rbx", 12), Other("skip"), Other("push"), Load("rsi", 8),
     Other("ret") >>

Program == Saves \o Loads

\* The next instruction is op; Operand and Slot are what it works on.
Fetch(op) == ip # 0 /\ Program[ip][1] = op

Operand == Program[ip][2]
Slot == Program[ip][3]

\* The coctx that a register points to.
Of(r) == coctx[reg[r].cor]
Pointer(r) == reg[r].kind = "coctx"

Sp == reg["rsp"].n

\* On to the next instruction, in the same function of the program.
Advance == ip' = ip + 1 /\ UNCHANGED <<at, goal, left, epoch>>

SaveStep ==
  /\ Fetch("save") /\ Pointer("rdi")
  /\ coctx' = [coctx EXCEPT ![reg["rdi"].cor][Slot] = reg[Operand]]
  /\ Advance /\ UNCHANGED <<reg, mem>>

LoadStep ==
  /\ Fetch("load") /\ Pointer("rsi")
  /\ Reg(Operand, Of("rsi")[Slot])
  /\ Advance /\ UNCHANGED <<mem, coctx>>

\* leaq (%rsp),%rax; movq 0(%rax),%rax; xorq %rax,%rax; leaq 8(%rsp),%rsp
MoveStep ==
  /\ \/ Fetch("lea") /\ Reg("rax", reg["rsp"])
     \/ Fetch("deref") /\ Reg("rax", mem[reg["rax"].n])
     \/ Fetch("clear") /\ Reg("rax", Zero)
     \/ Fetch("skip") /\ Reg("rsp", Word(Sp + 1))
  /\ Advance /\ UNCHANGED <<mem, coctx>>

\* pushq 72(%rsi)
PushStep ==
  /\ Fetch("push") /\ Pointer("rsi")
  /\ Reg("rsp", Word(Sp - 1))
  /\ mem' = [mem EXCEPT ![Sp - 1] = Of("rsi")[kRETAddr]]
  /\ Advance /\ UNCHANGED coctx

\* ret: the word on top of the stack says where the program goes on.
RetStep ==
  /\ Fetch("ret")
  /\ at' = mem[Sp]
  /\ Reg("rsp", Word(Sp + 1))
  /\ ip' = 0
  /\ UNCHANGED <<mem, coctx, goal, left, epoch>>

-----------------------------------------------------------------------------
(* The program *)

\* Context c executes code of the program, or of runCallBack, Resume and Yield.
Runs(c) == ip = 0 /\ at.cor = c

\* The life of a coroutine, told from the processor and its saved registers.
Life == [c \in Coroutines |->
  IF at.cor = c THEN "running"
  ELSE IF coctx[c][kRETAddr].kind = "zero" THEN "idle"
  ELSE IF coctx[c][kRETAddr].kind = "entry" THEN "ready"
  ELSE IF coctx[c][kRETAddr].kind = "yield" THEN "suspended"
  ELSE "done"]

\* Mutant: the end of the block is not rounded down.
BootUnaligned(c) == [i \in 0 .. 13 |->
  IF i \in {kRSP, kRBP} THEN Word(Low(c) + Size)
  ELSE IF i = kRETAddr THEN Code("entry", c)
  ELSE IF i = kRDI THEN This(c)
  ELSE Zero]

\* The context setCallBack prepares.
Boot(c) == [i \in 0 .. 13 |->
  IF i \in {kRSP, kRBP} THEN Word(Top(c))
  ELSE IF i = kRETAddr THEN Code("entry", c)
  ELSE IF i = kRDI THEN This(c)
  ELSE Zero]

\* Accepted while the running flag is false.
SetCallBack(c) ==
  /\ ip = 0
  /\ Life[c] \in {"idle", "ready", "done"}
  /\ coctx' = [coctx EXCEPT ![c] = Boot(c)]
  /\ UNCHANGED <<reg, mem, ip, at, goal, left, epoch>>

\* The functions that context c has entered keep their locals in d words, right
\* below the word at which its stack begins, and call coctx_swap.  place is
\* where that call returns to.
Base(c) == IF c = Main THEN MainTop ELSE Top(c) + 1

CallSwap(from, to, place) ==
  \E d \in 1 .. Depth + 1 :
    LET frame == Base(from) - d .. Base(from) - 1
        sp    == Base(from) - d - 1
        regs  == [r \in Registers |->
                    IF r = "rdi" THEN Coctx(from)
                    ELSE IF r = "rsi" THEN Coctx(to)
                    ELSE IF r = "rsp" THEN Word(sp)
                    ELSE Value(r, from, epoch[from])]
    IN
    /\ Runs(from)
    /\ reg' = regs
    /\ mem' = [a \in Words |-> IF a \in frame THEN Local(from)
                               ELSE IF a = sp THEN Code(place, from) ELSE mem[a]]
    /\ left' = [left EXCEPT ![from] =
         [reg |-> [regs EXCEPT !["rsp"] = Word(sp + 1)], frame |-> frame, tag |-> Local(from)]]
    /\ epoch' = [epoch EXCEPT ![from] = 1 - @]
    /\ goal' = to
    /\ ip' = 1
    /\ UNCHANGED <<coctx, at>>

Resume(c) == Life[c] \in {"ready", "suspended"} /\ CallSwap(Main, c, "main")

Yield(c) == \E place \in {"yield", "final"} : CallSwap(c, Main, place)

-----------------------------------------------------------------------------
Instruction == SaveStep \/ LoadStep \/ MoveStep \/ PushStep \/ RetStep

Next ==
  \/ Instruction
  \/ \E c \in Coroutines : SetCallBack(c) \/ Resume(c) \/ Yield(c)

Spec == Init /\ [][Next]_vars

-----------------------------------------------------------------------------
(* Properties *)

Values == [kind : Registers \cup Places \cup {"zero", "word", "coctx", "this", "local"},
           cor : Contexts, n : Words]

TypeOK ==
  /\ reg \in [Registers -> Values]
  /\ mem \in [Words -> Values]
  /\ coctx \in [Contexts -> [0 .. 13 -> Values]]
  /\ ip \in 0 .. Len(Program)
  /\ at \in [kind : Places, cor : Contexts, n : {0}]
  /\ goal \in Contexts
  /\ left \in [Contexts -> [reg : [Registers -> Values], frame : SUBSET Words, tag : Values]]
  /\ epoch \in [Contexts -> 0 .. 1]

\* A context that goes on after a call of coctx_swap is the one that was meant
\* to, at the place it left, with the stack pointer and all registers a callee
\* must keep as it left them, whatever the other contexts did meanwhile.
Restored ==
  ip = 0 => /\ at.cor = goal
            /\ at.kind \in {"main", "yield"} =>
                 \A r \in CalleeSaved \cup {"rsp"} : reg[r] = left[goal].reg[r]

\* The locals it left on its stack are there too: no switch of another context,
\* not even the first one into a new coroutine, writes to them.
StackKept ==
  ip = 0 /\ at.kind \in {"main", "yield"} =>
    \A a \in left[goal].frame : mem[a] = left[goal].tag

\* The first switch calls runCallBack by the rules of the x86-64 ABI: its
\* argument is the coroutine, the stack is 16-byte aligned but for the return
\* address, and the stack of this coroutine, almost all of it, lies below.
EntryByTheABI ==
  ip = 0 /\ at.kind = "entry" =>
    /\ reg["rdi"] = This(at.cor)
    /\ Sp % 2 = 1
    /\ Sp - Low(at.cor) \in Size - 1 .. Size + 1

\* The words in which a context keeps its locals and return address; the one that
\* its first return address is popped from is the last.
Area(c) == Base(c) - Depth - 2 .. Base(c) - 1

\* Where the stack of context c was when it called coctx_swap, and what is there.
FrameKept(c) ==
  /\ \E d \in 1 .. Depth + 1 :
       /\ left[c].frame = Base(c) - d .. Base(c) - 1
       /\ left[c].reg["rsp"] = Word(Base(c) - d)
  /\ \A a \in left[c].frame : mem[a] = left[c].tag

\* The place where context c goes on when coctx_swap returns.
ReturnPlaces(c) ==
  {Code(p, c) : p \in IF c = Main THEN {"main"} ELSE {"yield", "final"}}

\* What the instruction at p stores when context c calls coctx_swap: the stack
\* pointer and the return address go through %rax.
Stored(c, p) ==
  IF Program[p][3] = kRSP THEN Word(left[c].reg["rsp"].n - 1)
  ELSE IF Program[p][3] = kRETAddr THEN mem[left[c].reg["rsp"].n - 1]
  ELSE left[c].reg[Program[p][2]]

IsSave(p) == p \in DOMAIN Program /\ Program[p][1] = "save"
IsLoad(p) == p \in DOMAIN Program /\ Program[p][1] = "load"

\* The saved registers of a context that has left.
Saved(c) ==
  /\ FrameKept(c)
  /\ coctx[c][kRSP] = Word(left[c].reg["rsp"].n - 1)
  /\ coctx[c][kRETAddr] \in ReturnPlaces(c)
  /\ \A p \in DOMAIN Program : IsSave(p) /\ Program[p][3] \notin {kRSP, kRETAddr} =>
       coctx[c][Program[p][3]] = left[c].reg[Program[p][2]]

\* A context that is not running has left, or has been prepared by setCallBack, or
\* has never been used.
Stopped(c) ==
  \/ Saved(c)
  \/ c # Main /\ coctx[c] = Boot(c)
  \/ c # Main /\ coctx[c][kRETAddr] = Zero

AllStopped == \A c \in Contexts : c # at.cor \/ ip > Len(Saves) => Stopped(c)

\* The switch under way goes from the main program to a coroutine that can run,
\* or back; the context it leaves will go on where it called coctx_swap.
TargetReady ==
  ip # 0 => /\ goal = Main <=> at.cor # Main
            /\ coctx[goal][kRETAddr].kind \in {"main", "entry", "yield"}
            /\ ip > Len(Saves) => coctx[at.cor][kRETAddr] \in ReturnPlaces(at.cor)

\* The first half of coctx_swap, as far as it has come.
Saving ==
  ip \in 1 .. Len(Saves) =>
    LET sp == left[at.cor].reg["rsp"].n - 1 IN
    /\ FrameKept(at.cor)
    /\ mem[sp] \in ReturnPlaces(at.cor)
    /\ reg["rdi"] = Coctx(at.cor) /\ reg["rsi"] = Coctx(goal) /\ reg["rsp"] = Word(sp)
    /\ \A r \in Registers \ {"rsp", "rax"} : reg[r] = left[at.cor].reg[r]
    /\ ip \in 2 .. 6 => reg["rax"] = Word(sp)
    /\ ip \in 7 .. Len(Saves) => reg["rax"] = mem[sp]
    /\ \A p \in 1 .. ip - 1 : IsSave(p) => coctx[at.cor][Program[p][3]] = Stored(at.cor, p)

\* The second half.
Loading ==
  ip > Len(Saves) =>
    LET sp == coctx[goal][kRSP].n IN
    /\ ip < Len(Program) => reg["rsi"] = Coctx(goal)
    /\ ip > 19 => reg["rsp"] = IF ip = 31 THEN Word(sp + 1) ELSE Word(sp)
    /\ ip > 31 => mem[sp] = coctx[goal][kRETAddr]
    /\ \A p \in Len(Saves) + 1 .. ip - 1 :
         IsLoad(p) /\ Program[p][3] # kRSP => reg[Program[p][2]] = coctx[goal][Program[p][3]]

IInv ==
  /\ TypeOK /\ AllStopped /\ TargetReady /\ Saving /\ Loading
  /\ Restored /\ StackKept /\ EntryByTheABI

\* coroutine.h:58 calls m_stack_size the "coroutine stack size" and m_stack_sp
\* the "coroutine stack pointer": the words a context writes are within them.
OwnStackOnly ==
  [][\A a \in Words : mem'[a] # mem[a] => a \in Own(at.cor) \cup Own(goal)]_vars

\* All the instructions together implement one switch of asymmetric coroutines,
\* which happens at the ret.
Control == [t \in {"thread"} |-> at.cor]

Abstract == INSTANCE AsymmetricSwitch
              WITH Thread <- {"thread"}, Task <- Coroutines, at <- Control, life <- Life

SwitchSpec == Abstract!Spec
=============================================================================
