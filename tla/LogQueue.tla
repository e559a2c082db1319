------------------------------- MODULE LogQueue -------------------------------
(***************************************************************************)
(* SPSCVarQueueOPT of fmtlog.h: the queue between a thread that logs (the  *)
(* producer) and the thread that polls (the consumer).  There is no lock;  *)
(* every load and store of memory that both use is a step of its own, in   *)
(* program order (on x86-64 the volatile accesses keep it).                *)
(*                                                                         *)
(* A message takes a number of blocks, its header being the first.  The    *)
(* size field of a header is 0 (nothing here yet), 1 (go on at block 0) or *)
(* the size of a message, which is 8 bytes per block here.  A program may  *)
(* log a message larger than the ring: alloc does not look at its size,    *)
(* and never has room for it.                                              *)
(***************************************************************************)
EXTENDS Integers, Sequences

CONSTANTS
  BLK_CNT,   \* number of blocks
  Sizes,     \* the sizes of messages, in blocks: a header, a time stamp, arguments
  MaxMsgs,   \* bound: number of messages sent
  Builds     \* the values of FMTLOG_BLOCK: try again when the queue is full, or not

ASSUME SizesAssumption ==
  /\ BLK_CNT \in Nat \ {0} /\ MaxMsgs \in Nat /\ Builds \subseteq BOOLEAN
  /\ Sizes \subseteq Nat \ {0, 1}

VARIABLES
  blocking,   \* FMTLOG_BLOCK of this build; it never changes
  blk,        \* the blocks: size field, and the message whose data it holds
  write_idx, free_write_cnt, read_idx,
  producer,   \* the step the producer is at
  blk_sz, read_idx_cache, ret,      \* locals of alloc
  consumer,   \* the step the consumer is at
  sent,       \* number of messages pushed
  handled,    \* the message handled last, Torn if its blocks did not fit together
  placed      \* history: block and number of blocks of each message not yet popped

indices == <<write_idx, free_write_cnt>>
locals  == <<blk_sz, read_idx_cache, ret>>
vars == <<blocking, blk, indices, read_idx, producer, locals, consumer, sent, handled, placed>>

-----------------------------------------------------------------------------
(* Values *)

Index == 0 .. BLK_CNT - 1

Torn == -1

Bytes(n) == 8 * n

\* The sizes of the messages that can get into the ring: one block stays free.
Fitting == {n \in Sizes : n < BLK_CNT}

\* The blocks of a message, from its size field.
Blocks(size) == (size + 7) \div 8

\* Stores to the size field of block i.
SetSize(i, size) == blk' = [blk EXCEPT ![i].size = size]

Init ==
  /\ blocking \in Builds
  /\ blk = [i \in Index |-> [size |-> 0, msg |-> 0]]
  /\ write_idx = 0 /\ free_write_cnt = BLK_CNT /\ read_idx = 0
  /\ producer = "idle"
  /\ blk_sz = 0 /\ read_idx_cache = 0 /\ ret = 0
  /\ consumer = "front"
  /\ sent = 0 /\ handled = 0 /\ placed = << >>

-----------------------------------------------------------------------------
(* The producer: log, alloc, push *)

ProducerAt(from, to) == producer = from /\ producer' = to

\* A thread logs a message of n blocks.
Log(n) ==
  /\ sent < MaxMsgs
  /\ ProducerAt("idle", IF n < free_write_cnt THEN "check" ELSE "load")
  /\ blk_sz' = n
  /\ UNCHANGED <<blocking, blk, indices, read_idx, read_idx_cache, ret, consumer, sent, handled, placed>>

\* Mutants: no wrap-around; and the reader in front of the writer is forgotten.
LoadNoWrap ==
  /\ read_idx_cache' = read_idx
  /\ free_write_cnt' = IF read_idx <= write_idx THEN BLK_CNT - write_idx ELSE read_idx - write_idx
  /\ ProducerAt("load", "check")
  /\ UNCHANGED <<blocking, blk, write_idx, read_idx, blk_sz, ret, consumer, sent, handled, placed>>

LoadBehind ==
  /\ read_idx_cache' = read_idx
  /\ free_write_cnt' = BLK_CNT - write_idx
  /\ ProducerAt("load", IF blk_sz >= BLK_CNT - write_idx /\ read_idx # 0 THEN "wrap" ELSE "check")
  /\ UNCHANGED <<blocking, blk, write_idx, read_idx, blk_sz, ret, consumer, sent, handled, placed>>

\* The queue looks full: see how far the consumer is.
LoadReadIdx ==
  /\ read_idx_cache' = read_idx
  /\ free_write_cnt' = IF read_idx <= write_idx THEN BLK_CNT - write_idx ELSE read_idx - write_idx
  /\ ProducerAt("load", IF /\ read_idx <= write_idx
                           /\ blk_sz >= BLK_CNT - write_idx
                           /\ read_idx # 0
                        THEN "wrap" ELSE "check")
  /\ UNCHANGED <<blocking, blk, write_idx, read_idx, blk_sz, ret, consumer, sent, handled, placed>>

\* Wrap around: there is nothing at block 0 yet, and the consumer goes on there.
WrapFirst ==
  /\ ProducerAt("wrap", "mark")
  /\ SetSize(0, 0)
  /\ UNCHANGED <<blocking, indices, read_idx, locals, consumer, sent, handled, placed>>

\* Mutant: the consumer is not told to wrap around.
WrapUnmarked ==
  /\ ProducerAt("mark", "check")
  /\ write_idx' = 0
  /\ free_write_cnt' = read_idx_cache
  /\ UNCHANGED <<blocking, blk, read_idx, locals, consumer, sent, handled, placed>>

WrapMark ==
  /\ ProducerAt("mark", "check")
  /\ SetSize(write_idx, 1)
  /\ write_idx' = 0
  /\ free_write_cnt' = read_idx_cache
  /\ UNCHANGED <<blocking, read_idx, locals, consumer, sent, handled, placed>>

\* alloc returns nullptr: drop the message, or try again.
Full ==
  /\ free_write_cnt <= blk_sz
  /\ ProducerAt("check", IF blocking THEN "load" ELSE "idle")
  /\ UNCHANGED <<blocking, blk, indices, read_idx, locals, consumer, sent, handled, placed>>

\* Mutant: the header after the message is not cleared.
PlaceUncleared ==
  /\ free_write_cnt > blk_sz
  /\ ProducerAt("check", "fill")
  /\ ret' = write_idx
  /\ write_idx' = write_idx + blk_sz
  /\ free_write_cnt' = free_write_cnt - blk_sz
  /\ placed' = Append(placed, [idx |-> write_idx, cnt |-> blk_sz])
  /\ UNCHANGED <<blocking, blk, read_idx, blk_sz, read_idx_cache, consumer, sent, handled>>

\* The blocks are taken, and the header after them is cleared.
Place ==
  /\ free_write_cnt > blk_sz
  /\ ProducerAt("check", "fill")
  /\ ret' = write_idx
  /\ write_idx' = write_idx + blk_sz
  /\ free_write_cnt' = free_write_cnt - blk_sz
  /\ placed' = Append(placed, [idx |-> write_idx, cnt |-> blk_sz])
  /\ SetSize(write_idx + blk_sz, 0)
  /\ UNCHANGED <<blocking, read_idx, blk_sz, read_idx_cache, consumer, sent, handled>>

\* The message is written, then made visible.
Fill ==
  /\ ProducerAt("fill", "push")
  /\ blk' = [i \in Index |-> IF i \in ret .. ret + blk_sz - 1
                             THEN [blk[i] EXCEPT !.msg = sent + 1] ELSE blk[i]]
  /\ UNCHANGED <<blocking, indices, read_idx, locals, consumer, sent, handled, placed>>

Push ==
  /\ ProducerAt("push", "idle")
  /\ SetSize(ret, Bytes(blk_sz))
  /\ sent' = sent + 1
  /\ UNCHANGED <<blocking, indices, read_idx, locals, consumer, handled, placed>>

-----------------------------------------------------------------------------
(* The consumer: front, handleLog, pop *)

ConsumerAt(from, to) == consumer = from /\ consumer' = to

AfterFront(size) == IF size = 0 THEN "front" ELSE "handle"

\* There is a message, or the mark that sends the consumer back to block 0.
Front ==
  /\ blk[read_idx].size # 0
  /\ IF blk[read_idx].size = 1
     THEN read_idx' = 0 /\ ConsumerAt("front", "first")
     ELSE UNCHANGED read_idx /\ ConsumerAt("front", "handle")
  /\ UNCHANGED <<blocking, blk, indices, producer, locals, sent, handled, placed>>

\* After a wrap-around, the header at block 0.
FrontFirst ==
  /\ ConsumerAt("first", AfterFront(blk[0].size))
  /\ UNCHANGED <<blocking, blk, indices, read_idx, producer, locals, sent, handled, placed>>

\* handleLog reads the message.
Handle ==
  /\ ConsumerAt("handle", "pop")
  /\ LET m == blk[read_idx].msg
         n == Blocks(blk[read_idx].size)
     IN handled' = IF \A i \in read_idx .. read_idx + n - 1 : i \in Index /\ blk[i].msg = m
                   THEN m ELSE Torn
  /\ UNCHANGED <<blocking, blk, indices, read_idx, producer, locals, sent, placed>>

Pop ==
  /\ ConsumerAt("pop", "front")
  /\ read_idx' = read_idx + Blocks(blk[read_idx].size)
  /\ placed' = SubSeq(placed, 2, Len(placed))
  /\ UNCHANGED <<blocking, blk, indices, producer, locals, sent, handled>>

-----------------------------------------------------------------------------
Alloc == LoadReadIdx \/ WrapFirst \/ WrapMark \/ Full \/ Place \/ Fill \/ Push

Poll == Front \/ FrontFirst \/ Handle \/ Pop

Next == Alloc \/ Poll \/ \E n \in Sizes : Log(n)

Spec == Init /\ [][Next]_vars

\* Both threads are scheduled, and the consumer polls again and again.
FairSpec == Spec /\ WF_vars(Alloc) /\ WF_vars(Poll)

-----------------------------------------------------------------------------
(* Properties *)

TypeOK ==
  /\ blocking \in Builds
  /\ blk \in [Index -> [size : {0, 1} \cup {Bytes(n) : n \in Fitting}, msg : 0 .. MaxMsgs]]
  /\ write_idx \in Index
  /\ free_write_cnt \in 0 .. BLK_CNT
  /\ read_idx \in Index
  /\ producer \in {"idle", "load", "wrap", "mark", "check", "fill", "push"}
  /\ blk_sz \in Sizes \cup {0} /\ read_idx_cache \in Index /\ ret \in Index
  /\ consumer \in {"front", "first", "handle", "pop"}
  /\ sent \in 0 .. MaxMsgs
  /\ handled \in 0 .. MaxMsgs
  /\ placed \in Seq([idx : Index, cnt : Fitting])

\* The last message placed has not been pushed yet; the first has been handled.
Unpushed == IF producer \in {"fill", "push"} THEN 1 ELSE 0
Taken == IF consumer = "pop" THEN 1 ELSE 0

Last == Len(placed)
Taking(k) == placed[k].idx .. placed[k].idx + placed[k].cnt - 1
Number(k) == handled - Taken + k

\* Messages placed and not popped are a chain from read_idx to write_idx: after
\* message k (or from read_idx) the next one, or the block to write, follows.
From(k) == IF k = 0 THEN read_idx ELSE placed[k].idx + placed[k].cnt
To(k)   == IF k = Last THEN write_idx ELSE placed[k + 1].idx

\* It follows at once, or at block 0 after a mark.
Linked == \A k \in 0 .. Last :
            From(k) = To(k) \/ (To(k) = 0 /\ From(k) # 0 /\ blk[From(k)].size = 1)

\* Blocks counted from read_idx on, through the end of the ring.
Pos(i) == IF i < read_idx THEN i + BLK_CNT ELSE i

\* The messages lie in the order they were sent, none over another or over the end.
Ordered == \A j \in 1 .. Last :
             /\ From(j) < BLK_CNT
             /\ \A k \in j .. Last : Pos(placed[j].idx) + placed[j].cnt <= Pos(To(k))

\* What was pushed is complete and can be seen; after that there is nothing.
Visible ==
  /\ \A k \in 1 .. Last - Unpushed :
       /\ blk[placed[k].idx].size = Bytes(placed[k].cnt)
       /\ \A i \in Taking(k) : blk[i].msg = Number(k)
  /\ blk[write_idx].size = 0
  /\ Unpushed = 1 => /\ Last > 0 /\ placed[Last] = [idx |-> ret, cnt |-> blk_sz]
                     /\ blk[ret].size = 0
  /\ producer = "push" => \A i \in ret .. ret + blk_sz - 1 : blk[i].msg = sent + 1

\* The messages of the chain are those sent and not popped.
Numbered == handled + Last = sent + Unpushed + Taken

\* The consumer has a message in hand, or has just wrapped around.
Reader ==
  /\ consumer \in {"handle", "pop"} => Last > Unpushed /\ read_idx = placed[1].idx
  /\ consumer = "first" => read_idx = 0

\* The producer is about to wrap around: block 0 was read long ago.
Wrapping ==
  /\ producer \in {"wrap", "mark"} =>
       read_idx_cache > 0 /\ read_idx_cache <= read_idx /\ read_idx <= write_idx
  /\ producer = "mark" => blk[0].size = 0

\* The producer has a message to send.
Logging == producer # "idle" => blk_sz \in Sizes /\ sent < MaxMsgs

\* Both indices stay one in front of the other: the producer never writes, nor
\* clears the header after its message, in blocks that hold a message not yet
\* read.  Between the two, the free blocks are at least those the producer
\* counts on, though the consumer has moved since it counted them.
FreeBlocksFree ==
  \/ read_idx <= write_idx /\ write_idx + free_write_cnt <= BLK_CNT
  \/ read_idx > write_idx /\ write_idx + free_write_cnt <= read_idx

IInv ==
  /\ TypeOK /\ Linked /\ Ordered /\ Visible /\ Numbered /\ Reader /\ Wrapping /\ Logging
  /\ FreeBlocksFree

\* A log statement ends: a thread that tries again gets its message in, wherever
\* the indices are, if the message is smaller than the ring; and one that does
\* not try again goes on, whatever the size.  (With FMTLOG_BLOCK a message of
\* BLK_CNT or more blocks is tried for ever.)
AllocSucceeds ==
  producer # "idle" /\ (blk_sz < BLK_CNT \/ ~blocking) ~> producer = "idle"

\* Every message sent is handled, also while a thread tries one that does not fit.
AllHandled == \A m \in 1 .. MaxMsgs : sent = m ~> handled >= m

\* The blocks and indices implement a first-in first-out queue, of the messages
\* that the blocks between the indices hold.
Queue == [k \in 1 .. Last - Taken - Unpushed |-> blk[placed[k + Taken].idx].msg]

Abstract == INSTANCE FifoQueue WITH queue <- Queue, delivered <- handled

FifoSpec == Abstract!Spec
=============================================================================
