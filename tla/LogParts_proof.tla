---------------------------- MODULE LogParts_proof ----------------------------
(***************************************************************************)
(* The parts of fmtlog around LogPoll: the two structures that threads     *)
(* share without a lock, and the file.                                     *)
(*                                                                         *)
(* LogQueue: the ring is a first-in first-out queue, for every number of   *)
(* blocks, set of message sizes and number of messages, in both builds.    *)
(* The messages between the two indices are a chain (Linked), laid out     *)
(* without overlap when blocks are counted from read_idx on (Ordered), and *)
(* what the producer still writes is behind it (FreeBlocksFree).           *)
(*                                                                         *)
(* ClockParams: tsc2ns never mixes two calibrations, for any number of     *)
(* readers and fields.  As long as the sequence number is the one the      *)
(* reader began with, no calibration has begun, so all it loaded is of the *)
(* last one; and the number never comes back to a value it had             *)
(* (SeqAssumption).                                                        *)
(*                                                                         *)
(* LogFile: in every state the messages in the buffer are those of the     *)
(* file that is open (Buffered) and come after all in the files (Written), *)
(* so a flush appends them in order to their own file (FlushedFiles).  The *)
(* first thing after a flush is an empty buffer, whatever file comes next, *)
(* which is why closeLogFile needs no more than that (EmptiedInv).         *)
(***************************************************************************)
EXTENDS LogQueue, ClockParams, LogFile, SequenceTheorems, TLAPS

-----------------------------------------------------------------------------
(* LogQueue: the chain of messages *)

SizeFields == {0, 1} \cup {Bytes(n) : n \in Fitting}

LEMMA Fits ==
  ASSUME NEW n \in Fitting
  PROVE  n \in Sizes /\ n \in 2 .. BLK_CNT - 1 /\ n \in Nat
BY SizesAssumption DEF Fitting

LEMMA Entry ==
  ASSUME TypeOK
  PROVE  /\ Last \in Nat
         /\ \A k \in 1 .. Last : placed[k] \in [idx : Index, cnt : Fitting]
<1>1. placed \in Seq([idx : Index, cnt : Fitting])
  BY DEF TypeOK
<1> DEFINE R == [idx : Index, cnt : Fitting]
<1>2. placed \in Seq(R)
  BY <1>1
<1> HIDE DEF R
<1>3. Len(placed) \in Nat /\ \A k \in 1 .. Len(placed) : placed[k] \in R
  BY <1>2
<1> QED
  BY <1>3 DEF R, Last

LEMMA Entries ==
  ASSUME TypeOK, NEW k \in 1 .. Last
  PROVE  /\ placed[k] = [idx |-> placed[k].idx, cnt |-> placed[k].cnt]
         /\ placed[k].idx \in 0 .. BLK_CNT - 1 /\ placed[k].idx \in Nat
         /\ placed[k].cnt \in 2 .. BLK_CNT - 1 /\ placed[k].cnt \in Nat
         /\ placed[k].cnt \in Fitting
         /\ placed[k].idx \in placed[k].idx .. placed[k].idx + placed[k].cnt
         /\ placed[k].idx + placed[k].cnt \in placed[k].idx .. placed[k].idx + placed[k].cnt
         /\ placed[k].idx \in Taking(k)
<1>1. placed[k] \in [idx : Index, cnt : Fitting]
  BY Entry
<1>2. /\ placed[k].idx \in Index /\ placed[k].cnt \in Fitting
      /\ placed[k] = [idx |-> placed[k].idx, cnt |-> placed[k].cnt]
  BY <1>1
<1> DEFINE x == placed[k].idx
           n == placed[k].cnt
<1>3. x \in 0 .. BLK_CNT - 1 /\ n \in Fitting
  BY <1>2 DEF Index
<1>4. Taking(k) = x .. x + n - 1
  BY DEF Taking
<1> HIDE DEF x, n
<1>5. n \in 2 .. BLK_CNT - 1 /\ BLK_CNT \in Nat
  BY <1>3, Fits, SizesAssumption
<1>6. x \in Nat /\ n \in Nat /\ x \in x .. x + n /\ x + n \in x .. x + n /\ x \in x .. x + n - 1
  BY <1>3, <1>5
<1> QED
  BY <1>2, <1>3, <1>4, <1>5, <1>6 DEF x, n

LEMMA Numerals ==
  ASSUME TypeOK
  PROVE  /\ BLK_CNT \in Nat /\ write_idx \in 0 .. BLK_CNT - 1 /\ read_idx \in 0 .. BLK_CNT - 1
         /\ Unpushed \in 0 .. 1 /\ Taken \in 0 .. 1
BY SizesAssumption DEF TypeOK, Index, Unpushed, Taken

\* The size field tells a message from the end and from a mark.
LEMMA SizeField ==
  ASSUME NEW n \in Fitting
  PROVE  Bytes(n) # 0 /\ Bytes(n) # 1 /\ Blocks(Bytes(n)) = n /\ Bytes(n) \in SizeFields
<1>1. n \in 2 .. BLK_CNT - 1 /\ n \in Nat
  BY Fits
<1>2. 8 * n # 0 /\ 8 * n # 1 /\ (8 * n + 7) \div 8 = n
  BY <1>1
<1> QED
  BY <1>2 DEF Bytes, Blocks, SizeFields

\* The blocks of a message, and the one after it, lie in the ring and follow one
\* another also when they are counted from read_idx on.
LEMMA InRing ==
  ASSUME TypeOK, Ordered, NEW k \in 1 .. Last,
         NEW i \in placed[k].idx .. placed[k].idx + placed[k].cnt
  PROVE  /\ i \in Index
         /\ Pos(i) = Pos(placed[k].idx) + (i - placed[k].idx)
         /\ Pos(placed[k].idx) + placed[k].cnt <= Pos(write_idx)
<1> DEFINE x == placed[k].idx
           n == placed[k].cnt
<1>1. x \in 0 .. BLK_CNT - 1 /\ n \in 2 .. BLK_CNT - 1 /\ Last \in Nat
  BY Entry, Entries
<1>2. x + n < BLK_CNT
  BY <1>1 DEF Ordered, From
<1>3. Pos(x) + n <= Pos(write_idx)
  <2>1. Last \in k .. Last
    BY <1>1
  <2>2. To(Last) = write_idx
    BY DEF To
  <2> QED
    BY <2>1, <2>2 DEF Ordered
<1> HIDE DEF x, n
<1>4. i \in 0 .. BLK_CNT - 1 /\ i >= x /\ i <= x + n
  BY <1>1, <1>2, Numerals DEF x, n
<1>5. Pos(i) = Pos(x) + (i - x)
  BY <1>1, <1>2, <1>3, <1>4, Numerals DEF Pos
<1> QED
  BY <1>3, <1>4, <1>5 DEF Index, x, n

LEMMA Chain ==
  ASSUME TypeOK, Ordered, NEW k \in 0 .. Last
  PROVE  /\ From(k) \in Index /\ To(k) \in Index
         /\ Pos(From(k)) <= Pos(To(k)) /\ Pos(To(k)) <= Pos(write_idx)
<1>0. Last \in Nat
  BY Entry
<1>1. From(k) \in Index
  <2>1. CASE k = 0
    BY <2>1, Numerals DEF From, Index
  <2>2. CASE k # 0
    <3>1. k \in 1 .. Last
      BY <2>2, <1>0
    <3> QED
      BY <2>2, <3>1, InRing, Entries DEF From
  <2> QED
    BY <2>1, <2>2
<1>2. To(k) \in Index
  <2>1. CASE k = Last
    BY <2>1, Numerals DEF To, Index
  <2>2. CASE k # Last
    <3>1. k + 1 \in 1 .. Last
      BY <2>2, <1>0
    <3> QED
      BY <2>2, <3>1, Entries DEF To, Index
  <2> QED
    BY <2>1, <2>2
<1>3. Pos(From(k)) <= Pos(To(k))
  <2>1. CASE k = 0
    BY <2>1, <1>2, Numerals DEF From, Pos, Index
  <2>2. CASE k # 0
    <3>1. k \in 1 .. Last /\ k \in k .. Last
      BY <2>2, <1>0
    <3>2. Pos(placed[k].idx) + placed[k].cnt <= Pos(To(k))
      BY <3>1 DEF Ordered
    <3>3. /\ placed[k].idx + placed[k].cnt \in placed[k].idx .. placed[k].idx + placed[k].cnt
          /\ placed[k].idx \in Nat /\ placed[k].cnt \in Nat
      BY <3>1, Entries
    <3>4. Pos(placed[k].idx + placed[k].cnt)
            = Pos(placed[k].idx) + (placed[k].idx + placed[k].cnt - placed[k].idx)
      BY <3>1, <3>3, InRing
    <3>5. Pos(placed[k].idx) \in Int
      BY <3>3, Numerals DEF Pos
    <3> QED
      BY <2>2, <3>2, <3>3, <3>4, <3>5 DEF From
  <2> QED
    BY <2>1, <2>2
<1>4. Pos(To(k)) <= Pos(write_idx)
  <2>1. CASE k = Last
    BY <2>1, Numerals DEF To, Pos
  <2>2. CASE k # Last
    <3>1. k + 1 \in 1 .. Last
      BY <2>2, <1>0
    <3>2. Pos(placed[k + 1].idx) + placed[k + 1].cnt <= Pos(write_idx)
      <4>1. placed[k + 1].idx \in placed[k + 1].idx .. placed[k + 1].idx + placed[k + 1].cnt
        BY <3>1, Entries
      <4> QED
        BY <3>1, <4>1, InRing
    <3>3. placed[k + 1].idx \in 0 .. BLK_CNT - 1 /\ placed[k + 1].cnt \in 2 .. BLK_CNT - 1
      BY <3>1, Entries
    <3> QED
      BY <2>2, <3>2, <3>3, Numerals DEF To, Pos
  <2> QED
    BY <2>1, <2>2
<1> QED
  BY <1>1, <1>2, <1>3, <1>4

\* A mark in the chain: the writer has wrapped around and the reader has not.
LEMMA Marks ==
  ASSUME TypeOK, Ordered, Linked, NEW k \in 0 .. Last, From(k) # To(k)
  PROVE  /\ write_idx < read_idx /\ From(k) >= read_idx
         /\ To(k) = 0 /\ From(k) # 0 /\ blk[From(k)].size = 1
<1>1. To(k) = 0 /\ From(k) # 0 /\ blk[From(k)].size = 1
  BY DEF Linked
<1>2. /\ From(k) \in 0 .. BLK_CNT - 1
      /\ Pos(From(k)) <= Pos(0) /\ Pos(0) <= Pos(write_idx)
  BY <1>1, Chain DEF Index
<1>3. write_idx < read_idx /\ From(k) >= read_idx
  BY <1>1, <1>2, Numerals DEF Pos
<1> QED
  BY <1>1, <1>3

\* Two messages have no block in common.
LEMMA Apart ==
  ASSUME TypeOK, Ordered, NEW j \in 1 .. Last, NEW k \in 1 .. Last, j # k
  PROVE  Taking(j) \cap Taking(k) = {} /\ placed[j].idx # placed[k].idx
<1>1. ASSUME NEW a \in 1 .. Last, NEW b \in 1 .. Last, a < b,
             NEW x \in Taking(a), NEW y \in Taking(b)
      PROVE  x # y
  <2>1. b - 1 \in a .. Last /\ b - 1 # Last /\ b - 1 + 1 = b
    BY <1>1, Entry
  <2>2. Pos(placed[a].idx) + placed[a].cnt <= Pos(placed[b].idx)
    BY <2>1 DEF Ordered, To
  <2>3. /\ placed[a].idx \in Nat /\ placed[b].idx \in Nat
        /\ placed[a].cnt \in Nat /\ placed[b].cnt \in Nat
    BY Entries
  <2>4. /\ x \in placed[a].idx .. placed[a].idx + placed[a].cnt
        /\ y \in placed[b].idx .. placed[b].idx + placed[b].cnt
        /\ x < placed[a].idx + placed[a].cnt /\ x \in Int /\ y \in Int /\ y >= placed[b].idx
    BY <1>1, <2>3 DEF Taking
  <2>5. /\ Pos(x) = Pos(placed[a].idx) + (x - placed[a].idx)
        /\ Pos(y) = Pos(placed[b].idx) + (y - placed[b].idx)
    BY <2>4, InRing
  <2>6. Pos(placed[a].idx) \in Int /\ Pos(placed[b].idx) \in Int
    BY <2>3, Numerals DEF Pos
  <2>7. Pos(x) < Pos(y)
    BY <2>2, <2>3, <2>4, <2>5, <2>6
  <2> QED
    BY <2>4, <2>7, Numerals DEF Pos
<1>2. j < k \/ k < j
  BY Entry
<1>3. placed[j].idx \in Taking(j) /\ placed[k].idx \in Taking(k)
  BY Entries
<1>4. Taking(j) \cap Taking(k) = {}
  BY <1>1, <1>2
<1> QED
  BY <1>3, <1>4

\* The block to write is behind all of them.
LEMMA Behind ==
  ASSUME TypeOK, Ordered, NEW k \in 1 .. Last
  PROVE  Pos(placed[k].idx) < Pos(write_idx) /\ placed[k].idx # write_idx
<1>1. placed[k].idx \in 0 .. BLK_CNT - 1 /\ placed[k].cnt \in 2 .. BLK_CNT - 1
  BY Entries
<1>2. Pos(placed[k].idx) + placed[k].cnt <= Pos(write_idx)
  <2>1. placed[k].idx \in placed[k].idx .. placed[k].idx + placed[k].cnt
    BY Entries
  <2> QED
    BY <2>1, InRing
<1> QED
  BY <1>1, <1>2, Numerals DEF Pos

LEMMA TakingIn ==
  ASSUME TypeOK, Ordered, NEW k \in 1 .. Last, NEW i \in Taking(k)
  PROVE  i \in Index
<1> DEFINE x == placed[k].idx
           n == placed[k].cnt
<1>1. i \in x .. x + n - 1
  BY DEF Taking
<1>2. x \in Nat /\ n \in Nat
  BY Entries
<1>3. i \in x .. x + n
  <2> HIDE DEF x, n
  <2> QED
    BY <1>1, <1>2
<1> QED
  BY <1>3, InRing

-----------------------------------------------------------------------------
(* Steps *)

\* What a store to a size field changes.
LEMMA SizeSet ==
  ASSUME TypeOK, NEW i \in Index, NEW z \in SizeFields, SetSize(i, z)
  PROVE  /\ blk' \in [Index -> [size : SizeFields, msg : 0 .. MaxMsgs]]
         /\ blk'[i].size = z
         /\ \A j \in Index : blk'[j].msg = blk[j].msg /\ (j # i => blk'[j].size = blk[j].size)
<1>1. blk \in [Index -> [size : SizeFields, msg : 0 .. MaxMsgs]]
  BY DEF TypeOK, SizeFields
<1>2. blk' = [blk EXCEPT ![i].size = z]
  BY DEF SetSize
<1> QED
  BY <1>1, <1>2

\* Steps that store nothing in the ring and move no index but the locals.
LEMMA Quiet ==
  ASSUME IInv, UNCHANGED <<blk, write_idx, read_idx, placed, sent>>,
         \/ UNCHANGED <<producer, ret, blk_sz>>
         \/ producer \notin {"fill", "push"} /\ producer' \notin {"fill", "push"},
         \/ handled' = handled /\ Taken' = Taken
         \/ handled' = handled + 1 /\ Taken = 0 /\ Taken' = 1
  PROVE  /\ Unpushed' = Unpushed
         /\ Linked' /\ Ordered' /\ Visible' /\ Numbered'
<1> USE DEF IInv
<1>1. Unpushed' = Unpushed
  BY DEF Unpushed
<1>2. Linked' /\ Ordered'
  BY DEF Linked, Ordered, From, To, Last, Pos
<1>3. \A k \in 1 .. Last : Number(k)' = Number(k)
  <2>1. handled \in Int /\ Taken \in Int /\ Taken' \in Int
    BY DEF TypeOK, Taken
  <2> QED
    BY <2>1 DEF Number
<1>4. Visible'
  <2>1. Last' = Last
    BY DEF Last
  <2>2. \A k \in 1 .. Last - Unpushed : k \in 1 .. Last
    BY Entry, Numerals
  <2> QED
    BY <1>1, <1>3, <2>1, <2>2 DEF Visible, Taking, Unpushed
<1>5. Numbered'
  <2>1. handled \in Int /\ Taken \in Int /\ Taken' \in Int /\ Last \in Int /\ Last' = Last
    BY Entry DEF TypeOK, Taken, Last
  <2>2. handled + Last = sent + Unpushed + Taken /\ sent \in Int /\ Unpushed \in Int
    BY Numerals DEF Numbered, TypeOK
  <2>3. handled' + Last = sent + Unpushed + Taken'
    <3>1. handled = sent + Unpushed + Taken - Last
      BY <2>1, <2>2
    <3> QED
      BY <2>1, <2>2, <3>1
  <2> QED
    BY <1>1, <2>1, <2>3 DEF Numbered
<1> QED
  BY <1>1, <1>2, <1>4, <1>5

LEMMA LogStep ==
  ASSUME IInv, NEW n \in Sizes, Log(n)
  PROVE  IInv'
<1> USE DEF IInv
<1>1. /\ producer = "idle" /\ producer' \in {"check", "load"} /\ sent < MaxMsgs /\ blk_sz' = n
      /\ UNCHANGED <<blocking, blk, indices, read_idx, read_idx_cache, ret, consumer, sent,
                     handled, placed>>
  BY DEF Log, ProducerAt
<1>2. /\ Unpushed' = Unpushed /\ Taken' = Taken
      /\ Linked' /\ Ordered' /\ Visible' /\ Numbered'
  <2>1. Taken' = Taken /\ handled' = handled
    BY <1>1 DEF Taken
  <2> QED
    BY <1>1, <2>1, Quiet DEF indices
<1>3. TypeOK'
  BY <1>1 DEF TypeOK, indices
<1>4. Reader' /\ FreeBlocksFree'
  BY <1>1, <1>2 DEF Reader, FreeBlocksFree, indices, Last
<1>5. Wrapping' /\ Logging'
  BY <1>1 DEF Wrapping, Logging
<1> QED
  BY <1>2, <1>3, <1>4, <1>5

LEMMA LoadStep ==
  ASSUME IInv, LoadReadIdx
  PROVE  IInv'
<1> USE DEF IInv
<1>1. /\ producer = "load" /\ producer' \in {"check", "wrap"} /\ read_idx_cache' = read_idx
      /\ free_write_cnt' = IF read_idx <= write_idx THEN BLK_CNT - write_idx
                           ELSE read_idx - write_idx
      /\ producer' = "wrap" => read_idx <= write_idx /\ read_idx # 0
      /\ UNCHANGED <<blocking, blk, write_idx, read_idx, blk_sz, ret, consumer, sent, handled,
                     placed>>
  BY DEF LoadReadIdx, ProducerAt
<1>2. /\ Unpushed' = Unpushed /\ Taken' = Taken
      /\ Linked' /\ Ordered' /\ Visible' /\ Numbered'
  <2>1. Taken' = Taken /\ handled' = handled
    BY <1>1 DEF Taken
  <2> QED
    BY <1>1, <2>1, Quiet
<1>3. TypeOK'
  <2>1. free_write_cnt' \in 0 .. BLK_CNT
    BY <1>1, Numerals
  <2> QED
    BY <1>1, <2>1 DEF TypeOK
<1>4. FreeBlocksFree'
  BY <1>1, Numerals DEF FreeBlocksFree
<1>5. Reader'
  BY <1>1, <1>2 DEF Reader, Last
<1>6. Wrapping' /\ Logging'
  BY <1>1, Numerals DEF Wrapping, Logging
<1> QED
  BY <1>2, <1>3, <1>4, <1>5, <1>6

\* blk[0].size = 0: the chain is in front of the end, away from block 0.
LEMMA WrapFirstStep ==
  ASSUME IInv, WrapFirst
  PROVE  IInv'
<1> USE DEF IInv
<1>1. /\ producer = "wrap" /\ producer' = "mark" /\ SetSize(0, 0)
      /\ UNCHANGED <<blocking, indices, read_idx, locals, consumer, sent, handled, placed>>
  BY DEF WrapFirst, ProducerAt
<1>2. read_idx > 0 /\ read_idx <= write_idx /\ 0 \in Index /\ 0 \in SizeFields
  <2>1. read_idx_cache \in Nat
    BY Numerals DEF TypeOK, Index
  <2> QED
    BY <1>1, <2>1, Numerals DEF Wrapping, Index, SizeFields
<1>3. /\ blk' \in [Index -> [size : SizeFields, msg : 0 .. MaxMsgs]]
      /\ blk'[0].size = 0
      /\ \A j \in Index : blk'[j].msg = blk[j].msg /\ (j # 0 => blk'[j].size = blk[j].size)
  BY <1>1, <1>2, SizeSet
<1>4. \A k \in 0 .. Last : From(k) = To(k)
  BY <1>2, Marks, Numerals
<1>5. ASSUME NEW k \in 1 .. Last PROVE placed[k].idx # 0 /\ placed[k].idx \in Index
  <2>1. Pos(placed[k].idx) < Pos(write_idx) /\ placed[k].idx \in 0 .. BLK_CNT - 1
    BY Behind, Entries
  <2> QED
    BY <1>2, <2>1, Numerals DEF Pos, Index
<1>6. TypeOK'
  BY <1>1, <1>3 DEF TypeOK, indices, locals, SizeFields
<1>7. Linked' /\ Ordered'
  BY <1>1, <1>4 DEF Linked, Ordered, From, To, Last, Pos, indices
<1>8. Unpushed' = 0 /\ Unpushed = 0 /\ Taken' = Taken /\ Last' = Last
  BY <1>1 DEF Unpushed, Taken, Last
<1>9. Visible'
  <2>1. \A k \in 1 .. Last : /\ Taking(k)' = Taking(k) /\ Number(k)' = Number(k)
                             /\ \A i \in Taking(k) : i \in Index
    BY <1>1, <1>8, TakingIn DEF Taking, Number
  <2>2. write_idx' = write_idx /\ blk'[write_idx].size = 0
    BY <1>1, <1>2, <1>3, Numerals DEF Visible, indices, Index
  <2>3. \A k \in 1 .. Last : /\ blk'[placed[k].idx].size = Bytes(placed[k].cnt)
                             /\ \A i \in Taking(k) : blk'[i].msg = Number(k)
    BY <1>3, <1>5, <1>8, <2>1, Entry DEF Visible
  <2> QED
    BY <1>1, <1>8, <2>1, <2>2, <2>3, Entry DEF Visible
<1>10. Numbered' /\ Reader'
  BY <1>1, <1>8 DEF Numbered, Reader
<1>11. Wrapping' /\ Logging' /\ FreeBlocksFree'
  BY <1>1, <1>3 DEF Wrapping, Logging, FreeBlocksFree, indices, locals
<1> QED
  BY <1>6, <1>7, <1>9, <1>10, <1>11

\* blk[write_idx].size = 1; write_idx = 0: the chain goes on at block 0.
LEMMA WrapMarkStep ==
  ASSUME IInv, WrapMark
  PROVE  IInv'
<1> USE DEF IInv
<1>1. /\ producer = "mark" /\ producer' = "check" /\ SetSize(write_idx, 1)
      /\ write_idx' = 0 /\ free_write_cnt' = read_idx_cache
      /\ UNCHANGED <<blocking, read_idx, locals, consumer, sent, handled, placed>>
  BY DEF WrapMark, ProducerAt
<1>2. /\ read_idx_cache > 0 /\ read_idx_cache <= read_idx /\ read_idx <= write_idx
      /\ read_idx_cache \in Nat /\ write_idx \in Index /\ 0 \in Index /\ write_idx # 0
      /\ 1 \in SizeFields
  <2>1. read_idx_cache \in Nat /\ write_idx \in Index
    BY Numerals DEF TypeOK, Index
  <2> QED
    BY <1>1, <2>1, Numerals DEF Wrapping, Index, SizeFields
<1>3. /\ blk' \in [Index -> [size : SizeFields, msg : 0 .. MaxMsgs]]
      /\ blk'[write_idx].size = 1 /\ blk'[0].size = 0
      /\ \A j \in Index : blk'[j].msg = blk[j].msg /\ (j # write_idx => blk'[j].size = blk[j].size)
  BY <1>1, <1>2, SizeSet DEF Wrapping
<1>4. \A k \in 0 .. Last : From(k) = To(k)
  BY <1>2, Marks, Numerals
<1>5. TypeOK'
  <2>1. free_write_cnt' \in 0 .. BLK_CNT
    BY <1>1, <1>2, Numerals
  <2> QED
    BY <1>1, <1>2, <1>3, <2>1 DEF TypeOK, locals, SizeFields
<1>6. /\ Unpushed' = 0 /\ Unpushed = 0 /\ Taken' = Taken /\ Last' = Last /\ Last \in Nat
      /\ \A k \in 0 .. Last : From(k)' = From(k)
      /\ \A k \in 0 .. Last : k # Last => To(k)' = To(k)
      /\ To(Last) = write_idx
      /\ \A k \in 0 .. Last : k = Last => To(k)' = 0
  BY <1>1, Entry DEF Unpushed, Taken, Last, From, To
<1>7. Linked'
  <2>1. ASSUME NEW k \in 0 .. Last
        PROVE  From(k)' = To(k)' \/ (To(k)' = 0 /\ From(k)' # 0 /\ blk'[From(k)'].size = 1)
    <3>1. CASE k = Last
      BY <3>1, <1>2, <1>3, <1>4, <1>6
    <3>2. CASE k # Last
      BY <3>2, <1>4, <1>6
    <3> QED
      BY <3>1, <3>2
  <2> QED
    BY <2>1, <1>6 DEF Linked
<1>8. Ordered'
  <2>1. ASSUME NEW j \in 1 .. Last
        PROVE  /\ From(j)' < BLK_CNT
               /\ \A k \in j .. Last : Pos(placed[j].idx) + placed[j].cnt <= Pos(To(k)')
    <3>1. j \in 0 .. Last /\ From(j) < BLK_CNT
      BY <1>6 DEF Ordered
    <3>2. ASSUME NEW k \in j .. Last
          PROVE  Pos(placed[j].idx) + placed[j].cnt <= Pos(To(k)')
      <4>1. CASE k = Last
        <5>1. Pos(placed[j].idx) + placed[j].cnt <= Pos(write_idx)
          BY Entries, InRing
        <5>2. placed[j].idx \in Nat /\ placed[j].cnt \in Nat
          BY Entries
        <5>3. Pos(0) = BLK_CNT
          BY <1>2, Numerals DEF Pos
        <5>4. To(k)' = 0
          BY <4>1, <1>6
        <5> QED
          BY <1>2, <5>1, <5>2, <5>3, <5>4, Numerals DEF Pos
      <4>2. CASE k # Last
        <5>1. k \in 0 .. Last
          BY <1>6
        <5> QED
          BY <4>2, <5>1, <1>6 DEF Ordered
      <4> QED
        BY <4>1, <4>2
    <3> QED
      BY <3>1, <3>2, <1>6
  <2>2. \A i : Pos(i)' = Pos(i')
    BY <1>1 DEF Pos
  <2> QED
    BY <2>1, <1>1, <1>6 DEF Ordered, Pos
<1>9. Visible'
  <2>1. ASSUME NEW k \in 1 .. Last
        PROVE  /\ blk'[placed[k].idx].size = Bytes(placed[k].cnt)
               /\ \A i \in Taking(k) : blk'[i].msg = Number(k)
    <3>1. placed[k].idx \in Index /\ placed[k].idx # write_idx
      BY Behind, Entries DEF Index
    <3>2. k \in 1 .. Last - Unpushed
      BY <1>6
    <3> QED
      BY <1>3, <3>1, <3>2, TakingIn DEF Visible
  <2>2. \A k \in 1 .. Last : Taking(k)' = Taking(k) /\ Number(k)' = Number(k)
    BY <1>1, <1>6 DEF Taking, Number
  <2> QED
    BY <1>1, <1>3, <1>6, <2>1, <2>2 DEF Visible
<1>10. Numbered' /\ Reader'
  BY <1>1, <1>6 DEF Numbered, Reader
<1>11. FreeBlocksFree'
  BY <1>1, <1>2, Numerals DEF FreeBlocksFree
<1>12. Wrapping' /\ Logging'
  BY <1>1 DEF Wrapping, Logging, locals
<1> QED
  BY <1>5, <1>7, <1>8, <1>9, <1>10, <1>11, <1>12

LEMMA FullStep ==
  ASSUME IInv, Full
  PROVE  IInv'
<1> USE DEF IInv
<1>1. /\ producer = "check" /\ producer' \in {"load", "idle"}
      /\ UNCHANGED <<blocking, blk, indices, read_idx, locals, consumer, sent, handled, placed>>
  BY DEF Full, ProducerAt
<1>2. /\ Unpushed' = Unpushed /\ Taken' = Taken
      /\ Linked' /\ Ordered' /\ Visible' /\ Numbered'
  <2>1. Taken' = Taken /\ handled' = handled
    BY <1>1 DEF Taken
  <2> QED
    BY <1>1, <2>1, Quiet DEF indices
<1>3. TypeOK'
  BY <1>1 DEF TypeOK, indices, locals
<1>4. Reader' /\ FreeBlocksFree'
  BY <1>1, <1>2 DEF Reader, FreeBlocksFree, indices, Last
<1>5. Wrapping' /\ Logging'
  BY <1>1 DEF Wrapping, Logging, locals
<1> QED
  BY <1>2, <1>3, <1>4, <1>5

\* front finds no mark.
LEMMA FrontFirstStep ==
  ASSUME IInv, FrontFirst
  PROVE  IInv'
<1> USE DEF IInv
<1>1. /\ consumer = "first" /\ consumer' = AfterFront(blk[0].size)
      /\ UNCHANGED <<blocking, blk, indices, read_idx, producer, locals, sent, handled, placed>>
  BY DEF FrontFirst, ConsumerAt
<1>2. consumer' \in {"front", "handle"} /\ (consumer' = "handle" => blk[0].size # 0)
  BY <1>1 DEF AfterFront
<1>3. /\ Unpushed' = Unpushed /\ Taken' = Taken /\ Last' = Last
      /\ Linked' /\ Ordered' /\ Visible' /\ Numbered'
  <2>1. Taken' = Taken /\ handled' = handled
    BY <1>1, <1>2 DEF Taken
  <2> QED
    BY <1>1, <2>1, Quiet DEF indices, locals, Last
<1>4. TypeOK'
  BY <1>1, <1>2 DEF TypeOK, indices, locals
<1>5. read_idx = 0 /\ To(0) = 0
  <2>1. read_idx = 0 /\ 0 \in 0 .. Last
    BY <1>1, Entry DEF Reader
  <2> QED
    BY <2>1 DEF Linked, From
<1>6. ASSUME blk[0].size # 0 PROVE Last > Unpushed /\ placed[1].idx = 0
  <2>1. Last # 0
    BY <1>5, <1>6 DEF To, Visible
  <2>2. placed[1].idx = 0
    BY <1>5, <2>1 DEF To
  <2>3. CASE Last = 1 /\ Unpushed = 1
    BY <1>6, <2>2, <2>3 DEF Visible
  <2> QED
    BY <2>1, <2>2, <2>3, Entry, Numerals
<1>7. Reader'
  BY <1>1, <1>2, <1>3, <1>5, <1>6 DEF Reader
<1>8. FreeBlocksFree' /\ Wrapping' /\ Logging'
  BY <1>1 DEF FreeBlocksFree, Wrapping, Logging, indices, locals
<1> QED
  BY <1>3, <1>4, <1>7, <1>8

LEMMA HandleStep ==
  ASSUME IInv, Handle
  PROVE  /\ IInv' /\ handled' = handled + 1
         /\ consumer = "handle" /\ consumer' = "pop"
         /\ UNCHANGED <<blocking, blk, indices, read_idx, producer, locals, sent, placed>>
<1> USE DEF IInv
<1>1. /\ consumer = "handle" /\ consumer' = "pop"
      /\ UNCHANGED <<blocking, blk, indices, read_idx, producer, locals, sent, placed>>
  BY DEF Handle, ConsumerAt
<1>2. /\ 1 \in 1 .. Last /\ 1 \in 1 .. Last - Unpushed /\ read_idx = placed[1].idx
      /\ Taken = 0 /\ Taken' = 1
  BY <1>1, Entry, Numerals DEF Reader, Taken
<1>3. /\ Blocks(blk[read_idx].size) = placed[1].cnt
      /\ \A i \in Taking(1) : i \in Index /\ blk[i].msg = handled + 1
      /\ read_idx \in Taking(1)
  <2>1. /\ blk[read_idx].size = Bytes(placed[1].cnt)
        /\ \A i \in Taking(1) : blk[i].msg = Number(1)
    BY <1>2 DEF Visible
  <2>2. Number(1) = handled + 1
    <3>1. handled \in Int
      BY DEF TypeOK
    <3> QED
      BY <1>2, <3>1 DEF Number
  <2> QED
    BY <1>2, <2>1, <2>2, Entries, SizeField, TakingIn
<1>4. handled' = handled + 1
  <2>1. Taking(1) = read_idx .. read_idx + Blocks(blk[read_idx].size) - 1
    BY <1>2, <1>3 DEF Taking
  <2>2. blk[read_idx].msg = handled + 1
    BY <1>3
  <2> QED
    BY <1>3, <2>1, <2>2 DEF Handle
<1>5. /\ Unpushed' = Unpushed /\ Last' = Last
      /\ Linked' /\ Ordered' /\ Visible' /\ Numbered'
  BY <1>1, <1>2, <1>4, Quiet DEF indices, locals, Last
<1>6. TypeOK'
  <2>1. handled' \in 0 .. MaxMsgs
    <3>1. read_idx \in Index /\ blk[read_idx].msg = handled + 1
      BY <1>3 DEF TypeOK
    <3> QED
      BY <1>4, <3>1 DEF TypeOK
  <2> QED
    BY <1>1, <2>1 DEF TypeOK, indices, locals
<1>7. Reader' /\ FreeBlocksFree' /\ Wrapping' /\ Logging'
  BY <1>1, <1>5 DEF Reader, FreeBlocksFree, Wrapping, Logging, indices, locals
<1> QED
  BY <1>1, <1>4, <1>5, <1>6, <1>7

\* alloc succeeds: the message takes the free blocks behind the chain, and the
\* header that is cleared after it is one more of them.
LEMMA PlaceStep ==
  ASSUME IInv, Place
  PROVE  IInv'
<1> USE DEF IInv
<1>e. PICK e : e = write_idx + blk_sz
  OBVIOUS
<1>r. PICK r : r = [idx |-> write_idx, cnt |-> blk_sz]
  OBVIOUS
<1>1. /\ producer = "check" /\ producer' = "fill" /\ free_write_cnt > blk_sz
      /\ ret' = write_idx /\ write_idx' = e /\ free_write_cnt' = free_write_cnt - blk_sz
      /\ placed' = Append(placed, r) /\ SetSize(e, 0)
      /\ UNCHANGED <<blocking, read_idx, blk_sz, read_idx_cache, consumer, sent, handled>>
  BY <1>e, <1>r DEF Place, ProducerAt
<1>2. blk_sz \in Fitting /\ blk_sz \in 2 .. BLK_CNT - 1 /\ free_write_cnt \in 0 .. BLK_CNT
  <2>1. blk_sz \in Sizes /\ free_write_cnt \in 0 .. BLK_CNT /\ BLK_CNT \in Nat
    BY <1>1, SizesAssumption DEF Logging, TypeOK
  <2>2. blk_sz \in Nat /\ blk_sz < BLK_CNT
    BY <2>1, <1>1, SizesAssumption
  <2>3. blk_sz \in Fitting
    BY <2>1, <2>2 DEF Fitting
  <2> QED
    BY <2>1, <2>3, Fits
<1>3. /\ e \in 0 .. BLK_CNT - 1 /\ e > write_idx
      /\ write_idx < read_idx => e < read_idx
      /\ Pos(e) = Pos(write_idx) + blk_sz
  <2>1. /\ e \in 0 .. BLK_CNT - 1 /\ e > write_idx
        /\ write_idx < read_idx => e < read_idx
    BY <1>e, <1>1, <1>2, Numerals DEF FreeBlocksFree
  <2> QED
    BY <1>e, <1>2, <2>1, Numerals DEF Pos
<1>4. e \in Index /\ 0 \in SizeFields
  BY <1>3 DEF Index, SizeFields
<1>5. /\ blk' \in [Index -> [size : SizeFields, msg : 0 .. MaxMsgs]]
      /\ blk'[e].size = 0
      /\ \A j \in Index : blk'[j].msg = blk[j].msg /\ (j # e => blk'[j].size = blk[j].size)
  BY <1>1, <1>4, SizeSet
<1>6. r \in [idx : Index, cnt : Fitting]
  BY <1>r, <1>2 DEF TypeOK
<1>7. /\ placed' \in Seq([idx : Index, cnt : Fitting])
      /\ Last' = Last + 1 /\ Last \in Nat
      /\ \A k \in 1 .. Last : placed'[k] = placed[k]
      /\ placed'[Last + 1] = r
  <2> DEFINE R == [idx : Index, cnt : Fitting]
  <2>1. placed \in Seq(R) /\ r \in R
    BY <1>6 DEF TypeOK
  <2> HIDE DEF R
  <2>2. /\ placed' \in Seq(R) /\ Len(placed') = Len(placed) + 1 /\ Len(placed) \in Nat
        /\ \A k \in 1 .. Len(placed) : placed'[k] = placed[k]
        /\ placed'[Len(placed) + 1] = r
    BY <1>1, <2>1
  <2> QED
    BY <2>2 DEF R, Last
<1>8. PICK m \in Nat : m = Last
  BY <1>7
<1>9. ASSUME NEW k \in 0 .. m PROVE From(k)' = From(k) /\ To(k)' = To(k)
  <2>1. From(k)' = From(k)
    <3>1. k = 0 \/ k \in 1 .. Last
      BY <1>8
    <3>2. k # 0 => placed'[k] = placed[k]
      BY <3>1, <1>7
    <3> QED
      BY <3>2, <1>1 DEF From
  <2>2. To(k)' = To(k)
    <3>1. CASE k = m
      <4>1. placed'[k + 1] = r /\ k # Last'
        BY <3>1, <1>7, <1>8
      <4> QED
        BY <3>1, <4>1, <1>r, <1>8 DEF To
    <3>2. CASE k # m
      <4>1. placed'[k + 1] = placed[k + 1] /\ k # Last' /\ k # Last
        BY <3>2, <1>7, <1>8
      <4> QED
        BY <4>1 DEF To
    <3> QED
      BY <3>1, <3>2
  <2> QED
    BY <2>1, <2>2
<1>10. From(m + 1)' = e /\ To(m + 1)' = e
  <2>1. placed'[m + 1] = r /\ m + 1 # 0 /\ Last' = m + 1
    BY <1>7, <1>8
  <2>2. From(m + 1)' = placed'[m + 1].idx + placed'[m + 1].cnt
    BY <2>1 DEF From
  <2>3. To(m + 1)' = write_idx'
    BY <2>1 DEF To
  <2> QED
    BY <2>1, <2>2, <2>3, <1>1, <1>e, <1>r
<1>11. Linked'
  <2>1. ASSUME NEW k \in 0 .. m + 1
        PROVE  From(k)' = To(k)' \/ (To(k)' = 0 /\ From(k)' # 0 /\ blk'[From(k)'].size = 1)
    <3>1. CASE k = m + 1
      BY <3>1, <1>10
    <3>2. CASE k # m + 1
      <4>1. k \in 0 .. m /\ k \in 0 .. Last
        BY <3>2, <1>8
      <4>2. CASE From(k) = To(k)
        BY <4>1, <4>2, <1>9
      <4>3. CASE From(k) # To(k)
        <5>1. /\ write_idx < read_idx /\ From(k) >= read_idx
              /\ To(k) = 0 /\ From(k) # 0 /\ blk[From(k)].size = 1
          BY <4>1, <4>3, Marks
        <5>2. From(k) \in Index /\ From(k) # e
          BY <4>1, <5>1, <1>3, Chain, Numerals DEF Index
        <5> QED
          BY <4>1, <5>1, <5>2, <1>5, <1>9
      <4> QED
        BY <4>2, <4>3
    <3> QED
      BY <3>1, <3>2
  <2> QED
    BY <2>1, <1>7, <1>8 DEF Linked
<1>12. Ordered'
  <2>1. ASSUME NEW j \in 1 .. m + 1
        PROVE  /\ From(j)' < BLK_CNT
               /\ \A k \in j .. m + 1 :
                    Pos(placed'[j].idx) + placed'[j].cnt <= Pos(To(k)')
    <3>1. CASE j = m + 1
      <4>1. \A k \in j .. m + 1 : k = m + 1
        BY <3>1
      <4>2. placed'[j].idx = write_idx /\ placed'[j].cnt = blk_sz /\ From(j)' < BLK_CNT
        BY <3>1, <1>3, <1>7, <1>8, <1>10, <1>r, Numerals
      <4>3. Pos(write_idx) + blk_sz <= Pos(e)
        BY <1>2, <1>3, Numerals DEF Pos
      <4> QED
        BY <4>1, <4>2, <4>3, <1>10
    <3>2. CASE j # m + 1
      <4>1. j \in 1 .. Last /\ j \in 0 .. m /\ placed'[j] = placed[j]
        BY <3>2, <1>7, <1>8
      <4>2. From(j)' < BLK_CNT
        BY <4>1, <1>9 DEF Ordered
      <4>3. ASSUME NEW k \in j .. m + 1
            PROVE  Pos(placed[j].idx) + placed[j].cnt <= Pos(To(k)')
        <5>1. CASE k = m + 1
          <6>1. Pos(placed[j].idx) + placed[j].cnt <= Pos(write_idx)
            BY <4>1, Entries, InRing
          <6>2. placed[j].idx \in Nat /\ placed[j].cnt \in Nat
            BY <4>1, Entries
          <6>3. Pos(placed[j].idx) \in Int /\ Pos(write_idx) \in Int
            BY <6>2, Numerals DEF Pos
          <6> QED
            BY <5>1, <6>1, <6>2, <6>3, <1>2, <1>3, <1>10
        <5>2. CASE k # m + 1
          <6>1. k \in j .. Last /\ k \in 0 .. m
            BY <5>2, <4>1, <1>8
          <6> QED
            BY <6>1, <4>1, <1>9 DEF Ordered
        <5> QED
          BY <5>1, <5>2
      <4> QED
        BY <4>1, <4>2, <4>3
    <3> QED
      BY <3>1, <3>2
  <2> QED
    BY <2>1, <1>1, <1>7, <1>8 DEF Ordered, Pos
<1>13. Unpushed = 0 /\ Unpushed' = 1 /\ Taken' = Taken
  BY <1>1 DEF Unpushed, Taken
<1>14. Visible'
  <2>1. ASSUME NEW k \in 1 .. m
        PROVE  /\ blk'[placed'[k].idx].size = Bytes(placed'[k].cnt)
               /\ \A i \in Taking(k)' : blk'[i].msg = Number(k)'
    <3>1. k \in 1 .. Last /\ k \in 1 .. Last - Unpushed
      BY <1>8, <1>13
    <3>2. /\ blk[placed[k].idx].size = Bytes(placed[k].cnt)
          /\ \A i \in Taking(k) : blk[i].msg = Number(k)
      BY <3>1 DEF Visible
    <3>3. placed'[k] = placed[k] /\ Taking(k)' = Taking(k) /\ Number(k)' = Number(k)
      BY <3>1, <1>1, <1>7, <1>13 DEF Taking, Number
    <3>4. placed[k].idx \in Index /\ placed[k].idx # e
      <4>1. placed[k].idx \in 0 .. BLK_CNT - 1 /\ Pos(placed[k].idx) < Pos(write_idx)
        BY <3>1, Entries, Behind
      <4> QED
        BY <4>1, <1>2, <1>3, Numerals DEF Pos, Index
    <3> QED
      BY <3>1, <3>2, <3>3, <3>4, <1>5, TakingIn
  <2>2. blk'[write_idx'].size = 0
    BY <1>1, <1>5
  <2>3. write_idx \in Index /\ write_idx # e /\ blk'[write_idx].size = 0
    <3>1. write_idx \in Index /\ write_idx # e
      BY <1>3, Numerals DEF TypeOK, Index
    <3>2. blk[write_idx].size = 0
      BY DEF Visible
    <3> QED
      BY <3>1, <3>2, <1>5
  <2>4. Last' > 0 /\ placed'[Last'] = [idx |-> ret', cnt |-> blk_sz']
    BY <1>1, <1>7, <1>8, <1>r
  <2>5. Last' - Unpushed' = m
    BY <1>7, <1>8, <1>13
  <2> QED
    BY <1>1, <2>1, <2>2, <2>3, <2>4, <2>5 DEF Visible
<1>15. TypeOK'
  <2>1. /\ free_write_cnt' \in 0 .. BLK_CNT /\ write_idx' \in Index /\ ret' \in Index
    <3>1. free_write_cnt - blk_sz \in 0 .. BLK_CNT
      BY <1>1, <1>2, Numerals
    <3> QED
      BY <1>1, <1>4, <3>1 DEF TypeOK
  <2> QED
    BY <1>1, <1>5, <1>7, <2>1 DEF TypeOK, SizeFields
<1>16. Numbered'
  <2>1. /\ handled + Last = sent + Unpushed + Taken
        /\ handled \in Nat /\ sent \in Nat /\ Taken \in Nat
    BY Numerals DEF Numbered, TypeOK
  <2>2. handled + (Last + 1) = sent + 1 + Taken
    BY <2>1, <1>7, <1>13
  <2> QED
    BY <2>2, <1>1, <1>7, <1>13 DEF Numbered
<1>17. Reader'
  <2>1. consumer \in {"handle", "pop"} => Last > 0 /\ read_idx = placed[1].idx
    BY <1>13 DEF Reader
  <2>2. Last > 0 => 1 \in 1 .. Last /\ Last' > 1
    BY <1>7
  <2> QED
    BY <1>1, <1>7, <1>13, <2>1, <2>2 DEF Reader
<1>18. FreeBlocksFree'
  BY <1>e, <1>1, <1>2, <1>3, Numerals DEF FreeBlocksFree
<1>19. Wrapping' /\ Logging'
  BY <1>1 DEF Wrapping, Logging
<1> QED
  BY <1>11, <1>12, <1>14, <1>15, <1>16, <1>17, <1>18, <1>19

\* The message being written: it is the last of the chain, and no other shares a
\* block with it.
LEMMA Unfinished ==
  ASSUME IInv, producer \in {"fill", "push"}
  PROVE  /\ Unpushed = 1 /\ Last \in 1 .. Last /\ Last \in Nat
         /\ placed[Last].idx = ret /\ placed[Last].cnt = blk_sz /\ blk_sz \in Fitting
         /\ Taking(Last) = ret .. ret + blk_sz - 1
         /\ ret \in Index /\ ret # write_idx /\ blk[ret].size = 0
         /\ \A k \in 1 .. Last - 1 : /\ k \in 1 .. Last - Unpushed /\ k \in 1 .. Last
                                     /\ placed[k].idx # ret
                                     /\ Taking(k) \cap Taking(Last) = {}
         /\ \A k \in 1 .. Last - Unpushed : k \in 1 .. Last - 1
         /\ sent + 1 \in 0 .. MaxMsgs /\ handled - Taken + Last = sent + 1
<1> USE DEF IInv
<1>1. Unpushed = 1
  BY DEF Unpushed
<1>2. /\ Last > 0 /\ placed[Last] = [idx |-> ret, cnt |-> blk_sz] /\ blk[ret].size = 0
      /\ Last \in Nat
  BY <1>1, Entry DEF Visible
<1>3. Last \in 1 .. Last /\ placed[Last].idx = ret /\ placed[Last].cnt = blk_sz
  BY <1>2
<1>4. ret \in Index /\ ret # write_idx /\ blk_sz \in Fitting
  BY <1>3, Entries, Behind DEF Index
<1>5. ASSUME NEW k \in 1 .. Last - 1
      PROVE  /\ k \in 1 .. Last - Unpushed /\ k \in 1 .. Last
             /\ placed[k].idx # ret /\ Taking(k) \cap Taking(Last) = {}
  <2>1. k \in 1 .. Last /\ k # Last /\ k \in 1 .. Last - Unpushed
    BY <1>1, <1>2
  <2> QED
    BY <2>1, <1>3, Apart
<1>6. sent + 1 \in 0 .. MaxMsgs
  BY SizesAssumption DEF Logging, TypeOK
<1>7. handled - Taken + Last = sent + 1
  <2>1. handled + Last = sent + Unpushed + Taken /\ handled \in Int /\ sent \in Int /\ Taken \in Int
    BY Numerals DEF Numbered, TypeOK
  <2> QED
    BY <2>1, <1>1, <1>2
<1>8. Taking(Last) = ret .. ret + blk_sz - 1
  BY <1>3 DEF Taking
<1> QED
  BY <1>1, <1>2, <1>3, <1>4, <1>5, <1>6, <1>7, <1>8

\* The message is written: its blocks belong to no other.
LEMMA FillStep ==
  ASSUME IInv, Fill
  PROVE  IInv'
<1> USE DEF IInv
<1>1. /\ producer = "fill" /\ producer' = "push"
      /\ blk' = [i \in Index |-> IF i \in ret .. ret + blk_sz - 1
                                 THEN [blk[i] EXCEPT !.msg = sent + 1] ELSE blk[i]]
      /\ UNCHANGED <<blocking, indices, read_idx, locals, consumer, sent, handled, placed>>
  BY DEF Fill, ProducerAt
<1>2. /\ Unpushed = 1 /\ Unpushed' = 1 /\ Taken' = Taken /\ Last' = Last
      /\ Last \in 1 .. Last /\ Taking(Last) = ret .. ret + blk_sz - 1
      /\ placed[Last].idx = ret /\ placed[Last].cnt = blk_sz
      /\ ret \in Index /\ sent + 1 \in 0 .. MaxMsgs
  BY <1>1, Unfinished DEF Unpushed, Taken, Last
<1>3. /\ blk' \in [Index -> [size : SizeFields, msg : 0 .. MaxMsgs]]
      /\ \A i \in Index : /\ blk'[i].size = blk[i].size
                          /\ i \in Taking(Last) => blk'[i].msg = sent + 1
                          /\ i \notin Taking(Last) => blk'[i].msg = blk[i].msg
  <2>1. blk \in [Index -> [size : SizeFields, msg : 0 .. MaxMsgs]]
    BY DEF TypeOK, SizeFields
  <2> QED
    BY <1>1, <1>2, <2>1
<1>4. TypeOK'
  BY <1>1, <1>3 DEF TypeOK, SizeFields, indices, locals
<1>5. Linked'
  <2>1. \A k \in 0 .. Last : /\ From(k)' = From(k) /\ To(k)' = To(k) /\ From(k) \in Index
                             /\ blk'[From(k)].size = blk[From(k)].size
    BY <1>1, <1>2, <1>3, Chain DEF From, To, indices
  <2> QED
    BY <2>1, <1>2 DEF Linked
<1>6. Ordered'
  BY <1>1, <1>2 DEF Ordered, From, To, Pos, indices
<1>7. Visible'
  <2>1. ASSUME NEW k \in 1 .. Last - Unpushed
        PROVE  /\ blk'[placed[k].idx].size = Bytes(placed[k].cnt)
               /\ \A i \in Taking(k) : blk'[i].msg = Number(k)
    <3>1. k \in 1 .. Last /\ Taking(k) \cap Taking(Last) = {}
      BY <1>1, Unfinished
    <3>2. placed[k].idx \in Index
      BY <3>1, Entries DEF Index
    <3> QED
      BY <3>1, <3>2, <1>3, TakingIn DEF Visible
  <2>2. \A k : Taking(k)' = Taking(k) /\ Number(k)' = Number(k)
    BY <1>1, <1>2 DEF Taking, Number
  <2>3. write_idx' = write_idx /\ ret' = ret /\ blk_sz' = blk_sz /\ sent' = sent /\ placed' = placed
    BY <1>1 DEF indices, locals
  <2>4. blk'[write_idx].size = 0 /\ blk'[ret].size = 0
    BY <1>1, <1>2, <1>3, Unfinished DEF TypeOK, Visible
  <2>5. \A i \in ret .. ret + blk_sz - 1 : blk'[i].msg = sent + 1
    BY <1>2, <1>3, TakingIn
  <2>6. Last > 0 /\ placed[Last] = [idx |-> ret, cnt |-> blk_sz]
    BY <1>2 DEF Visible
  <2> QED
    BY <1>2, <2>1, <2>2, <2>3, <2>4, <2>5, <2>6 DEF Visible
<1>8. Numbered' /\ Reader' /\ FreeBlocksFree'
  BY <1>1, <1>2 DEF Numbered, Reader, FreeBlocksFree, indices
<1>9. Wrapping' /\ Logging'
  BY <1>1 DEF Wrapping, Logging, locals
<1> QED
  BY <1>4, <1>5, <1>6, <1>7, <1>8, <1>9

\* The message is published: it is complete.
LEMMA PushStep ==
  ASSUME IInv, Push
  PROVE  IInv' /\ sent' = sent + 1 /\ UNCHANGED handled
<1> USE DEF IInv
<1>1. /\ producer = "push" /\ producer' = "idle" /\ SetSize(ret, Bytes(blk_sz)) /\ sent' = sent + 1
      /\ UNCHANGED <<blocking, indices, read_idx, locals, consumer, handled, placed>>
  BY DEF Push, ProducerAt
<1>2. /\ Unpushed = 1 /\ Unpushed' = 0 /\ Taken' = Taken /\ Last' = Last /\ Last \in Nat
      /\ Last \in 1 .. Last /\ Taking(Last) = ret .. ret + blk_sz - 1
      /\ placed[Last].idx = ret /\ placed[Last].cnt = blk_sz
      /\ ret \in Index /\ ret # write_idx /\ blk[ret].size = 0
      /\ sent + 1 \in 0 .. MaxMsgs /\ handled - Taken + Last = sent + 1
  BY <1>1, Unfinished DEF Unpushed, Taken, Last
<1>3. Bytes(blk_sz) \in SizeFields
  BY <1>1, SizeField, Unfinished
<1>4. /\ blk' \in [Index -> [size : SizeFields, msg : 0 .. MaxMsgs]]
      /\ blk'[ret].size = Bytes(blk_sz)
      /\ \A j \in Index : blk'[j].msg = blk[j].msg /\ (j # ret => blk'[j].size = blk[j].size)
  BY <1>1, <1>2, <1>3, SizeSet
<1>5. TypeOK'
  BY <1>1, <1>2, <1>4 DEF TypeOK, SizeFields, indices, locals
<1>6. Linked'
  <2>1. \A k \in 0 .. Last : From(k)' = From(k) /\ To(k)' = To(k) /\ From(k) \in Index
    BY <1>1, <1>2, Chain DEF From, To, indices
  <2>2. \A k \in 0 .. Last : blk[From(k)].size = 1 => blk'[From(k)].size = 1
    BY <2>1, <1>2, <1>4
  <2> QED
    BY <2>1, <2>2, <1>2 DEF Linked
<1>7. Ordered'
  BY <1>1 DEF Ordered, From, To, Last, Pos, indices
<1>8. Visible'
  <2>1. ASSUME NEW k \in 1 .. Last
        PROVE  /\ blk'[placed[k].idx].size = Bytes(placed[k].cnt)
               /\ \A i \in Taking(k) : blk'[i].msg = Number(k)
    <3>1. CASE k = Last
      <4>1. Number(k) = sent + 1
        BY <3>1, <1>2 DEF Number
      <4> QED
        BY <3>1, <4>1, <1>1, <1>2, <1>4, TakingIn DEF Visible
    <3>2. CASE k # Last
      <4>1. k \in 1 .. Last - 1
        BY <3>2, <1>2
      <4>2. k \in 1 .. Last - Unpushed /\ placed[k].idx # ret
        BY <4>1, <1>1, Unfinished
      <4>3. placed[k].idx \in Index
        BY Entries DEF Index
      <4> QED
        BY <4>2, <4>3, <1>4, TakingIn DEF Visible
    <3> QED
      BY <3>1, <3>2
  <2>2. \A k : Taking(k)' = Taking(k) /\ Number(k)' = Number(k)
    BY <1>1, <1>2 DEF Taking, Number
  <2>3. write_idx' = write_idx /\ placed' = placed
    BY <1>1 DEF indices
  <2>4. blk'[write_idx].size = 0
    BY <1>2, <1>4 DEF TypeOK, Visible
  <2>5. Last' - Unpushed' = Last
    BY <1>2
  <2> QED
    BY <1>1, <1>2, <2>1, <2>2, <2>3, <2>4, <2>5 DEF Visible
<1>9. Numbered'
  <2>1. handled + Last = sent + 1 + Taken /\ sent \in Int /\ Taken \in Int
    BY <1>2, Numerals DEF Numbered, TypeOK
  <2> QED
    BY <1>1, <1>2, <2>1 DEF Numbered
<1>10. Reader'
  BY <1>1, <1>2 DEF Reader
<1>11. Wrapping' /\ Logging' /\ FreeBlocksFree'
  BY <1>1 DEF Wrapping, Logging, FreeBlocksFree, indices, locals
<1> QED
  BY <1>1, <1>5, <1>6, <1>7, <1>8, <1>9, <1>10, <1>11

\* A mark is not a place where a message is looked for.
LEMMA NoMark ==
  ASSUME IInv, NEW k \in 0 .. Last
  PROVE  blk[To(k)].size # 1 /\ (blk[To(k)].size # 0 => k < Last - Unpushed)
<1> USE DEF IInv
<1>1. CASE k = Last
  BY <1>1 DEF To, Visible
<1>2. CASE k # Last
  <2>1. k + 1 \in 1 .. Last /\ To(k) = placed[k + 1].idx
    BY <1>2, Entry DEF To
  <2>2. CASE Unpushed = 1 /\ k + 1 = Last
    BY <2>1, <2>2 DEF Visible
  <2>3. CASE ~(Unpushed = 1 /\ k + 1 = Last)
    <3>1. k + 1 \in 1 .. Last - Unpushed
      BY <2>1, <2>3, Entry, Numerals
    <3>2. blk[To(k)].size = Bytes(placed[k + 1].cnt)
      BY <2>1, <3>1 DEF Visible
    <3> QED
      BY <2>1, <3>1, <3>2, Entries, SizeField, Entry, Numerals
  <2> QED
    BY <2>2, <2>3
<1> QED
  BY <1>1, <1>2

\* front finds a message.
LEMMA FrontMessageStep ==
  ASSUME IInv, Front, blk[read_idx].size # 1
  PROVE  IInv'
<1> USE DEF IInv
<1>1. /\ consumer = "front" /\ consumer' = "handle" /\ blk[read_idx].size # 0
      /\ UNCHANGED <<blocking, blk, indices, read_idx, producer, locals, sent, handled, placed>>
  BY DEF Front, ConsumerAt
<1>2. /\ Unpushed' = Unpushed /\ Taken' = Taken /\ Last' = Last
      /\ Linked' /\ Ordered' /\ Visible' /\ Numbered'
  <2>1. Taken' = Taken /\ handled' = handled
    BY <1>1 DEF Taken
  <2> QED
    BY <1>1, <2>1, Quiet DEF indices, locals, Last
<1>3. TypeOK'
  BY <1>1 DEF TypeOK, indices, locals
<1>4. 0 \in 0 .. Last /\ From(0) = read_idx /\ Last \in Nat
  BY Entry DEF From
<1>5. To(0) = read_idx
  BY <1>4 DEF Linked
<1>6. 0 < Last - Unpushed
  BY <1>1, <1>4, <1>5, NoMark
<1>7. placed[1].idx = read_idx /\ Last > Unpushed
  BY <1>4, <1>5, <1>6, Numerals DEF To
<1>8. Reader'
  BY <1>1, <1>2, <1>7 DEF Reader
<1>9. FreeBlocksFree' /\ Wrapping' /\ Logging'
  BY <1>1 DEF FreeBlocksFree, Wrapping, Logging, indices, locals
<1> QED
  BY <1>2, <1>3, <1>8, <1>9

\* front finds the mark: what is left of the chain begins at block 0.
LEMMA FrontMarkStep ==
  ASSUME IInv, Front, blk[read_idx].size = 1
  PROVE  IInv'
<1> USE DEF IInv
<1>1. /\ consumer = "front" /\ consumer' = "first" /\ read_idx' = 0
      /\ UNCHANGED <<blocking, blk, indices, producer, locals, sent, handled, placed>>
  BY DEF Front, ConsumerAt
<1>2. 0 \in 0 .. Last /\ From(0) = read_idx /\ Last \in Nat /\ 0 \in Index
  BY Entry, Numerals DEF From, Index
<1>3. From(0) # To(0)
  BY <1>2, NoMark
<1>4. write_idx < read_idx /\ To(0) = 0
  BY <1>2, <1>3, Marks
<1>5. PICK r \in 0 .. BLK_CNT - 1 : r = read_idx /\ r > 0
  BY <1>4, Numerals
<1>6. Unpushed' = Unpushed /\ Taken' = Taken /\ Last' = Last
  BY <1>1 DEF Unpushed, Taken, Last
<1>7. TypeOK'
  BY <1>1, <1>2 DEF TypeOK, indices, locals
<1>8. /\ \A k \in 0 .. Last : To(k)' = To(k)
      /\ \A k \in 0 .. Last : k # 0 => From(k)' = From(k)
      /\ From(0)' = 0
  BY <1>1 DEF To, From, Last, indices
<1>9. Linked'
  <2>1. ASSUME NEW k \in 0 .. Last
        PROVE  From(k)' = To(k)' \/ (To(k)' = 0 /\ From(k)' # 0 /\ blk'[From(k)'].size = 1)
    <3>1. CASE k = 0
      BY <3>1, <1>2, <1>4, <1>8
    <3>2. CASE k # 0
      BY <3>2, <1>1, <1>8 DEF Linked
    <3> QED
      BY <3>1, <3>2
  <2> QED
    BY <2>1, <1>6 DEF Linked
<1>10. ASSUME NEW j \in 1 .. Last
       PROVE  Pos(placed[j].idx) >= BLK_CNT
  <2>1. CASE j = 1
    <3>1. placed[1].idx = 0
      BY <2>1, <1>2, <1>4 DEF To
    <3> QED
      BY <2>1, <3>1, <1>5, Numerals DEF Pos
  <2>2. CASE j # 1
    <3>1. 1 \in 1 .. Last /\ j - 1 \in 1 .. Last /\ j - 1 # Last /\ j - 1 + 1 = j
      BY <2>2, <1>2
    <3>2. Pos(placed[1].idx) + placed[1].cnt <= Pos(placed[j].idx)
      BY <3>1 DEF Ordered, To
    <3>3. placed[1].idx = 0 /\ placed[1].cnt \in Nat /\ placed[j].idx \in Nat
      <4>1. placed[1].idx = 0
        BY <2>2, <1>2, <1>4 DEF To
      <4> QED
        BY <4>1, <3>1, Entries
    <3>4. Pos(0) = BLK_CNT
      BY <1>5, Numerals DEF Pos
    <3> QED
      BY <3>2, <3>3, <3>4, Numerals DEF Pos
  <2> QED
    BY <2>1, <2>2
<1>11. Ordered'
  <2>1. ASSUME NEW j \in 1 .. Last
        PROVE  /\ From(j)' < BLK_CNT
               /\ \A k \in j .. Last : placed[j].idx + placed[j].cnt <= To(k)'
    <3>1. From(j)' < BLK_CNT
      BY <1>8 DEF Ordered
    <3>2. ASSUME NEW k \in j .. Last
          PROVE  placed[j].idx + placed[j].cnt <= To(k)'
      <4>1. Pos(placed[j].idx) + placed[j].cnt <= Pos(To(k))
        BY DEF Ordered
      <4>2. placed[j].idx \in 0 .. BLK_CNT - 1 /\ placed[j].cnt \in Nat /\ k \in 0 .. Last
        <5>1. k \in 0 .. Last
          BY <1>2
        <5> QED
          BY <5>1, Entries
      <4>3. To(k) \in 0 .. BLK_CNT - 1 /\ To(k)' = To(k)
        BY <4>2, <1>8, Chain DEF Index
      <4>4. Pos(placed[j].idx) >= BLK_CNT
        BY <1>10
      <4> QED
        BY <4>1, <4>2, <4>3, <4>4, <1>5, Numerals DEF Pos
    <3> QED
      BY <3>1, <3>2
  <2>2. \A j \in 1 .. Last : \A k \in j .. Last :
          Pos(placed[j].idx)' = placed[j].idx /\ Pos(To(k))' = To(k)'
    <3>1. \A i \in 0 .. BLK_CNT - 1 : ~(i < 0)
      BY Numerals
    <3>2. ASSUME NEW j \in 1 .. Last, NEW k \in j .. Last
          PROVE  Pos(placed[j].idx)' = placed[j].idx /\ Pos(To(k))' = To(k)'
      <4>1. k \in 0 .. Last
        OBVIOUS
      <4>2. placed[j].idx \in 0 .. BLK_CNT - 1 /\ To(k) \in 0 .. BLK_CNT - 1
        BY <4>1, Entries, Chain DEF Index
      <4>3. To(k)' = To(k) /\ placed' = placed
        BY <4>1, <1>1, <1>8
      <4> QED
        BY <4>2, <4>3, <3>1, <1>1 DEF Pos
    <3> QED
      BY <3>2
  <2> QED
    BY <2>1, <2>2, <1>1, <1>6 DEF Ordered
<1>12. Visible'
  <2>1. \A k : Taking(k)' = Taking(k) /\ Number(k)' = Number(k)
    BY <1>1, <1>6 DEF Taking, Number
  <2> QED
    BY <2>1, <1>1, <1>6 DEF Visible, indices, locals
<1>13. Numbered' /\ Reader'
  BY <1>1, <1>6 DEF Numbered, Reader
<1>14. FreeBlocksFree'
  <2>1. write_idx + free_write_cnt <= read_idx /\ free_write_cnt \in Nat
    BY <1>4, Numerals DEF FreeBlocksFree, TypeOK
  <2> QED
    BY <2>1, <1>1, Numerals DEF FreeBlocksFree, indices
<1>15. Wrapping' /\ Logging'
  <2>1. producer \notin {"wrap", "mark"}
    BY <1>4, Numerals DEF Wrapping
  <2> QED
    BY <2>1, <1>1 DEF Wrapping, Logging, locals
<1> QED
  BY <1>7, <1>9, <1>11, <1>12, <1>13, <1>14, <1>15

\* The message has been read: its blocks are free.
LEMMA PopStep ==
  ASSUME IInv, Pop
  PROVE  IInv'
<1> USE DEF IInv
<1>1. /\ consumer = "pop" /\ consumer' = "front"
      /\ read_idx' = read_idx + Blocks(blk[read_idx].size)
      /\ placed' = SubSeq(placed, 2, Len(placed))
      /\ UNCHANGED <<blocking, blk, indices, producer, locals, sent, handled>>
  BY DEF Pop, ConsumerAt
<1>2. Last > Unpushed /\ read_idx = placed[1].idx /\ Last \in Nat /\ 1 \in 1 .. Last
      /\ 1 \in 1 .. Last - Unpushed
  BY <1>1, Entry, Numerals DEF Reader
<1>n. PICK n \in 2 .. BLK_CNT - 1 : n = placed[1].cnt /\ n \in Fitting
  BY <1>2, Entries
<1>r. PICK r \in 0 .. BLK_CNT - 1 : r = read_idx + n /\ read_idx' = r
  <2>1. Blocks(blk[read_idx].size) = n
    BY <1>2, <1>n, SizeField DEF Visible
  <2>2. read_idx + n < BLK_CNT
    BY <1>2, <1>n DEF Ordered, From
  <2>3. read_idx \in 0 .. BLK_CNT - 1 /\ BLK_CNT \in Nat /\ read_idx' = read_idx + n
    BY <1>1, <2>1, Numerals
  <2>4. read_idx + n \in 0 .. BLK_CNT - 1
    BY <1>n, <2>2, <2>3
  <2> QED
    BY <2>3, <2>4
<1>3. /\ placed' \in Seq([idx : Index, cnt : Fitting])
      /\ Last' = Last - 1
      /\ \A k \in 1 .. Last - 1 : placed'[k] = placed[k + 1]
  <2> DEFINE R == [idx : Index, cnt : Fitting]
  <2>1. placed \in Seq(R) /\ placed # << >>
    BY <1>2 DEF TypeOK, Last
  <2> HIDE DEF R
  <2>2. /\ placed' \in Seq(R) /\ Len(placed') = Len(placed) - 1
        /\ \A k \in 1 .. Len(placed) - 1 : placed'[k] = placed[k + 1]
    <3>1. placed' = Tail(placed)
      BY <1>1, <2>1, TailIsSubSeq
    <3> QED
      BY <2>1, <3>1
  <2> QED
    BY <2>2 DEF R, Last
<1>4. PICK m \in Nat : m + 1 = Last
  BY <1>2
<1>5. Unpushed' = Unpushed /\ Taken' = 0 /\ Taken = 1
  BY <1>1 DEF Unpushed, Taken
<1>6. ASSUME NEW k \in 0 .. m
      PROVE  From(k)' = From(k + 1) /\ To(k)' = To(k + 1)
  <2>1. To(k)' = To(k + 1)
    <3>1. CASE k = m
      BY <3>1, <1>1, <1>3, <1>4 DEF To, indices
    <3>2. CASE k # m
      <4>1. placed'[k + 1] = placed[k + 1 + 1] /\ k # Last' /\ k + 1 # Last
        BY <3>2, <1>3, <1>4
      <4> QED
        BY <4>1 DEF To
    <3> QED
      BY <3>1, <3>2
  <2>2. From(k)' = From(k + 1)
    <3>1. CASE k = 0
      BY <3>1, <1>2, <1>n, <1>r DEF From
    <3>2. CASE k # 0
      <4>1. placed'[k] = placed[k + 1] /\ k + 1 # 0
        BY <3>2, <1>3, <1>4
      <4> QED
        BY <3>2, <4>1 DEF From
    <3> QED
      BY <3>1, <3>2
  <2> QED
    BY <2>1, <2>2
<1>7. Linked'
  <2>1. ASSUME NEW k \in 0 .. m
        PROVE  From(k)' = To(k)' \/ (To(k)' = 0 /\ From(k)' # 0 /\ blk'[From(k)'].size = 1)
    <3>1. k + 1 \in 0 .. Last
      BY <1>4
    <3> QED
      BY <3>1, <1>1, <1>6 DEF Linked
  <2> QED
    BY <2>1, <1>3, <1>4 DEF Linked
<1>8. ASSUME NEW i \in 0 .. BLK_CNT - 1, Pos(i) >= r
      PROVE  Pos(i)' = Pos(i)
  <2>1. Pos(i)' = IF i < r THEN i + BLK_CNT ELSE i
    BY <1>r DEF Pos
  <2>2. Pos(i) = IF i < read_idx THEN i + BLK_CNT ELSE i
    BY DEF Pos
  <2> QED
    BY <2>1, <2>2, <1>8, <1>r, <1>n, Numerals
<1>9. ASSUME NEW k \in 1 .. Last
      PROVE  Pos(To(k)) >= r /\ To(k) \in 0 .. BLK_CNT - 1
  <2>1. Pos(placed[1].idx) + placed[1].cnt <= Pos(To(k))
    BY <1>2 DEF Ordered
  <2>2. Pos(read_idx) = read_idx
    BY Numerals DEF Pos
  <2>3. k \in 0 .. Last
    BY <1>2
  <2> QED
    BY <2>1, <2>2, <2>3, <1>2, <1>n, <1>r, Chain DEF Index
<1>10. Ordered'
  <2>1. ASSUME NEW j \in 1 .. m
        PROVE  /\ From(j)' < BLK_CNT
               /\ \A k \in j .. m : Pos(placed[j].idx)' + placed'[j].cnt <= Pos(To(k))'
    <3>1. j + 1 \in 1 .. Last /\ j \in 1 .. Last /\ j \in 0 .. m /\ j # Last
          /\ placed'[j] = placed[j + 1]
      BY <1>3, <1>4
    <3>2. From(j)' < BLK_CNT
      BY <3>1, <1>6 DEF Ordered
    <3>3. Pos(placed[j].idx)' = Pos(placed[j + 1].idx)
      <4>1. placed[j + 1].idx = To(j)
        BY <3>1 DEF To
      <4>2. PICK i \in 0 .. BLK_CNT - 1 : i = placed[j + 1].idx /\ Pos(i) >= r
        BY <3>1, <4>1, <1>9
      <4>3. Pos(i)' = Pos(i)
        BY <4>2, <1>8
      <4>4. placed'[j].idx = i
        BY <3>1, <4>2
      <4> QED
        BY <4>2, <4>3, <4>4 DEF Pos
    <3>4. ASSUME NEW k \in j .. m
          PROVE  Pos(To(k))' = Pos(To(k + 1)) /\ k + 1 \in j + 1 .. Last
      <4>1. k + 1 \in 1 .. Last /\ k \in 0 .. m /\ k + 1 \in j + 1 .. Last
        BY <1>4
      <4>2. PICK i \in 0 .. BLK_CNT - 1 : i = To(k + 1) /\ Pos(i) >= r
        BY <4>1, <1>9
      <4>3. Pos(i)' = Pos(i) /\ To(k)' = i
        BY <4>1, <4>2, <1>6, <1>8
      <4> QED
        BY <4>1, <4>2, <4>3 DEF Pos
    <3>5. ASSUME NEW k \in j .. m
          PROVE  Pos(placed[j].idx)' + placed'[j].cnt <= Pos(To(k))'
      <4>1. Pos(placed[j + 1].idx) + placed[j + 1].cnt <= Pos(To(k + 1))
        BY <3>1, <3>4 DEF Ordered
      <4>2. Pos(To(k))' = Pos(To(k + 1)) /\ placed'[j].cnt = placed[j + 1].cnt
        BY <3>1, <3>4
      <4> QED
        BY ONLY <4>1, <4>2, <3>3
    <3> QED
      BY <3>2, <3>5
  <2> QED
    BY <2>1, <1>3, <1>4 DEF Ordered
<1>11. Visible'
  <2>1. ASSUME NEW k \in 1 .. Last' - Unpushed'
        PROVE  /\ blk'[placed'[k].idx].size = Bytes(placed'[k].cnt)
               /\ \A i \in Taking(k)' : blk'[i].msg = Number(k)'
    <3>1. k + 1 \in 1 .. Last - Unpushed /\ placed'[k] = placed[k + 1] /\ k \in Int
      <4>1. Unpushed \in 0 .. 1
        BY Numerals
      <4>2. k \in 1 .. m - Unpushed /\ Last \in Int
        BY <1>3, <1>4, <1>5
      <4>3. k + 1 \in 1 .. Last - Unpushed /\ k \in 1 .. Last - 1
        BY ONLY <4>1, <4>2, <1>4, m \in Nat
      <4> QED
        BY <4>3, <1>3
    <3>2. Taking(k)' = Taking(k + 1)
      BY <3>1 DEF Taking
    <3>3. Number(k)' = Number(k + 1)
      <4>1. handled \in Int
        BY DEF TypeOK
      <4> QED
        BY <3>1, <4>1, <1>1, <1>5 DEF Number
    <3> QED
      BY <3>1, <3>2, <3>3, <1>1 DEF Visible
  <2>2. Unpushed = 1 => Last' > 0 /\ placed'[Last'] = placed[Last]
    <3>1. Unpushed = 1 => m \in 1 .. Last - 1 /\ m > 0
      BY <1>2, <1>4
    <3> QED
      BY <3>1, <1>3, <1>4
  <2>3. /\ blk' = blk /\ write_idx' = write_idx /\ producer' = producer /\ sent' = sent
        /\ ret' = ret /\ blk_sz' = blk_sz
    BY <1>1 DEF indices, locals
  <2> QED
    BY <2>1, <2>2, <2>3, <1>5 DEF Visible
<1>12. Numbered'
  <2>1. handled + Last = sent + Unpushed + 1 /\ handled \in Int /\ sent \in Int /\ Unpushed \in Int
    BY <1>5, Numerals DEF Numbered, TypeOK
  <2>2. handled + (Last - 1) = sent + Unpushed + 0
    BY <2>1, <1>2
  <2> QED
    BY <2>2, <1>1, <1>3, <1>5 DEF Numbered
<1>13. Reader'
  BY <1>1 DEF Reader
<1>14. read_idx <= write_idx => r <= write_idx
  <2>1. Pos(write_idx) >= r
    <3>1. Last \in 1 .. Last /\ To(Last) = write_idx
      BY <1>2 DEF To
    <3> QED
      BY <3>1, <1>9
  <2> QED
    BY <2>1, <1>r, Numerals DEF Pos
<1>15. FreeBlocksFree' /\ Wrapping' /\ Logging'
  <2>1. /\ write_idx' = write_idx /\ free_write_cnt' = free_write_cnt /\ producer' = producer
        /\ read_idx_cache' = read_idx_cache /\ blk_sz' = blk_sz /\ sent' = sent /\ blk' = blk
    BY <1>1 DEF indices, locals
  <2>2. FreeBlocksFree'
    <3>1. write_idx + free_write_cnt \in Int
      BY Numerals DEF TypeOK
    <3> QED
      BY <3>1, <2>1, <1>14, <1>r, <1>n, Numerals DEF FreeBlocksFree
  <2>3. Wrapping' /\ Logging'
    <3>1. read_idx_cache \in Int
      BY Numerals DEF TypeOK, Index
    <3> QED
      BY <3>1, <2>1, <1>14, <1>r, <1>n, Numerals DEF Wrapping, Logging
  <2> QED
    BY <2>2, <2>3
<1>16. TypeOK'
  <2>1. read_idx' \in Index
    BY <1>r DEF Index
  <2> QED
    BY <2>1, <1>1, <1>3 DEF TypeOK, indices, locals
<1> QED
  BY <1>7, <1>10, <1>11, <1>12, <1>13, <1>15, <1>16

LEMMA InvInit == Init => IInv
<1> SUFFICES ASSUME Init PROVE IInv
  OBVIOUS
<1>1. BLK_CNT \in Nat /\ BLK_CNT > 0 /\ 0 \in Index /\ 0 \in SizeFields
  <2>1. BLK_CNT \in Nat /\ BLK_CNT > 0
    BY SizesAssumption
  <2> QED
    BY <2>1 DEF Index, SizeFields
<1>2. /\ placed = << >> /\ Last = 0 /\ Unpushed = 0 /\ Taken = 0
      /\ write_idx = 0 /\ read_idx = 0 /\ handled = 0 /\ sent = 0
      /\ free_write_cnt = BLK_CNT /\ producer = "idle" /\ consumer = "front"
  BY DEF Init, Last, Unpushed, Taken
<1>3. TypeOK
  <2>1. placed \in Seq([idx : Index, cnt : Fitting])
    BY <1>2
  <2>2. \A i \in Index : blk[i] = [size |-> 0, msg |-> 0]
    BY DEF Init
  <2>3. blk \in [Index -> [size : {0, 1} \cup {Bytes(n) : n \in Fitting}, msg : 0 .. MaxMsgs]]
    BY SizesAssumption DEF Init
  <2> QED
    BY <1>1, <2>1, <2>3, SizesAssumption DEF Init, TypeOK
<1>4. Linked /\ Ordered /\ Numbered /\ Reader
  BY <1>2 DEF Linked, Ordered, Numbered, Reader, From, To
<1>5. Visible
  BY <1>1, <1>2 DEF Init, Visible
<1>6. Wrapping /\ Logging /\ FreeBlocksFree
  BY <1>1, <1>2 DEF Wrapping, Logging, FreeBlocksFree
<1> QED
  BY <1>3, <1>4, <1>5, <1>6 DEF IInv

LEMMA InvStep == IInv /\ [Next]_vars => IInv'
<1> SUFFICES ASSUME IInv, [Next]_vars PROVE IInv'
  OBVIOUS
<1>1. ASSUME NEW n \in Sizes, Log(n) PROVE IInv'
  BY <1>1, LogStep
<1>2. CASE Alloc
  BY <1>2, LoadStep, WrapFirstStep, WrapMarkStep, FullStep, PlaceStep, FillStep, PushStep DEF Alloc
<1>3. CASE Poll
  BY <1>3, FrontMessageStep, FrontMarkStep, FrontFirstStep, HandleStep, PopStep DEF Poll
<1>4. CASE UNCHANGED vars
  <2> USE <1>4 DEF vars, IInv
  <2>1. Unpushed' = Unpushed /\ Taken' = Taken /\ handled' = handled /\ Last' = Last
    BY DEF Unpushed, Taken, Last
  <2>2. Linked' /\ Ordered' /\ Visible' /\ Numbered'
    BY <2>1, Quiet DEF indices, locals
  <2>3. TypeOK'
    BY DEF TypeOK, indices, locals
  <2>4. Reader' /\ Wrapping' /\ Logging' /\ FreeBlocksFree'
    BY <2>1 DEF Reader, Wrapping, Logging, FreeBlocksFree, indices, locals
  <2> QED
    BY <2>2, <2>3, <2>4
<1> QED
  BY <1>1, <1>2, <1>3, <1>4 DEF Next

\* The inductive invariant: the chain of messages, its layout in the ring, and
\* how far producer and consumer have come.
THEOREM Invariance == Spec => []IInv
BY InvInit, InvStep, PTL DEF Spec

\* The producer counts only on blocks that the consumer has given free, however
\* old its last look at read_idx is.
THEOREM FreeBlocksCorrect == Spec => []FreeBlocksFree
<1>1. IInv => FreeBlocksFree
  BY DEF IInv
<1> QED
  BY <1>1, Invariance, PTL

-----------------------------------------------------------------------------
(* The ring implements a first-in first-out queue *)

\* What the blocks between the indices hold are the messages sent and not yet
\* handled, in order.
LEMMA QueueHolds ==
  ASSUME IInv
  PROVE  Queue = [k \in 1 .. sent - handled |-> handled + k] /\ sent - handled \in Nat
<1> USE DEF IInv
<1>1. /\ handled \in Nat /\ sent \in Nat /\ Last \in Nat
      /\ Unpushed \in 0 .. 1 /\ Taken \in 0 .. 1
      /\ handled + Last = sent + Unpushed + Taken
  <2>1. Last \in Nat
    BY Entry
  <2>2. handled \in Nat /\ sent \in Nat
    BY DEF TypeOK
  <2>3. Unpushed \in 0 .. 1 /\ Taken \in 0 .. 1
    BY DEF Unpushed, Taken
  <2> QED
    BY <2>1, <2>2, <2>3 DEF Numbered
<1>2. Last - Taken - Unpushed = sent - handled
  BY <1>1
<1>3. Taken + Unpushed <= Last
  BY <1>1, Entry DEF Reader, Visible, Taken
<1>4. ASSUME NEW k \in 1 .. sent - handled
      PROVE  blk[placed[k + Taken].idx].msg = handled + k
  <2>1. k + Taken \in 1 .. Last - Unpushed /\ k + Taken \in 1 .. Last
    BY <1>1, <1>2
  <2>2. placed[k + Taken].idx \in Taking(k + Taken)
    BY <2>1, Entries
  <2>3. Number(k + Taken) = handled + k
    BY <1>1 DEF Number
  <2> QED
    BY <2>1, <2>2, <2>3 DEF Visible
<1> QED
  BY <1>1, <1>2, <1>3, <1>4 DEF Queue

LEMMA RefineInit == Init => Abstract!Init
<1> SUFFICES ASSUME Init PROVE Abstract!Init
  OBVIOUS
<1>1. sent = 0 /\ handled = 0 /\ IInv
  BY InvInit DEF Init
<1>2. Queue = << >>
  BY <1>1, QueueHolds
<1> QED
  BY <1>1, <1>2 DEF Abstract!Init

\* push sends, handleLog delivers; no other step shows.
LEMMA RefineStep ==
  IInv /\ IInv' /\ [Next]_vars => [Abstract!Next]_<<Queue, sent, handled>>
<1> SUFFICES ASSUME IInv, IInv', [Next]_vars
             PROVE  Abstract!Next \/ UNCHANGED <<Queue, sent, handled>>
  OBVIOUS
<1>1. /\ Queue = [k \in 1 .. sent - handled |-> handled + k] /\ sent - handled \in Nat
      /\ sent \in Nat /\ handled \in Nat
  BY QueueHolds DEF IInv, TypeOK
<1>2. Queue' = [k \in 1 .. sent' - handled' |-> handled' + k] /\ sent' - handled' \in Nat
  <2>1. (Queue = [k \in 1 .. sent - handled |-> handled + k] /\ sent - handled \in Nat)'
    BY QueueHolds, PTL
  <2> QED
    BY <2>1
<1>3. ASSUME UNCHANGED <<sent, handled>> PROVE UNCHANGED <<Queue, sent, handled>>
  BY <1>1, <1>2, <1>3
<1>4. CASE Push
  <2>1. sent' = sent + 1 /\ handled' = handled
    BY <1>4, PushStep
  <2>2. Queue' = Append(Queue, sent')
    BY <1>1, <1>2, <2>1
  <2>3. Abstract!Send
    BY <2>1, <2>2 DEF Abstract!Send
  <2> QED
    BY <2>3 DEF Abstract!Next
<1>5. CASE Handle
  <2>1. handled' = handled + 1 /\ sent' = sent
    BY <1>5, HandleStep
  <2>2. Queue # << >> /\ Head(Queue) = handled + 1
    BY <1>1, <1>2, <2>1
  <2>3. Queue' = Tail(Queue)
    BY <1>1, <1>2, <2>1
  <2>4. Abstract!Deliver
    BY <2>1, <2>2, <2>3 DEF Abstract!Deliver
  <2> QED
    BY <2>4 DEF Abstract!Next
<1>6. ASSUME NEW n \in Sizes, Log(n) PROVE UNCHANGED <<sent, handled>>
  BY <1>6 DEF Log
<1>7. CASE LoadReadIdx \/ WrapFirst \/ WrapMark \/ Full \/ Place \/ Fill
  BY <1>7, <1>3 DEF LoadReadIdx, WrapFirst, WrapMark, Full, Place, Fill
<1>8. CASE Front \/ FrontFirst \/ Pop
  BY <1>8, <1>3 DEF Front, FrontFirst, Pop
<1>9. CASE UNCHANGED vars
  BY <1>9, <1>3 DEF vars
<1> QED
  BY <1>3, <1>4, <1>5, <1>6, <1>7, <1>8, <1>9 DEF Next, Alloc, Poll

\* Messages reach the consumer whole, once, and in the order they were sent, for
\* every ring, every set of sizes, and whether a full queue drops or waits.
THEOREM ImplementsFifo == Spec => FifoSpec
BY RefineInit, RefineStep, Invariance, PTL DEF Spec, FifoSpec, Abstract!Spec

-----------------------------------------------------------------------------
(* ClockParams *)

\* A remainder of a smaller number, and the parity of an even or odd one.
LEMMA SmallMod ==
  ASSUME NEW a \in Nat, NEW m \in Nat, a < m
  PROVE  a % m = a
OBVIOUS

LEMMA EvenOfEven ==
  ASSUME NEW k \in Nat
  PROVE  Even(2 * k) = 2 * k /\ Even(2 * k + 1) = 2 * k
BY DEF Even

\* param_seq_ does not wrap around: every calibration takes the next two numbers.
LEMMA NextSeqIsNext ==
  ASSUME NEW s \in Nat, s < 2 * MaxSaves
  PROVE  NextSeq(s) = s + 1
<1>1. s + 1 \in Nat /\ s + 1 < SeqMod /\ SeqMod \in Nat
  BY SeqAssumption
<1> QED BY <1>1, SmallMod DEF NextSeq

LEMMA ClockInvInit == ClockInit => ClockInv
<1> SUFFICES ASSUME ClockInit PROVE ClockInv
  OBVIOUS
<1>1. ClockTypeOK
  <2>1. 0 \in 0 .. MaxSaves /\ 0 \in 0 .. 2 * MaxSaves
    BY SeqAssumption
  <2> QED BY <2>1 DEF ClockInit, ClockTypeOK
<1>2. SeqInv /\ ParamsInv
  BY DEF ClockInit, SeqInv, ParamsInv
<1>3. ReaderInv /\ OneCalibration
  BY DEF ClockInit, ReaderInv, OneCalibration
<1> QED BY <1>1, <1>2, <1>3 DEF ClockInv

-----------------------------------------------------------------------------
(* The steps of saveParam *)

LEMMA BeginSaveInv == ASSUME ClockInv, BeginSave PROVE ClockInv'
<1>1. param_seq = 2 * saves /\ saves \in Nat /\ saves < MaxSaves /\ MaxSaves \in Nat
  BY SeqAssumption DEF ClockInv, ClockTypeOK, SeqInv, BeginSave
<1>2. param_seq' = param_seq + 1
  BY <1>1, NextSeqIsNext DEF BeginSave
<1>3. ClockTypeOK'
  BY <1>1, <1>2 DEF ClockInv, ClockTypeOK, BeginSave, readerVars
<1>4. SeqInv' /\ ParamsInv' /\ OneCalibration'
  BY <1>1, <1>2 DEF ClockInv, SeqInv, ParamsInv, OneCalibration, BeginSave, readerVars
<1>5. ReaderInv'
  <2> SUFFICES ASSUME NEW r \in Readers
               PROVE  /\ pc[r] \in {"begin", "load", "done"} => called[r] <= saves
                      /\ pc[r] = "load" => \E n \in called[r] .. saves :
                                             before_seq[r] = 2 * n /\ param_seq' # 2 * n
    BY DEF ReaderInv, BeginSave, readerVars
  <2>1. before_seq[r] \in Nat /\ called[r] \in Nat
    BY SeqAssumption DEF ClockInv, ClockTypeOK
  <2> QED BY <1>1, <1>2, <2>1 DEF ClockInv, ReaderInv
<1> QED BY <1>3, <1>4, <1>5 DEF ClockInv

LEMMA StoreFieldInv == ASSUME ClockInv, NEW f \in Fields, StoreField(f) PROVE ClockInv'
<1>1. ClockTypeOK'
  <2>1. saves < MaxSaves /\ saves \in Nat /\ MaxSaves \in Nat
    BY SeqAssumption DEF ClockInv, ClockTypeOK, ParamsInv, StoreField
  <2>2. saves + 1 \in 0 .. MaxSaves
    BY <2>1
  <2>3. params' \in [Fields -> 0 .. MaxSaves] /\ unstored' \in SUBSET Fields
    BY <2>2 DEF ClockInv, ClockTypeOK, StoreField
  <2> QED BY <2>3 DEF ClockInv, ClockTypeOK, StoreField, readerVars
<1>2. SeqInv' /\ ReaderInv' /\ OneCalibration'
  BY DEF ClockInv, SeqInv, ReaderInv, OneCalibration, StoreField, readerVars
<1>3. ParamsInv'
  BY DEF ClockInv, ClockTypeOK, ParamsInv, StoreField
<1> QED BY <1>1, <1>2, <1>3 DEF ClockInv

LEMMA EndSaveInv == ASSUME ClockInv, EndSave PROVE ClockInv'
<1>1. param_seq = 2 * saves + 1 /\ saves \in Nat /\ saves < MaxSaves /\ MaxSaves \in Nat
  BY SeqAssumption DEF ClockInv, ClockTypeOK, SeqInv, ParamsInv, EndSave
<1>2. param_seq' = param_seq + 1
  BY <1>1, NextSeqIsNext DEF EndSave
<1>3. ClockTypeOK'
  <2>1. param_seq' \in 0 .. 2 * MaxSaves /\ saves + 1 \in 0 .. MaxSaves
    BY <1>1, <1>2
  <2> QED BY <2>1 DEF ClockInv, ClockTypeOK, EndSave, readerVars
<1>4. SeqInv' /\ ParamsInv'
  BY <1>1, <1>2 DEF ClockInv, SeqInv, ParamsInv, EndSave
<1>5. ReaderInv'
  <2> SUFFICES ASSUME NEW r \in Readers
               PROVE  /\ pc[r] \in {"begin", "load", "done"} => called[r] <= saves + 1
                      /\ pc[r] = "load" => \E n \in called[r] .. saves + 1 :
                                             before_seq[r] = 2 * n /\ param_seq' # 2 * n
    BY DEF ReaderInv, EndSave, readerVars
  <2>1. before_seq[r] \in Nat /\ called[r] \in Nat
    BY SeqAssumption DEF ClockInv, ClockTypeOK
  <2> QED BY <1>1, <1>2, <2>1 DEF ClockInv, ReaderInv
<1>6. OneCalibration'
  <2> SUFFICES ASSUME NEW r \in Readers, pc[r] = "done"
               PROVE  \E n \in called[r] .. saves + 1 : \A f \in Fields : ns[r][f] = n
    BY DEF OneCalibration, EndSave, readerVars
  <2>1. called[r] \in Nat
    BY SeqAssumption DEF ClockInv, ClockTypeOK
  <2>2. called[r] .. saves \subseteq called[r] .. saves + 1
    BY <1>1, <2>1
  <2> QED BY <2>2 DEF ClockInv, OneCalibration
<1> QED BY <1>3, <1>4, <1>5, <1>6 DEF ClockInv

-----------------------------------------------------------------------------
(* The steps of tsc2ns *)

LEMMA CallInv == ASSUME ClockInv, NEW r \in Readers, Call(r) PROVE ClockInv'
<1>1. ClockTypeOK'
  BY DEF ClockInv, ClockTypeOK, Call, writerVars
<1>2. SeqInv' /\ ParamsInv'
  BY DEF ClockInv, SeqInv, ParamsInv, Call, writerVars
<1>3. ReaderInv' /\ OneCalibration'
  <2>1. saves \in Nat
    BY SeqAssumption DEF ClockInv, ClockTypeOK
  <2> QED BY <2>1 DEF ClockInv, ClockTypeOK, ReaderInv, OneCalibration, Call, writerVars
<1> QED BY <1>1, <1>2, <1>3 DEF ClockInv

LEMMA BeginReadInv == ASSUME ClockInv, NEW r \in Readers, BeginRead(r) PROVE ClockInv'
<1>1. /\ saves \in Nat /\ called[r] \in Nat /\ called[r] <= saves
      /\ Even(param_seq) = 2 * saves /\ 2 * saves <= param_seq /\ param_seq <= 2 * MaxSaves
  <2>1. param_seq \in {2 * saves, 2 * saves + 1} /\ saves \in Nat
    BY SeqAssumption DEF ClockInv, ClockTypeOK, SeqInv
  <2>2. Even(param_seq) = 2 * saves /\ 2 * saves <= param_seq
    BY <2>1, EvenOfEven
  <2> QED BY <2>1, <2>2, SeqAssumption DEF ClockInv, ClockTypeOK, ReaderInv, BeginRead
<1>2. ClockTypeOK'
  <2>1. saves \in 0 .. MaxSaves /\ MaxSaves \in Nat
    BY SeqAssumption DEF ClockInv, ClockTypeOK
  <2>2. 2 * saves \in 0 .. 2 * MaxSaves
    BY <2>1
  <2>3. Even(param_seq) \in 0 .. 2 * MaxSaves
    BY <1>1, <2>2
  <2> QED BY <2>3 DEF ClockInv, ClockTypeOK, BeginRead, writerVars
<1>3. SeqInv' /\ ParamsInv' /\ OneCalibration'
  BY DEF ClockInv, ClockTypeOK, SeqInv, ParamsInv, OneCalibration, BeginRead, writerVars
<1>4. ReaderInv'
  <2> SUFFICES ASSUME NEW q \in Readers
               PROVE  /\ pc'[q] \in {"begin", "load", "done"} => called[q] <= saves
                      /\ pc'[q] = "load" =>
                           \E n \in called[q] .. saves :
                             /\ before_seq'[q] = 2 * n
                             /\ param_seq = 2 * n =>
                                  \A f \in Fields : f \notin unread'[q] => ns[q][f] = n
    BY DEF ReaderInv, BeginRead, writerVars
  <2>1. CASE q = r
    <3>1. saves \in called[r] .. saves
      BY <1>1
    <3>2. before_seq'[r] = 2 * saves /\ unread'[r] = Fields
      BY <1>1 DEF ClockInv, ClockTypeOK, BeginRead
    <3> QED BY <1>1, <2>1, <3>1, <3>2
  <2>2. CASE q # r
    BY <2>2 DEF ClockInv, ClockTypeOK, ReaderInv, BeginRead
  <2> QED BY <2>1, <2>2
<1> QED BY <1>2, <1>3, <1>4 DEF ClockInv

LEMMA LoadFieldInv ==
  ASSUME ClockInv, NEW r \in Readers, NEW f \in Fields, LoadField(r, f)
  PROVE  ClockInv'
<1>1. ClockTypeOK'
  BY DEF ClockInv, ClockTypeOK, LoadField, writerVars
<1>2. SeqInv' /\ ParamsInv' /\ OneCalibration'
  BY DEF ClockInv, ClockTypeOK, SeqInv, ParamsInv, OneCalibration, LoadField, writerVars
<1>3. ReaderInv'
  <2> SUFFICES ASSUME NEW q \in Readers, pc[q] = "load"
               PROVE  \E n \in called[q] .. saves :
                        /\ before_seq[q] = 2 * n
                        /\ param_seq = 2 * n =>
                             \A g \in Fields : g \notin unread'[q] => ns'[q][g] = n
    BY DEF ClockInv, ReaderInv, LoadField, writerVars
  <2>1. saves \in Nat /\ called[q] \in Nat
    BY SeqAssumption DEF ClockInv, ClockTypeOK
  <2>2. PICK n \in called[q] .. saves :
          /\ before_seq[q] = 2 * n
          /\ param_seq = 2 * n => \A g \in Fields : g \notin unread[q] => ns[q][g] = n
    BY DEF ClockInv, ReaderInv
  <2>3. ASSUME param_seq = 2 * n, NEW g \in Fields, g \notin unread'[q]
        PROVE  ns'[q][g] = n
    <3>1. CASE q = r /\ g = f
      \* The number is even where the reader began, so nothing is being stored.
      <4>1. n \in Nat /\ (storing \/ ~storing)
        BY <2>1
      <4>2. ~storing /\ saves = n
        BY <2>1, <2>3, <4>1 DEF ClockInv, SeqInv
      <4>3. params[f] = saves
        BY <4>2 DEF ClockInv, ParamsInv
      <4> QED BY <3>1, <4>2, <4>3 DEF ClockInv, ClockTypeOK, LoadField
    <3>2. CASE ~(q = r /\ g = f)
      <4>1. g \notin unread[q] /\ ns'[q][g] = ns[q][g]
        BY <2>3, <3>2 DEF ClockInv, ClockTypeOK, LoadField
      <4> QED BY <2>2, <2>3, <4>1
    <3> QED BY <3>1, <3>2
  <2> QED BY <2>2, <2>3
<1> QED BY <1>1, <1>2, <1>3 DEF ClockInv

LEMMA EndReadInv == ASSUME ClockInv, NEW r \in Readers, EndRead(r) PROVE ClockInv'
<1>1. ClockTypeOK'
  BY DEF ClockInv, ClockTypeOK, EndRead, writerVars
<1>2. SeqInv' /\ ParamsInv' /\ ReaderInv'
  BY DEF ClockInv, ClockTypeOK, SeqInv, ParamsInv, ReaderInv, EndRead, writerVars
<1>3. OneCalibration'
  <2> SUFFICES ASSUME NEW q \in Readers, pc'[q] = "done"
               PROVE  \E n \in called[q] .. saves : \A f \in Fields : ns[q][f] = n
    BY DEF OneCalibration, EndRead, writerVars
  <2>1. CASE q = r
    <3>1. before_seq[r] = param_seq /\ unread[r] = {}
      BY <2>1 DEF ClockInv, ClockTypeOK, EndRead
    <3>2. PICK n \in called[r] .. saves :
            /\ before_seq[r] = 2 * n
            /\ param_seq = 2 * n => \A f \in Fields : f \notin unread[r] => ns[r][f] = n
      BY DEF ClockInv, ReaderInv, EndRead
    <3> QED BY <2>1, <3>1, <3>2
  <2>2. CASE q # r
    BY <2>2 DEF ClockInv, ClockTypeOK, OneCalibration, EndRead
  <2> QED BY <2>1, <2>2
<1> QED BY <1>1, <1>2, <1>3 DEF ClockInv

LEMMA ReturnInv == ASSUME ClockInv, NEW r \in Readers, Return(r) PROVE ClockInv'
<1>1. ClockTypeOK'
  BY DEF ClockInv, ClockTypeOK, Return, writerVars
<1>2. SeqInv' /\ ParamsInv' /\ ReaderInv' /\ OneCalibration'
  BY DEF ClockInv, ClockTypeOK, SeqInv, ParamsInv, ReaderInv, OneCalibration, Return, writerVars
<1> QED BY <1>1, <1>2 DEF ClockInv

-----------------------------------------------------------------------------
LEMMA ClockInvStep == ClockInv /\ [ClockNext]_clockVars => ClockInv'
<1> SUFFICES ASSUME ClockInv, [ClockNext]_clockVars PROVE ClockInv'
  OBVIOUS
<1>1. CASE Save
  BY <1>1, BeginSaveInv, StoreFieldInv, EndSaveInv DEF Save
<1>2. ASSUME NEW r \in Readers, Call(r) \/ Read(r)
      PROVE  ClockInv'
  BY <1>2, CallInv, BeginReadInv, LoadFieldInv, EndReadInv, ReturnInv DEF Read
<1>3. CASE UNCHANGED clockVars
  BY <1>3 DEF clockVars, writerVars, readerVars, ClockInv, ClockTypeOK, SeqInv, ParamsInv, ReaderInv, OneCalibration
<1> QED BY <1>1, <1>2, <1>3 DEF ClockNext

\* The variables keep their types; param_seq_ never wraps around.
THEOREM ClockTypeCorrect == ClockSpec => []ClockTypeOK
<1>1. ClockInv => ClockTypeOK
  BY DEF ClockInv
<1> QED BY ClockInvInit, ClockInvStep, <1>1, PTL DEF ClockSpec

\* The inductive invariant holds.
THEOREM ClockInvariance == ClockSpec => []ClockInv
BY ClockInvInit, ClockInvStep, PTL DEF ClockSpec

\* Every result of tsc2ns is of one calibration, which was the last one at some
\* time during the call.
THEOREM OneCalibrationCorrect == ClockSpec => []OneCalibration
<1>1. ClockInv => OneCalibration
  BY DEF ClockInv
<1> QED BY ClockInvInit, ClockInvStep, <1>1, PTL DEF ClockSpec

-----------------------------------------------------------------------------
(* LogFile: what a flush does to the files *)

\* A message is written as it is, but for where it begins.
Shifted(m, start) == [m EXCEPT !.pos = @ + start]

LEMMA ShiftedFields ==
  ASSUME NEW m \in Message, NEW start \in Nat
  PROVE  /\ Shifted(m, start) \in Message /\ Shifted(m, start).pos = m.pos + start
         /\ Shifted(m, start).n = m.n /\ Shifted(m, start).len = m.len
         /\ Shifted(m, start).to = m.to /\ Shifted(m, start).managed = m.managed
         /\ Shifted(m, start).told = m.told
BY DEF Shifted, Message

LEMMA MessageFields ==
  ASSUME NEW m \in Message
  PROVE  m.n \in Nat /\ m.pos \in Nat /\ m.len \in Nat \ {0} /\ m.at \in 0 .. MaxTime
BY FileAssumption DEF Message

\* The files after a flush to an open file.
LEMMA FilesAre ==
  ASSUME outputFp \in Files, NEW files \in [Files -> SUBSET Message],
         NEW lens \in [Files -> Nat], NEW msgs \in SUBSET Message, NEW size \in Nat
  PROVE  /\ FilesAfter(files, lens, msgs) =
              [files EXCEPT ![outputFp] = @ \cup {Shifted(m, lens[outputFp]) : m \in msgs}]
         /\ LengthsAfter(lens, size) = [lens EXCEPT ![outputFp] = @ + size]
BY FileAssumption DEF FilesAfter, LengthsAfter, Shifted

LEMMA FilesTyped ==
  ASSUME outputFp \in Files \cup {NoFile}, NEW files \in [Files -> SUBSET Message],
         NEW lens \in [Files -> Nat], NEW msgs \in SUBSET Message, NEW size \in Nat
  PROVE  /\ FilesAfter(files, lens, msgs) \in [Files -> SUBSET Message]
         /\ LengthsAfter(lens, size) \in [Files -> Nat]
<1>1. CASE outputFp = NoFile
  BY <1>1 DEF FilesAfter, LengthsAfter
<1>2. CASE outputFp \in Files
  <2>1. {Shifted(m, lens[outputFp]) : m \in msgs} \subseteq Message
    BY <1>2, ShiftedFields
  <2> QED
    BY <1>2, <2>1, FilesAre
<1> QED
  BY <1>1, <1>2

\* What is written comes after what was there.
LEMMA OrderKept ==
  ASSUME outputFp \in Files, NEW files \in [Files -> SUBSET Message],
         NEW lens \in [Files -> Nat], NEW msgs \in SUBSET Message, NEW size \in Nat,
         NEW k \in Nat, Buffered(msgs, size, k), Written(files, lens, msgs, k)
  PROVE  Written(FilesAfter(files, lens, msgs), LengthsAfter(lens, size), {}, k)
<1> DEFINE start == lens[outputFp]
           new == {Shifted(m, start) : m \in msgs}
<1>1. /\ FilesAfter(files, lens, msgs) = [files EXCEPT ![outputFp] = @ \cup new]
      /\ LengthsAfter(lens, size) = [lens EXCEPT ![outputFp] = @ + size]
      /\ start \in Nat
  BY FilesAre
<1>2. ASSUME NEW m \in new
      PROVE  /\ m \in Message /\ m.to = outputFp /\ m.n \in 1 .. k
             /\ start <= m.pos /\ m.pos + m.len <= start + size
             /\ \E b \in msgs : m.n = b.n /\ m.pos = b.pos + start /\ m.len = b.len /\ m = Shifted(b, start)
  <2>1. PICK b \in msgs : m = Shifted(b, start)
    BY <1>2
  <2>2. /\ m \in Message /\ m.pos = b.pos + start /\ m.n = b.n /\ m.len = b.len /\ m.to = b.to
    BY <1>1, <2>1, ShiftedFields
  <2>3. b.pos \in Nat /\ b.len \in Nat /\ b.pos + b.len <= size /\ b.n \in 1 .. k /\ b.to = outputFp
    BY MessageFields DEF Buffered
  <2> QED
    BY <1>1, <2>1, <2>2, <2>3
<1>3. ASSUME NEW m \in files[outputFp]
      PROVE  /\ m \in Message /\ m.pos + m.len <= start /\ m.to = outputFp /\ m.n \in 1 .. k
             /\ \A b \in new : m.n < b.n
  <2>1. m \in Message /\ m.pos + m.len <= start /\ m.to = outputFp /\ m.n \in 1 .. k
        /\ \A b \in msgs : m.n < b.n
    BY DEF Written
  <2> QED
    BY <2>1, <1>2
<1> HIDE DEF new, start
<1>4. InOrder(files[outputFp] \cup new)
  <2> SUFFICES ASSUME NEW l \in files[outputFp] \cup new, NEW m \in files[outputFp] \cup new
               PROVE  (l.n < m.n => l.pos + l.len <= m.pos) /\ (l.n = m.n => l = m)
    BY DEF InOrder
  <2>0. /\ l.n \in Nat /\ m.n \in Nat /\ l.pos \in Nat /\ m.pos \in Nat /\ l.len \in Nat
    BY <1>2, <1>3, MessageFields
  <2>1. CASE l \in files[outputFp] /\ m \in files[outputFp]
    BY <2>1 DEF Written, InOrder
  <2>2. CASE l \in files[outputFp] /\ m \in new
    <3>1. l.n < m.n /\ l.pos + l.len <= start /\ start <= m.pos
      BY <2>2, <1>2, <1>3
    <3> QED
      BY <3>1, <2>0, <1>1
  <2>3. CASE l \in new /\ m \in files[outputFp]
    <3>1. m.n < l.n
      BY <2>3, <1>3
    <3> QED
      BY <3>1, <2>0
  <2>4. CASE l \in new /\ m \in new
    <3>1. PICK a \in msgs : l.n = a.n /\ l.pos = a.pos + start /\ l.len = a.len /\ l = Shifted(a, start)
      BY <2>4, <1>2
    <3>2. PICK b \in msgs : m.n = b.n /\ m.pos = b.pos + start /\ m.len = b.len /\ m = Shifted(b, start)
      BY <2>4, <1>2
    <3>3. (a.n < b.n => a.pos + a.len <= b.pos) /\ (a.n = b.n => a = b)
      BY DEF Buffered, InOrder
    <3>4. a.pos \in Nat /\ b.pos \in Nat /\ a.len \in Nat
      BY MessageFields
    <3> QED
      BY <3>1, <3>2, <3>3, <3>4, <1>1
  <2> QED
    BY <2>1, <2>2, <2>3, <2>4
<1>5. ASSUME NEW m \in files[outputFp] \cup new
      PROVE  m.to = outputFp /\ m.pos + m.len <= start + size /\ m.n \in 1 .. k
  <2>1. m.pos \in Nat /\ m.len \in Nat
    BY <1>2, <1>3, MessageFields
  <2> QED
    BY <2>1, <1>1, <1>2, <1>3
<1> QED
  <2> SUFFICES ASSUME NEW f \in Files
               PROVE  /\ InOrder(FilesAfter(files, lens, msgs)[f])
                      /\ \A m \in FilesAfter(files, lens, msgs)[f] :
                           m.to = f /\ m.pos + m.len <= LengthsAfter(lens, size)[f] /\ m.n \in 1 .. k
    BY DEF Written
  <2>1. CASE f = outputFp
    <3>1. FilesAfter(files, lens, msgs)[f] = files[outputFp] \cup new
          /\ LengthsAfter(lens, size)[f] = start + size
      BY <1>1, <2>1 DEF start
    <3> QED
      BY <3>1, <2>1, <1>4, <1>5
  <2>2. CASE f # outputFp
    <3>1. FilesAfter(files, lens, msgs)[f] = files[f] /\ LengthsAfter(lens, size)[f] = lens[f]
      BY <1>1, <2>2
    <3> QED
      BY <3>1 DEF Written
  <2> QED
    BY <2>1, <2>2

\* A flush, to an open file or to none.
LEMMA FlushedFiles ==
  ASSUME outputFp \in Files \cup {NoFile}, NEW files \in [Files -> SUBSET Message],
         NEW lens \in [Files -> Nat], NEW msgs \in SUBSET Message, NEW size \in Nat,
         NEW k \in Nat, Buffered(msgs, size, k), Written(files, lens, msgs, k),
         NEW d, Somewhere(files, msgs, d)
  PROVE  /\ Written(FilesAfter(files, lens, msgs), LengthsAfter(lens, size), {}, k)
         /\ \A j \in d : \E f \in Files : \E m \in FilesAfter(files, lens, msgs)[f] : m.n = j
<1>1. CASE outputFp = NoFile
  <2>1. FilesAfter(files, lens, msgs) = files /\ LengthsAfter(lens, size) = lens
    BY <1>1 DEF FilesAfter, LengthsAfter
  <2> QED
    BY <1>1, <2>1 DEF Written, Somewhere
<1>2. CASE outputFp \in Files
  <2>1. Written(FilesAfter(files, lens, msgs), LengthsAfter(lens, size), {}, k)
    BY <1>2, OrderKept
  <2>2. FilesAfter(files, lens, msgs) =
          [files EXCEPT ![outputFp] = @ \cup {Shifted(m, lens[outputFp]) : m \in msgs}]
    BY <1>2, FilesAre
  <2>3. ASSUME NEW j \in d
        PROVE  \E f \in Files : \E m \in FilesAfter(files, lens, msgs)[f] : m.n = j
    <3>1. CASE \E m \in msgs : m.n = j
      <4>1. PICK m \in msgs : m.n = j
        BY <3>1
      <4>2. Shifted(m, lens[outputFp]).n = j
        BY <4>1, <1>2, ShiftedFields
      <4>3. Shifted(m, lens[outputFp]) \in FilesAfter(files, lens, msgs)[outputFp]
        BY <1>2, <2>2
      <4> QED
        BY <1>2, <4>2, <4>3
    <3>2. CASE \E f \in Files : \E m \in files[f] : m.n = j
      <4>1. PICK f \in Files : \E m \in files[f] : m.n = j
        BY <3>2
      <4>2. files[f] \subseteq FilesAfter(files, lens, msgs)[f]
        BY <2>2
      <4> QED
        BY <4>1, <4>2
    <3> QED
      BY <3>1, <3>2 DEF Somewhere
  <2> QED
    BY <2>1, <2>3
<1> QED
  BY <1>1, <1>2

-----------------------------------------------------------------------------
(* LogFile: the inductive invariant *)

\* After a flush the buffer is empty, whatever is opened next.
LEMMA EmptiedInv ==
  ASSUME FileTypeOK, NEW files \in [Files -> SUBSET Message], NEW lens \in [Files -> Nat],
         NEW msgs \in SUBSET Message, NEW size \in Nat,
         logs' \in 0 .. MaxLogs, Buffered(msgs, size, logs'), Written(files, lens, msgs, logs'),
         WriteOut(files, lens, msgs, size), ClearBuf,
         due' \subseteq 1 .. MaxLogs, Somewhere(files, msgs, due'),
         outputFp' \in Files \cup {NoFile}, manageFp' \in BOOLEAN, manageFp' => outputFp' # NoFile,
         fpos' \in Nat, polling' \in BOOLEAN, now' \in 0 .. MaxTime
  PROVE  FileInv'
<1>1. outputFp \in Files \cup {NoFile} /\ logs' \in Nat
  BY FileAssumption DEF FileTypeOK
<1>2. /\ contents' = FilesAfter(files, lens, msgs) /\ length' = LengthsAfter(lens, size)
      /\ membuf' = {} /\ bufSize' = 0 /\ nextFlushTime' = Never
  BY DEF WriteOut, ClearBuf
<1>3. contents' \in [Files -> SUBSET Message] /\ length' \in [Files -> Nat]
  BY <1>1, <1>2, FilesTyped
<1>4. /\ Written(contents', length', {}, logs')
      /\ \A j \in due' : \E f \in Files : \E m \in contents'[f] : m.n = j
  BY <1>1, <1>2, FlushedFiles
<1>5. Never \in Nat
  BY FileAssumption DEF Never
<1>6. FileTypeOK'
  BY <1>2, <1>3, <1>5 DEF FileTypeOK
<1>7. Buffered(membuf, bufSize, logs)'
  BY <1>2 DEF Buffered, InOrder
<1>8. Written(contents, length, membuf, logs)'
  BY <1>2, <1>4 DEF Written, InOrder
<1>9. Somewhere(contents, membuf, due)'
  BY <1>4 DEF Somewhere
<1>10. TimeInv'
  BY <1>2 DEF TimeInv, Never
<1> QED
  BY <1>6, <1>7, <1>8, <1>9, <1>10 DEF FileInv

\* closeLogFile empties the buffer, if it is not empty.
LEMMA ClosedInv ==
  ASSUME FileInv, NEW files \in [Files -> SUBSET Message], NEW lens \in [Files -> Nat],
         Written(files, lens, membuf, logs), FlushOnClose(files, lens),
         due' \subseteq 1 .. MaxLogs, Somewhere(files, membuf, due'),
         outputFp' \in Files \cup {NoFile}, manageFp' \in BOOLEAN, manageFp' => outputFp' # NoFile,
         fpos' \in Nat, ~polling, UNCHANGED <<polling, now, logs>>
  PROVE  FileInv'
<1>1. /\ FileTypeOK /\ Buffered(membuf, bufSize, logs) /\ logs' = logs
      /\ membuf \in SUBSET Message /\ bufSize \in Nat
      /\ logs' \in 0 .. MaxLogs /\ polling' \in BOOLEAN /\ now' \in 0 .. MaxTime
  BY DEF FileInv, FileTypeOK
<1>2. CASE bufSize # 0
  <2>1. WriteOut(files, lens, membuf, bufSize) /\ ClearBuf
    BY <1>2 DEF FlushOnClose
  <2> QED
    BY <1>1, <2>1, EmptiedInv
<1>3. CASE bufSize = 0
  <2>1. /\ contents' = files /\ length' = lens /\ membuf' = membuf /\ membuf = {}
        /\ bufSize' = 0 /\ nextFlushTime' = nextFlushTime
    BY <1>1, <1>3 DEF FlushOnClose, bufVars, Buffered
  <2>2. FileTypeOK'
    BY <1>1, <2>1 DEF FileTypeOK
  <2>3. Buffered(membuf, bufSize, logs)'
    BY <2>1 DEF Buffered, InOrder
  <2>4. Written(contents, length, membuf, logs)'
    BY <1>1, <2>1 DEF Written, InOrder
  <2>5. Somewhere(contents, membuf, due)'
    BY <2>1 DEF Somewhere
  <2>6. TimeInv'
    BY <2>1 DEF FileInv, TimeInv, Never
  <2> QED
    BY <2>2, <2>3, <2>4, <2>5, <2>6 DEF FileInv
<1> QED
  BY <1>2, <1>3

\* The message handleLog formats comes after all others.
LEMMA FormattedLast ==
  ASSUME FileInv, logs < MaxLogs, NEW len \in Lengths, NEW callBack \in BOOLEAN,
         NEW msgs, msgs = membuf \cup {Formatted(len, callBack)},
         NEW d, d = (IF outputFp = NoFile THEN due ELSE due \cup {logs + 1})
  PROVE  /\ msgs \in SUBSET Message /\ bufSize + len \in Nat /\ logs + 1 \in 1 .. MaxLogs
         /\ Buffered(msgs, bufSize + len, logs + 1) /\ Written(contents, length, msgs, logs + 1)
         /\ Somewhere(contents, msgs, d) /\ d \subseteq 1 .. MaxLogs
<1> DEFINE new == Formatted(len, callBack)
<1>1. /\ bufSize \in Nat /\ logs \in Nat /\ fpos \in Nat /\ len \in Nat \ {0} /\ MaxLogs \in Nat
      /\ outputFp \in Files \cup {NoFile} /\ manageFp \in BOOLEAN /\ now \in 0 .. MaxTime
      /\ membuf \subseteq Message
  BY FileAssumption DEF FileInv, FileTypeOK
<1>2. /\ new.n = logs + 1 /\ new.pos = bufSize /\ new.len = len
      /\ new.to = outputFp /\ new.managed = manageFp /\ new \in Message
  <2>1. (IF callBack THEN fpos + bufSize ELSE Untold) \in Nat \cup {Untold}
    BY <1>1
  <2> QED
    BY <1>1, <2>1 DEF Formatted, Message
<1>3. ASSUME NEW m \in membuf
      PROVE  /\ m.n \in Nat /\ m.n < new.n /\ m.pos \in Nat /\ m.len \in Nat
             /\ m.pos + m.len <= new.pos /\ m.to = outputFp /\ m.managed = manageFp /\ m.n \in 1 .. logs
  <2>1. m.pos + m.len <= bufSize /\ m.n \in 1 .. logs /\ m.to = outputFp /\ m.managed = manageFp
    BY DEF FileInv, Buffered
  <2>2. m.pos \in Nat /\ m.len \in Nat /\ m.n \in Nat
    BY <1>1, MessageFields
  <2> QED
    BY <2>1, <2>2, <1>1, <1>2
<1> HIDE DEF new
<1>4. msgs = membuf \cup {new}
  BY DEF new
<1>5. InOrder(msgs)
  <2> SUFFICES ASSUME NEW l \in membuf \cup {new}, NEW m \in membuf \cup {new}
               PROVE  (l.n < m.n => l.pos + l.len <= m.pos) /\ (l.n = m.n => l = m)
    BY <1>4 DEF InOrder
  <2>1. CASE l \in membuf /\ m \in membuf
    BY <2>1 DEF FileInv, Buffered, InOrder
  <2>2. CASE l \in membuf /\ m = new
    BY <2>2, <1>1, <1>2, <1>3
  <2>3. CASE l = new /\ m \in membuf
    BY <2>3, <1>1, <1>2, <1>3
  <2>4. CASE l = new /\ m = new
    BY <2>4, <1>1, <1>2
  <2> QED
    BY <2>1, <2>2, <2>3, <2>4
<1>6. Buffered(msgs, bufSize + len, logs + 1)
  <2>1. bufSize + len # 0
    BY <1>1
  <2>2. ASSUME NEW m \in msgs
        PROVE  /\ m.pos + m.len <= bufSize + len /\ m.n \in 1 .. logs + 1
               /\ m.to = outputFp /\ m.managed = manageFp
    BY <1>1, <1>2, <1>3, <1>4
  <2> QED
    BY <2>1, <2>2, <1>5 DEF Buffered
<1>7. Written(contents, length, msgs, logs + 1)
  <2>1. ASSUME NEW f \in Files, NEW m \in contents[f]
        PROVE  /\ m.to = f /\ m.pos + m.len <= length[f] /\ m.n \in 1 .. logs
               /\ \A b \in membuf : m.n < b.n
    BY DEF FileInv, Written
  <2>2. ASSUME NEW f \in Files, NEW m \in contents[f]
        PROVE  m.n \in 1 .. logs + 1 /\ m.n < new.n
    BY <2>1, <1>1, <1>2
  <2>3. \A f \in Files : InOrder(contents[f])
    BY DEF FileInv, Written
  <2> QED
    BY <2>1, <2>2, <2>3, <1>4 DEF Written
<1>8. Somewhere(contents, msgs, d)
  <2>1. Somewhere(contents, membuf, due) /\ membuf \subseteq msgs /\ new \in msgs
    BY <1>4 DEF FileInv
  <2>2. CASE outputFp = NoFile
    <3>1. d = due
      BY <2>2
    <3> QED
      BY <3>1, <2>1 DEF Somewhere
  <2>3. CASE outputFp # NoFile
    <3>1. d = due \cup {logs + 1}
      BY <2>3
    <3> QED
      BY <3>1, <2>1, <2>3, <1>2 DEF Somewhere
  <2> QED
    BY <2>2, <2>3
<1>9. d \subseteq 1 .. MaxLogs
  <2>1. due \subseteq 1 .. MaxLogs /\ logs + 1 \in 1 .. MaxLogs
    BY <1>1 DEF FileInv, FileTypeOK
  <2> QED
    BY <2>1
<1>10. msgs \in SUBSET Message /\ bufSize + len \in Nat /\ logs + 1 \in 1 .. MaxLogs
  BY <1>1, <1>2, <1>4
<1> QED
  BY <1>6, <1>7, <1>8, <1>9, <1>10

LEMMA PosAfterType ==
  ASSUME NEW start \in Nat, NEW size \in Nat
  PROVE  PosAfter(start, size) \in Nat
BY DEF PosAfter

LEMMA HandleLogInv ==
  ASSUME FileInv, NEW len \in Lengths, NEW callBack \in BOOLEAN, NEW urgent \in BOOLEAN,
         HandleLog(len, callBack, urgent)
  PROVE  FileInv'
<1> DEFINE size == bufSize + len
           msgs == membuf \cup {Formatted(len, callBack)}
<1>1. /\ logs' = logs + 1 /\ due' = (IF outputFp = NoFile THEN due ELSE due \cup {logs + 1})
      /\ UNCHANGED <<outputFp, manageFp, polling, now>> /\ polling /\ logs < MaxLogs
  BY DEF HandleLog, fpVars
<1>2. /\ msgs \in SUBSET Message /\ size \in Nat /\ logs' \in 1 .. MaxLogs
      /\ Buffered(msgs, size, logs') /\ Written(contents, length, msgs, logs')
      /\ Somewhere(contents, msgs, due') /\ due' \subseteq 1 .. MaxLogs
  <2>1. logs < MaxLogs /\ msgs = membuf \cup {Formatted(len, callBack)}
        /\ due' = (IF outputFp = NoFile THEN due ELSE due \cup {logs + 1})
    BY <1>1
  <2> HIDE DEF msgs
  <2>2. /\ msgs \in SUBSET Message /\ bufSize + len \in Nat /\ logs + 1 \in 1 .. MaxLogs
        /\ Buffered(msgs, bufSize + len, logs + 1) /\ Written(contents, length, msgs, logs + 1)
        /\ Somewhere(contents, msgs, due') /\ due' \subseteq 1 .. MaxLogs
    BY <2>1, FormattedLast
  <2> QED
    BY <2>2, <1>1
<1>3. /\ FileTypeOK /\ contents \in [Files -> SUBSET Message] /\ length \in [Files -> Nat]
      /\ outputFp' \in Files \cup {NoFile} /\ manageFp' \in BOOLEAN /\ fpos \in Nat
      /\ manageFp' => outputFp' # NoFile
      /\ polling' \in BOOLEAN /\ now' \in 0 .. MaxTime /\ logs' \in 0 .. MaxLogs
      /\ due' \subseteq 1 .. MaxLogs
  <2>1. logs' \in 0 .. MaxLogs
    BY <1>2
  <2> QED
    BY <2>1, <1>1, <1>2 DEF FileInv, FileTypeOK
<1>4. CASE size >= FlushBufSize \/ urgent
  <2>1. WriteOut(contents, length, msgs, size) /\ fpos' = PosAfter(fpos, size) /\ ClearBuf
    BY <1>4 DEF HandleLog
  <2>2. fpos' \in Nat
    BY <2>1, <1>2, <1>3, PosAfterType
  <2> HIDE DEF msgs, size
  <2> QED
    BY <2>1, <2>2, <1>2, <1>3, EmptiedInv
<1>5. CASE ~(size >= FlushBufSize \/ urgent)
  <2>1. membuf' = msgs /\ bufSize' = size /\ UNCHANGED <<fpos, nextFlushTime, contents, length>>
    BY <1>5 DEF HandleLog, diskVars
  <2>2. ASSUME NEW m \in msgs
        PROVE  IF nextFlushTime = Never THEN polling /\ m.at = now
               ELSE nextFlushTime <= m.at + FlushDelay
    <3>1. CASE m \in membuf
      BY <3>1 DEF FileInv, TimeInv
    <3>2. CASE m = Formatted(len, callBack)
      <4>1. m.at = now
        BY <3>2 DEF Formatted
      <4> QED
        BY <4>1, <1>1 DEF FileInv, TimeInv
    <3> QED
      BY <3>1, <3>2
  <2> HIDE DEF msgs, size
  <2>3. FileTypeOK'
    BY <2>1, <1>2, <1>3 DEF FileTypeOK
  <2>4. Buffered(membuf, bufSize, logs)'
    BY <2>1, <1>1, <1>2 DEF Buffered, InOrder
  <2>5. Written(contents, length, membuf, logs)'
    BY <2>1, <1>2 DEF Written, InOrder
  <2>6. Somewhere(contents, membuf, due)'
    BY <2>1, <1>1, <1>2 DEF Somewhere
  <2>7. TimeInv'
    BY <2>1, <2>2, <1>1 DEF FileInv, TimeInv, Never
  <2> QED
    BY <2>3, <2>4, <2>5, <2>6, <2>7, <1>3 DEF FileInv
<1> QED
  BY <1>4, <1>5

LEMMA EndPollInv ==
  ASSUME FileInv, NEW forceFlush \in BOOLEAN, EndPoll(forceFlush)
  PROVE  FileInv'
<1>1. /\ polling' = FALSE /\ UNCHANGED <<outputFp, manageFp, now, logs, due>>
  BY DEF EndPoll, fpVars, histVars
<1>2. /\ FileTypeOK /\ contents \in [Files -> SUBSET Message] /\ length \in [Files -> Nat]
      /\ membuf \in SUBSET Message /\ bufSize \in Nat /\ nextFlushTime \in Nat
      /\ outputFp' \in Files \cup {NoFile} /\ manageFp' \in BOOLEAN /\ fpos \in Nat
      /\ manageFp' => outputFp' # NoFile
      /\ polling' \in BOOLEAN /\ now' \in 0 .. MaxTime /\ logs' \in 0 .. MaxLogs
      /\ due' \subseteq 1 .. MaxLogs
  BY <1>1 DEF FileInv, FileTypeOK
<1>3. /\ Buffered(membuf, bufSize, logs') /\ Written(contents, length, membuf, logs')
      /\ Somewhere(contents, membuf, due')
  BY <1>1 DEF FileInv
<1>4. CASE bufSize # 0 /\ (~manageFp \/ forceFlush \/ now > nextFlushTime)
  <2>1. /\ WriteOut(contents, length, membuf, bufSize) /\ ClearBuf
        /\ fpos' = PosAfter(fpos, bufSize)
    BY <1>4 DEF EndPoll
  <2>2. fpos' \in Nat
    BY <2>1, <1>2, PosAfterType
  <2> QED
    BY <2>1, <2>2, <1>2, <1>3, EmptiedInv
<1>5. CASE ~(bufSize # 0 /\ (~manageFp \/ forceFlush \/ now > nextFlushTime))
  <2>1. /\ nextFlushTime' = IF bufSize # 0 /\ nextFlushTime = Never
                            THEN now + FlushDelay ELSE nextFlushTime
        /\ UNCHANGED <<fpos, membuf, bufSize, contents, length>>
    BY <1>5 DEF EndPoll, diskVars
  <2>2. now \in 0 .. MaxTime /\ FlushDelay \in Nat /\ MaxTime \in Nat
        /\ now + FlushDelay # Never /\ Never \in Nat /\ now <= Never
    BY FileAssumption DEF FileInv, FileTypeOK, Never
  <2>3. FileTypeOK'
    BY <2>1, <2>2, <1>1, <1>2 DEF FileTypeOK
  <2>4. TimeInv'
    <3>1. Never' = Never
      BY DEF Never
    <3>2. CASE bufSize = 0
      <4>1. membuf = {}
        BY <3>2 DEF FileInv, Buffered
      <4> QED
        BY <3>1, <3>2, <4>1, <2>1, <1>1 DEF FileInv, TimeInv
    <3>3. CASE bufSize # 0 /\ nextFlushTime = Never
      <4>1. nextFlushTime' = now + FlushDelay /\ now <= nextFlushTime' /\ manageFp
        BY <3>3, <2>1, <2>2, <1>5
      <4>2. \A m \in membuf : m.at = now
        BY <3>3 DEF FileInv, TimeInv
      <4> QED
        BY <3>1, <4>1, <4>2, <2>1, <2>2, <1>1 DEF TimeInv
    <3>4. CASE bufSize # 0 /\ nextFlushTime # Never
      <4>1. nextFlushTime' = nextFlushTime /\ now <= nextFlushTime /\ manageFp
        BY <3>4, <2>1, <2>2, <1>2, <1>5
      <4>2. /\ nextFlushTime <= now + FlushDelay
            /\ \A m \in membuf : nextFlushTime <= m.at + FlushDelay
        BY <3>4 DEF FileInv, TimeInv
      <4> QED
        BY <3>1, <3>4, <4>1, <4>2, <2>1, <1>1 DEF TimeInv
    <3> QED
      BY <3>2, <3>3, <3>4
  <2>5. Buffered(membuf, bufSize, logs)'
    BY <2>1, <1>1, <1>3 DEF Buffered, InOrder
  <2>6. Written(contents, length, membuf, logs)'
    BY <2>1, <1>3 DEF Written, InOrder
  <2>7. Somewhere(contents, membuf, due)'
    BY <2>1, <1>1, <1>3 DEF Somewhere
  <2> QED
    BY <2>3, <2>4, <2>5, <2>6, <2>7, <1>2 DEF FileInv
<1> QED
  BY <1>4, <1>5

LEMMA BeginPollInv ==
  ASSUME FileInv, NEW t \in 0 .. MaxTime, BeginPoll(t)
  PROVE  FileInv'
<1>1. /\ ~polling /\ polling' = TRUE /\ now' = t /\ now <= t
      /\ UNCHANGED <<outputFp, manageFp, fpos, membuf, bufSize, nextFlushTime, contents, length, logs, due>>
  BY DEF BeginPoll, fpVars, bufVars, diskVars, histVars
<1>2. FileTypeOK'
  BY <1>1 DEF FileInv, FileTypeOK
<1>3. TimeInv'
  <2>1. Never' = Never /\ now \in Int /\ t \in Int /\ FlushDelay \in Nat /\ nextFlushTime \in Nat
    BY FileAssumption DEF Never, FileInv, FileTypeOK
  <2>2. \A m \in membuf : nextFlushTime # Never /\ nextFlushTime <= m.at + FlushDelay
    BY <1>1 DEF FileInv, TimeInv
  <2>3. nextFlushTime = Never \/ nextFlushTime <= t + FlushDelay
    BY <2>1, <1>1 DEF FileInv, TimeInv
  <2> QED
    BY <1>1, <2>1, <2>2, <2>3 DEF TimeInv
<1>4. Buffered(membuf, bufSize, logs)'
  BY <1>1 DEF FileInv, Buffered, InOrder
<1>5. Written(contents, length, membuf, logs)'
  BY <1>1 DEF FileInv, Written, InOrder
<1>6. Somewhere(contents, membuf, due)'
  BY <1>1 DEF FileInv, Somewhere
<1> QED
  BY <1>1, <1>2, <1>3, <1>4, <1>5, <1>6 DEF FileInv

LEMMA ChangeInv ==
  ASSUME FileInv, NEW f \in Files, NEW manage \in BOOLEAN,
         CloseLogFile \/ SetLogFile(f) \/ SetLogFp(f, manage)
  PROVE  FileInv'
<1>1. /\ contents \in [Files -> SUBSET Message] /\ length \in [Files -> Nat]
      /\ Written(contents, length, membuf, logs) /\ Somewhere(contents, membuf, due)
      /\ due \subseteq 1 .. MaxLogs /\ fpos \in Nat /\ bufSize \in Nat /\ NoFile \notin Files
  BY FileAssumption DEF FileInv, FileTypeOK
<1>2. FlushOnClose(contents, length) /\ ~polling /\ UNCHANGED <<polling, now, logs, due>>
  BY DEF CloseLogFile, SetLogFile, SetLogFp, histVars
<1>3. length' \in [Files -> Nat]
  <2>1. length' = LengthsAfter(length, bufSize) \/ length' = length
    BY <1>2 DEF FlushOnClose, WriteOut
  <2> QED
    BY <1>1, <2>1 DEF LengthsAfter
<1>4. /\ outputFp' \in Files \cup {NoFile} /\ manageFp' \in BOOLEAN
      /\ manageFp' => outputFp' # NoFile
      /\ fpos' \in Nat
  <2>1. CASE CloseLogFile
    BY <2>1, <1>1, PosAfterType DEF CloseLogFile
  <2>2. CASE SetLogFile(f)
    BY <2>2, <1>1, PosAfterType DEF SetLogFile
  <2>3. CASE SetLogFp(f, manage)
    BY <2>3, <1>1, <1>3 DEF SetLogFp
  <2> QED
    BY <2>1, <2>2, <2>3
<1> QED
  BY <1>1, <1>2, <1>4, ClosedInv

LEMMA TruncateInv ==
  ASSUME FileInv, NEW f \in Files, SetLogFileTruncated(f)
  PROVE  FileInv'
<1> DEFINE files == [contents EXCEPT ![f] = {}]
           lens == [length EXCEPT ![f] = 0]
<1>1. /\ FlushOnClose(files, lens) /\ ~polling /\ UNCHANGED <<polling, now, logs>>
      /\ due' = due \ {m.n : m \in contents[f]} /\ fpos' = PosAfter(0, bufSize)
      /\ outputFp' = f /\ manageFp' = TRUE
  BY DEF SetLogFileTruncated
<1>2. /\ contents \in [Files -> SUBSET Message] /\ length \in [Files -> Nat]
      /\ Written(contents, length, membuf, logs) /\ Somewhere(contents, membuf, due)
      /\ due \subseteq 1 .. MaxLogs /\ bufSize \in Nat /\ NoFile \notin Files
  BY FileAssumption DEF FileInv, FileTypeOK
<1>3. files \in [Files -> SUBSET Message] /\ lens \in [Files -> Nat] /\ files[f] = {}
      /\ \A g \in Files \ {f} : files[g] = contents[g] /\ lens[g] = length[g]
  BY <1>2
<1> HIDE DEF files, lens
<1>4. Written(files, lens, membuf, logs)
  <2> SUFFICES ASSUME NEW g \in Files
               PROVE  /\ InOrder(files[g])
                      /\ \A m \in files[g] : /\ m.to = g /\ m.pos + m.len <= lens[g] /\ m.n \in 1 .. logs
                                             /\ \A b \in membuf : m.n < b.n
    BY DEF Written
  <2>1. CASE g = f
    BY <2>1, <1>3 DEF InOrder
  <2>2. CASE g # f
    BY <2>2, <1>2, <1>3 DEF Written
  <2> QED
    BY <2>1, <2>2
<1>5. Somewhere(files, membuf, due')
  BY <1>1, <1>2, <1>3 DEF Somewhere
<1>6. fpos' \in Nat /\ due' \subseteq 1 .. MaxLogs /\ outputFp' \in Files \cup {NoFile}
      /\ manageFp' \in BOOLEAN /\ outputFp' # NoFile
  BY <1>1, <1>2, PosAfterType
<1> QED
  BY <1>1, <1>3, <1>4, <1>5, <1>6, ClosedInv

LEMMA FileInvStep == FileInv /\ [FileNext]_fileVars => FileInv'
<1> SUFFICES ASSUME FileInv, [FileNext]_fileVars PROVE FileInv'
  OBVIOUS
<1>1. ASSUME NEW t \in 0 .. MaxTime, BeginPoll(t) PROVE FileInv'
  BY <1>1, BeginPollInv
<1>2. ASSUME NEW len \in Lengths, NEW callBack \in BOOLEAN, NEW urgent \in BOOLEAN,
             HandleLog(len, callBack, urgent)
      PROVE  FileInv'
  BY <1>2, HandleLogInv
<1>3. ASSUME NEW forceFlush \in BOOLEAN, EndPoll(forceFlush) PROVE FileInv'
  BY <1>3, EndPollInv
<1>4. CASE CloseLogFile
  <2>1. CASE Files # {}
    BY <2>1, <1>4, ChangeInv
  <2>2. CASE Files = {}
    <3>1. outputFp = NoFile /\ contents \in [Files -> SUBSET Message] /\ length \in [Files -> Nat]
          /\ fpos \in Nat /\ bufSize \in Nat /\ due \subseteq 1 .. MaxLogs
      BY <2>2 DEF FileInv, FileTypeOK
    <3>2. /\ FlushOnClose(contents, length) /\ ~polling /\ UNCHANGED <<polling, now, logs, due>>
          /\ outputFp' = NoFile /\ manageFp' = FALSE /\ fpos' \in Nat
      BY <3>1, <1>4, PosAfterType DEF CloseLogFile, histVars
    <3> QED
      BY <3>1, <3>2, ClosedInv DEF FileInv
  <2> QED
    BY <2>1, <2>2
<1>5. ASSUME NEW f \in Files, SetLogFile(f) \/ SetLogFileTruncated(f) PROVE FileInv'
  BY <1>5, ChangeInv, TruncateInv
<1>6. ASSUME NEW f \in Files, NEW manage \in BOOLEAN, SetLogFp(f, manage) PROVE FileInv'
  BY <1>6, ChangeInv
<1>7. CASE UNCHANGED fileVars
  <2>1. UNCHANGED <<outputFp, manageFp, fpos, membuf, bufSize, nextFlushTime, contents, length,
                    polling, now, logs, due>>
    BY <1>7 DEF fileVars, fpVars, bufVars, diskVars, histVars
  <2>2. FileTypeOK' /\ TimeInv'
    BY <2>1 DEF FileInv, FileTypeOK, TimeInv, Never
  <2>3. Buffered(membuf, bufSize, logs)' /\ Somewhere(contents, membuf, due)'
    BY <2>1 DEF FileInv, Buffered, InOrder, Somewhere
  <2>4. Written(contents, length, membuf, logs)'
    BY <2>1 DEF FileInv, Written, InOrder
  <2> QED
    BY <2>1, <2>2, <2>3, <2>4 DEF FileInv
<1> QED
  BY <1>1, <1>2, <1>3, <1>4, <1>5, <1>6, <1>7 DEF FileNext

LEMMA FileInvInit == FileInit => FileInv
<1> SUFFICES ASSUME FileInit PROVE FileInv
  OBVIOUS
<1>1. FileTypeOK
  <2>1. Never \in Nat /\ 0 \in 0 .. MaxTime /\ 0 \in 0 .. MaxLogs
    BY FileAssumption DEF Never
  <2>2. contents \in [Files -> SUBSET Message] /\ length \in [Files -> Nat]
    BY DEF FileInit
  <2> QED
    BY <2>1, <2>2 DEF FileInit, FileTypeOK
<1>2. Buffered(membuf, bufSize, logs) /\ Written(contents, length, membuf, logs)
  BY DEF FileInit, Buffered, Written, InOrder
<1>3. Somewhere(contents, membuf, due) /\ TimeInv
  BY DEF FileInit, Somewhere, TimeInv
<1> QED
  BY <1>1, <1>2, <1>3 DEF FileInv, FileInit

\* The inductive invariant of LogFile, and with it the type invariant.
THEOREM FileInvariance == FileSpec => []FileInv
<1>1. FileInv /\ [FileNext]_fileVars => FileInv'
  BY FileInvStep
<1> QED
  BY <1>1, FileInvInit, PTL DEF FileSpec

\* Every message handleLog formats while a file is open ends up in that file, whatever
\* file is set or closed before the buffer is written.
THEOREM InItsFileCorrect == FileSpec => []InItsFile
<1>1. FileInv => InItsFile
  <2> SUFFICES ASSUME FileInv PROVE InItsFile
    OBVIOUS
  <2>1. \A f \in Files : \A m \in contents[f] : m.to = f
    BY DEF FileInv, Written
  <2>2. \A m \in membuf : m.to = outputFp
    BY DEF FileInv, Buffered
  <2>3. \A k \in due : \/ \E m \in membuf : m.n = k
                       \/ \E f \in Files : \E m \in contents[f] : m.n = k
    BY DEF FileInv, Somewhere
  <2> QED
    BY <2>1, <2>2, <2>3 DEF InItsFile
<1> QED
  BY <1>1, FileInvariance, PTL

\* In each file the messages stand in the order they were handled in, none twice and
\* none over another, over any number of flushes and changes of the file.
THEOREM FilesInOrderCorrect == FileSpec => []FilesInOrder
<1>1. FileInv => FilesInOrder
  BY DEF FileInv, Written, FilesInOrder
<1> QED
  BY <1>1, FileInvariance, PTL

\* A poll that does not return early leaves nothing buffered for a file that is not
\* managed, and no message longer than flushDelay.
THEOREM NotKeptCorrect == FileSpec => []NotKept
<1>1. FileInv => NotKept
  <2> SUFFICES ASSUME FileInv, ~polling, bufSize # 0
               PROVE  manageFp /\ \A m \in membuf : now <= m.at + FlushDelay
    BY DEF NotKept
  <2>1. manageFp /\ now <= nextFlushTime
    BY DEF FileInv, TimeInv
  <2>2. \A m \in membuf : nextFlushTime <= m.at + FlushDelay
    BY DEF FileInv, TimeInv
  <2>3. /\ now \in Int /\ nextFlushTime \in Int /\ FlushDelay \in Int
        /\ \A m \in membuf : m.at \in Int
    <3>1. membuf \subseteq Message /\ now \in Int /\ nextFlushTime \in Int /\ FlushDelay \in Int
      BY FileAssumption DEF FileInv, FileTypeOK
    <3>2. \A m \in membuf : m.at \in 0 .. MaxTime
      BY <3>1, MessageFields
    <3> QED
      BY <3>1, <3>2
  <2>4. ASSUME NEW m \in membuf PROVE now <= m.at + FlushDelay
    <3>1. now <= nextFlushTime /\ nextFlushTime <= m.at + FlushDelay
      BY <2>1, <2>2
    <3> QED
      BY <3>1, <2>3
  <2> QED
    BY <2>1, <2>4
<1> QED
  BY <1>1, FileInvariance, PTL

-----------------------------------------------------------------------------
(* LogFile: the positions callbacks are told *)

\* What is written stands where its callbacks were told it would.
LEMMA ToldRight ==
  ASSUME FileInv, NEW files \in [Files -> SUBSET Message], NEW lens \in [Files -> Nat],
         NEW msgs \in SUBSET Message, NEW size \in Nat, NEW start \in Nat, NEW k,
         Buffered(msgs, size, k),
         manageFp => /\ start = lens[outputFp]
                     /\ \A m \in msgs : m.told # Untold => m.told = start + m.pos,
         \A f \in Files : \A m \in files[f] : m.managed /\ m.told # Untold => m.told = m.pos
  PROVE  /\ \A f \in Files : \A m \in FilesAfter(files, lens, msgs)[f] :
              m.managed /\ m.told # Untold => m.told = m.pos
         /\ manageFp => PosAfter(start, size) = LengthsAfter(lens, size)[outputFp]
<1>1. /\ outputFp \in Files \cup {NoFile} /\ (manageFp => outputFp # NoFile) /\ manageFp \in BOOLEAN
      /\ NoFile \notin Files
  BY FileAssumption DEF FileInv, FileTypeOK
<1>2. CASE outputFp = NoFile
  <2>1. FilesAfter(files, lens, msgs) = files /\ ~manageFp
    BY <1>1, <1>2 DEF FilesAfter
  <2> QED
    BY <2>1
<1>3. CASE outputFp \in Files
  <2>1. /\ FilesAfter(files, lens, msgs) =
             [files EXCEPT ![outputFp] = @ \cup {Shifted(m, lens[outputFp]) : m \in msgs}]
        /\ LengthsAfter(lens, size) = [lens EXCEPT ![outputFp] = @ + size]
    BY <1>3, FilesAre
  <2>2. ASSUME NEW b \in msgs
        PROVE  LET m == Shifted(b, lens[outputFp])
               IN m.managed /\ m.told # Untold => m.told = m.pos
    <3> DEFINE m == Shifted(b, lens[outputFp])
    <3>1. m.pos = b.pos + lens[outputFp] /\ m.managed = b.managed /\ m.told = b.told
      BY <1>3, ShiftedFields
    <3>2. b.managed = manageFp /\ b.pos \in Nat /\ lens[outputFp] \in Nat
      BY <1>3, MessageFields DEF Buffered
    <3>3. manageFp /\ b.told # Untold => b.told = lens[outputFp] + b.pos
      OBVIOUS
    <3> QED
      BY <3>1, <3>2, <3>3
  <2>3. ASSUME NEW f \in Files, NEW m \in FilesAfter(files, lens, msgs)[f]
        PROVE  m.managed /\ m.told # Untold => m.told = m.pos
    <3>1. m \in files[f] \/ \E b \in msgs : m = Shifted(b, lens[outputFp])
      BY <1>3, <2>1, <2>3
    <3> QED
      BY <3>1, <2>2
  <2>4. manageFp => PosAfter(start, size) = LengthsAfter(lens, size)[outputFp]
    BY <1>1, <1>3, <2>1 DEF PosAfter
  <2> QED
    BY <2>3, <2>4
<1> QED
  BY <1>1, <1>2, <1>3

LEMMA ToldHandle ==
  ASSUME FileInv, Told(fpos, membuf), PositionTold,
         NEW len \in Lengths, NEW callBack \in BOOLEAN, NEW urgent \in BOOLEAN,
         HandleLog(len, callBack, urgent)
  PROVE  Told(fpos, membuf)' /\ PositionTold'
<1> DEFINE size == bufSize + len
           msgs == membuf \cup {Formatted(len, callBack)}
<1>1. UNCHANGED <<outputFp, manageFp>> /\ logs < MaxLogs
  BY DEF HandleLog, fpVars
<1>2. /\ contents \in [Files -> SUBSET Message] /\ length \in [Files -> Nat]
      /\ fpos \in Nat /\ bufSize \in Nat
  BY DEF FileInv, FileTypeOK
<1>3. /\ msgs \in SUBSET Message /\ size \in Nat /\ Buffered(msgs, size, logs + 1)
  <2>1. msgs = membuf \cup {Formatted(len, callBack)} /\ size = bufSize + len
        /\ \E d : d = (IF outputFp = NoFile THEN due ELSE due \cup {logs + 1})
    OBVIOUS
  <2> HIDE DEF msgs, size
  <2> QED
    BY <2>1, <1>1, FormattedLast
<1>4. ASSUME manageFp
      PROVE  fpos = length[outputFp] /\ \A m \in msgs : m.told # Untold => m.told = fpos + m.pos
  <2>1. fpos = length[outputFp] /\ \A m \in membuf : m.told # Untold => m.told = fpos + m.pos
    BY <1>4 DEF Told
  <2>2. /\ Formatted(len, callBack).pos = bufSize
        /\ Formatted(len, callBack).told # Untold => Formatted(len, callBack).told = fpos + bufSize
    BY DEF Formatted
  <2> QED
    BY <2>1, <2>2
<1>5. CASE size >= FlushBufSize \/ urgent
  <2>1. WriteOut(contents, length, msgs, size) /\ fpos' = PosAfter(fpos, size) /\ ClearBuf
    BY <1>5 DEF HandleLog
  <2>2. /\ contents' = FilesAfter(contents, length, msgs) /\ length' = LengthsAfter(length, size)
        /\ membuf' = {}
    BY <2>1 DEF WriteOut, ClearBuf
  <2> HIDE DEF msgs, size
  <2>3. /\ \A f \in Files : \A m \in FilesAfter(contents, length, msgs)[f] :
             m.managed /\ m.told # Untold => m.told = m.pos
        /\ manageFp => PosAfter(fpos, size) = LengthsAfter(length, size)[outputFp]
    BY <1>2, <1>3, <1>4, ToldRight DEF PositionTold
  <2>4. PositionTold'
    BY <2>2, <2>3 DEF PositionTold, Untold
  <2>5. Told(fpos, membuf)'
    BY <1>1, <2>1, <2>2, <2>3 DEF Told
  <2> QED
    BY <2>4, <2>5
<1>6. CASE ~(size >= FlushBufSize \/ urgent)
  <2>1. membuf' = msgs /\ UNCHANGED <<fpos, contents, length>>
    BY <1>6 DEF HandleLog, diskVars
  <2> HIDE DEF msgs, size
  <2>2. PositionTold'
    BY <2>1 DEF PositionTold, Untold
  <2>3. Told(fpos, membuf)'
    BY <1>1, <1>4, <2>1 DEF Told, Untold
  <2> QED
    BY <2>2, <2>3
<1> QED
  BY <1>5, <1>6

LEMMA ToldEndPoll ==
  ASSUME FileInv, Told(fpos, membuf), PositionTold, NEW forceFlush \in BOOLEAN, EndPoll(forceFlush)
  PROVE  Told(fpos, membuf)' /\ PositionTold'
<1>1. UNCHANGED <<outputFp, manageFp>>
  BY DEF EndPoll, fpVars
<1>2. /\ contents \in [Files -> SUBSET Message] /\ length \in [Files -> Nat]
      /\ fpos \in Nat /\ bufSize \in Nat /\ membuf \in SUBSET Message
      /\ Buffered(membuf, bufSize, logs)
  BY DEF FileInv, FileTypeOK
<1>3. CASE UNCHANGED <<fpos, membuf, contents, length>>
  BY <1>1, <1>3 DEF Told, PositionTold, Untold
<1>4. CASE WriteOut(contents, length, membuf, bufSize) /\ fpos' = PosAfter(fpos, bufSize) /\ ClearBuf
  <2>1. /\ contents' = FilesAfter(contents, length, membuf) /\ length' = LengthsAfter(length, bufSize)
        /\ membuf' = {}
    BY <1>4 DEF WriteOut, ClearBuf
  <2>2. /\ \A f \in Files : \A m \in FilesAfter(contents, length, membuf)[f] :
             m.managed /\ m.told # Untold => m.told = m.pos
        /\ manageFp => PosAfter(fpos, bufSize) = LengthsAfter(length, bufSize)[outputFp]
    BY <1>2, ToldRight DEF PositionTold, Told
  <2>3. PositionTold'
    BY <2>1, <2>2 DEF PositionTold, Untold
  <2>4. Told(fpos, membuf)'
    BY <1>1, <1>4, <2>1, <2>2 DEF Told
  <2> QED
    BY <2>3, <2>4
<1> QED
  BY <1>3, <1>4 DEF EndPoll, diskVars

\* closeLogFile, before its caller stores the file that comes next.
LEMMA ToldClose ==
  ASSUME FileInv, Told(fpos, membuf), PositionTold, FlushOnClose(contents, length)
  PROVE  PositionTold' /\ membuf' = {} /\ length' \in [Files -> Nat]
<1>1. /\ contents \in [Files -> SUBSET Message] /\ length \in [Files -> Nat]
      /\ fpos \in Nat /\ bufSize \in Nat /\ membuf \in SUBSET Message
      /\ Buffered(membuf, bufSize, logs) /\ outputFp \in Files \cup {NoFile}
  BY DEF FileInv, FileTypeOK
<1>2. CASE bufSize = 0
  <2>1. membuf = {} /\ UNCHANGED <<membuf, contents, length>>
    BY <1>1, <1>2 DEF FlushOnClose, bufVars, Buffered
  <2> QED
    BY <1>1, <2>1 DEF PositionTold, Untold
<1>3. CASE bufSize # 0
  <2>1. /\ contents' = FilesAfter(contents, length, membuf) /\ length' = LengthsAfter(length, bufSize)
        /\ membuf' = {}
    BY <1>3 DEF FlushOnClose, WriteOut, ClearBuf
  <2>2. \A f \in Files : \A m \in FilesAfter(contents, length, membuf)[f] :
          m.managed /\ m.told # Untold => m.told = m.pos
    BY <1>1, ToldRight DEF PositionTold, Told
  <2>3. PositionTold'
    BY <2>1, <2>2 DEF PositionTold, Untold
  <2>4. length' \in [Files -> Nat]
    BY <1>1, <2>1, FilesTyped
  <2> QED
    BY <2>1, <2>3, <2>4
<1> QED
  BY <1>2, <1>3

\* With an empty buffer closeLogFile writes nothing, and the position that
\* setLogFile has read stays true.
LEMMA ToldChange ==
  ASSUME FileInv, Told(fpos, membuf), PositionTold, FlushFirst = TRUE, NEW f \in Files,
         SetLogFile(f) \/ SetLogFileTruncated(f)
  PROVE  Told(fpos, membuf)' /\ PositionTold'
<1>1. /\ bufSize = 0 /\ outputFp' = f
      /\ FileTypeOK /\ Buffered(membuf, bufSize, logs)
  BY DEF SetLogFile, SetLogFileTruncated, FileInv
<1>2. /\ membuf = {} /\ contents \in [Files -> SUBSET Message] /\ length \in [Files -> Nat]
  BY <1>1 DEF Buffered, FileTypeOK
<1>3. PosAfter(length[f], bufSize) = length[f] /\ PosAfter(0, bufSize) = 0
  BY <1>1, <1>2 DEF PosAfter
<1>4. membuf' = {} /\ fpos' = length'[f]
      /\ \A g \in Files : contents'[g] \subseteq contents[g]
  <2>1. CASE SetLogFile(f)
    <3>1. UNCHANGED <<membuf, contents, length>> /\ fpos' = length[f]
      BY <1>1, <1>3, <2>1 DEF SetLogFile, FlushOnClose, bufVars
    <3> QED
      BY <3>1, <1>2
  <2>2. CASE SetLogFileTruncated(f)
    <3>1. /\ contents' = [contents EXCEPT ![f] = {}] /\ length' = [length EXCEPT ![f] = 0]
          /\ membuf' = membuf /\ fpos' = 0
      BY <1>1, <1>3, <2>2 DEF SetLogFileTruncated, FlushOnClose, bufVars
    <3> QED
      BY <3>1, <1>2
  <2> QED
    BY <2>1, <2>2
<1>5. PositionTold'
  BY <1>4 DEF PositionTold, Untold
<1>6. Told(fpos, membuf)'
  BY <1>1, <1>4 DEF Told
<1> QED
  BY <1>5, <1>6

LEMMA PositionStep ==
  FlushFirst = TRUE => (PositionInv /\ [FileNext]_fileVars => PositionInv')
<1> SUFFICES ASSUME FlushFirst = TRUE, PositionInv, [FileNext]_fileVars
             PROVE  Told(fpos, membuf)' /\ PositionTold'
  BY FileInvStep DEF PositionInv
<1>0. FileInv /\ Told(fpos, membuf) /\ PositionTold
  BY DEF PositionInv
<1>1. ASSUME NEW t \in 0 .. MaxTime, BeginPoll(t)
      PROVE  Told(fpos, membuf)' /\ PositionTold'
  <2>1. UNCHANGED <<outputFp, manageFp, fpos, membuf, contents, length>>
    BY <1>1 DEF BeginPoll, fpVars, bufVars, diskVars
  <2> QED
    BY <2>1, <1>0 DEF Told, PositionTold, Untold
<1>2. ASSUME NEW len \in Lengths, NEW callBack \in BOOLEAN, NEW urgent \in BOOLEAN,
             HandleLog(len, callBack, urgent)
      PROVE  Told(fpos, membuf)' /\ PositionTold'
  BY <1>0, <1>2, ToldHandle
<1>3. ASSUME NEW forceFlush \in BOOLEAN, EndPoll(forceFlush)
      PROVE  Told(fpos, membuf)' /\ PositionTold'
  BY <1>0, <1>3, ToldEndPoll
<1>4. CASE CloseLogFile
  <2>1. FlushOnClose(contents, length) /\ manageFp' = FALSE
    BY <1>4 DEF CloseLogFile
  <2>2. PositionTold'
    BY <1>0, <2>1, ToldClose
  <2> QED
    BY <2>1, <2>2 DEF Told
<1>5. ASSUME NEW f \in Files, SetLogFile(f) \/ SetLogFileTruncated(f)
      PROVE  Told(fpos, membuf)' /\ PositionTold'
  BY <1>0, <1>5, ToldChange
<1>6. ASSUME NEW f \in Files, NEW manage \in BOOLEAN, SetLogFp(f, manage)
      PROVE  Told(fpos, membuf)' /\ PositionTold'
  <2>1. /\ FlushOnClose(contents, length) /\ outputFp' = f /\ manageFp' = manage
        /\ fpos' = IF manage THEN length'[f] ELSE 0
    BY <1>6 DEF SetLogFp
  <2>2. PositionTold' /\ membuf' = {}
    BY <1>0, <2>1, ToldClose
  <2> QED
    BY <2>1, <2>2 DEF Told
<1>7. CASE UNCHANGED fileVars
  <2>1. UNCHANGED <<outputFp, manageFp, fpos, membuf, contents, length>>
    BY <1>7 DEF fileVars, fpVars, bufVars, diskVars
  <2> QED
    BY <2>1, <1>0 DEF Told, PositionTold, Untold
<1> QED
  BY <1>1, <1>2, <1>3, <1>4, <1>5, <1>6, <1>7 DEF FileNext

\* If the program empties the buffer before it names another file, each callback for a
\* managed file is told where its message will stand in that file.
THEOREM PositionCorrect ==
  ASSUME FlushFirst = TRUE
  PROVE  FileSpec => []PositionTold
<1>1. FileInit => PositionInv
  <2> SUFFICES ASSUME FileInit PROVE Told(fpos, membuf) /\ PositionTold
    BY FileInvInit DEF PositionInv
  <2> QED
    BY DEF FileInit, Told, PositionTold
<1>2. PositionInv /\ [FileNext]_fileVars => PositionInv'
  BY PositionStep
<1>3. PositionInv => PositionTold
  BY DEF PositionInv
<1> QED
  BY <1>1, <1>2, <1>3, PTL DEF FileSpec
=============================================================================
