# mCoroutine in TLA+

A verification development for mCoroutine, a small C++ library of asymmetric
stackful coroutines, with a memory pool for their stacks, a pool of coroutine
objects, and a vendored logger that runs a thread of its own. Paths are relative
to `src/src` unless they begin with `test/`; `fmtlog.h` and `fmtlog-inl.h` are in
`include/coroutine/fmtlog`.

## 1. Inventory

| Component | Code | State | Operations |
|---|---|---|---|
| Memory pool | `memory.cc`, `memory.h` | groups of blocks (start address, use flags), two atomic counters, a mutex | constructor, `getBlock`, `backBlock`, `hasBlock`, `recovery` |
| Coroutine | `coroutine.cc`, `coroutine.h` | per coroutine: saved registers, stack block, running flag, resume flag, callback; per thread: main and current coroutine; an id counter shared by the process | constructors, `setCallBack`, `Resume`, `Yield`, `runCallBack`, `GetMainCoroutine`, `GetCurrentCoroutine` |
| Context switch | `coctx_swap.S`, `coctx.h` | 14 saved registers per coroutine | `coctx_swap` |
| Coroutine pool | `coroutine_pool.cc`, `coroutine_pool.h` | vector of (coroutine, in-use flag), slot 0 a dummy; a memory pool; a mutex | constructor, `getCoroutine`, `backCoroutine`, `getPoolSize`, `resize` |
| Configuration | same files | two atomic sizes, two once flags | `GetGlobalConfig`, `SetGlobalConfig`, `GetGlobalCoroutinePool` |
| Logging | `fmtlog.h`, `fmtlog-inl.h` | per thread a ring buffer; registered log statements; nodes and heap of the polling thread; calibration of the time stamp counter; header pattern; buffer, file, position in it and time of the next flush | `log`, `registerLogInfo`, `preallocate`, `poll`, `setLogFile`, `closeLogFile`, `startPollingThread`, `stopPollingThread`, `setHeaderPattern`, `tsc2ns`, `saveParam`, ends of threads and of the process |
| Formatting | `include/coroutine/fmtlog/fmt` | none | vendored `fmt` |

How they interact. The coroutine pool owns a memory pool and calls `getBlock`
for every coroutine it creates, with its own mutex held; it clears the flags of
a coroutine that is given back. `Resume` and `Yield` switch stacks with
`coctx_swap`; the first `Resume` enters `runCallBack`, which runs the callback
of the program and ends in a `Yield`. A coroutine has no lock: which thread may
use it is up to the program, mostly through the pool. The singletons are
created with `std::call_once`; the first use of the configuration starts the
polling thread of the log, to which every thread sends its messages through a
lock-free ring of its own.

What is hard here, and what correct means:

- *Memory pool.* Several threads call it; `backBlock` uses two critical
  sections with unlocked work between them; `recovery` frees and reorders
  groups; the counters are read without the lock; addresses and sizes are
  products of 32-bit numbers. Correct: a block has one owner, an owned block is
  never freed, a returned one becomes free, blocks do not overlap, the counters
  count, memory grows only on demand, the lock is always released.
- *Coroutine.* Any thread may resume a coroutine that another thread
  suspended, and flags, current pointer and stack change in separate steps.
  Correct: one thread per stack, the program sees itself right, a switch lands
  in the coroutine's code, a callback that was accepted runs once, from its
  beginning to its end, and a `Resume` returns to the thread that called it.
- *Context switch.* Correct: the callee-saved registers, the stack pointer and
  the continuation come back as they were left, and the first switch enters
  `runCallBack` as the ABI wants it.
- *Coroutine pool.* Ids double as indices, the vector grows while coroutines
  are in use, `resize` and `getPoolSize` take no lock. Correct: a coroutine has
  one owner, is found clean, keeps its slot and a stack of its own; growth is
  bounded and ends.
- *Configuration.* Two nested initialisations, a pair of sizes written and read
  in two steps, a polling thread that is running before its header is set.
- *Logging.* No lock between producer and consumer, wrap-around, registration
  that races with the poll, a heap repaired after each message, buffers deleted
  when their thread has ended. Correct: what is logged is written, once, in
  order, with the right log statement, to the file that was open, without delay,
  and callbacks are told where.

The share of the source that is modelled is small by count of lines, because
most of the repository is vendored `fmt` (pure formatting) and a second copy of
all headers under `out/`. The library's own code is modelled nearly line by
line; of `fmtlog`, the parts that threads share and the way of a message to its file.

## 2. Modules

| Module | What it is |
|---|---|
| `BlockAllocator` | abstract: the life of a block, free, granting, held, returning |
| `MemoryPool` | the memory pool under concurrent calls; implements `BlockAllocator` |
| `BlockArith`, `BlockBytes` | addresses and sizes in bytes, 32-bit products; the pool built on them |
| `AsymmetricSwitch` | abstract: who has control of each thread, and the life of a coroutine |
| `Coroutine` | setting, switching, finishing and passing on coroutines; implements `AsymmetricSwitch` |
| `CoctxSwap` | `coctx_swap` instruction by instruction; implements `AsymmetricSwitch` too |
| `ObjectPool` | abstract: who holds an object, and which objects are clean |
| `CoroutinePool` | the coroutine pool under concurrent calls, on top of `BlockAllocator`; implements `ObjectPool` |
| `GlobalConfig` | the singletons, the configuration, and the header of the log |
| `FifoQueue` | abstract: messages sent and not yet delivered |
| `LogQueue` | the ring between a thread and the poll; implements `FifoQueue` |
| `LogPoll` | registration, collection, merging and writing of messages, on top of queues |
| `ClockParams` | the sequence counter around the calibration of the clock |
| `LogFile` | the buffer of formatted messages, its flushes, and the change of the file |
| `MC...` | instances for TLC (symmetry sets) |
| `LogParts_proof` | theorems about `LogQueue`, `ClockParams` and `LogFile` |
| `..._proof` | theorems about the module of that name |

The definitions after a comment *Mutant* are deliberately wrong variants of the
definition that follows them. They belong to no specification; each shows that
some property notices that mistake.

### MemoryPool

`groups` is `m_block_groups`; a group is its start and its flags. A block
address is a pair of a heap region and an index, so pointer arithmetic becomes
a comparison of regions; `hasBlockHelp` is `InGroup`, `usedBlockHelp` is `Used`.
`use` and `all` are the two atomic counters, which wrap at `CounterMax`.
`mutex`, `pc`, `addr` and `index` are the lock and the locals of the call each
thread is in; `held` is what clients own.

A step is what a thread does between two points at which another thread can
notice. Taking the lock is part of the first step of a critical section,
giving it back part of the last one.

| Code | Actions |
|---|---|
| `getBlock`, free block found | `TakeFree` (lock, search, set the flag), `CountTaken` (count, unlock, return) |
| `getBlock`, none found | `Grow` (lock, append a group), `GrowUse`, `GrowAll` (the two counters), `GrowFlag` (flag 0, unlock, return) |
| `backBlock` | `BackFind` (first critical section), `BackUse` (counter, no lock), `BackClear` (second critical section); `BackUnknown` (address of no group); `BackStray` (the index is stale: the write is undefined, any one flag or none) |
| `recovery` | `SweepStart`, then per group `SweepRelease` or `SweepKeep`, and `SweepEnd` |

`Quiescent` is an assumption about the program: TRUE means that it does not call
`recovery` while a `backBlock` is under way. The library neither says so nor
enforces it (section 4). Clients give back only blocks they own, once.
`operator new` returns a region that no live group occupies.

`BlockBytes` is the same pool in bytes, in one thread: a block is the address
`getBlock` computes and `backBlock` takes apart again, a group a piece of the
heap wherever `operator new` may put it (next to another one included), products
are taken modulo `Word`. `recovery` is its loop, one group per step: `Begin`,
`Keep` or `Release` (`index` is the local `i`), `End`; no other call is made
meanwhile. Block and group sizes are variables that take every value of a set.
`Wrapping` says whether a product may exceed `Word`. Size 0 is excluded: the constructor only logs an error, and
`backBlock` then divides by zero.

### Coroutine

`current` is `t_cur_coroutine` (a null pointer counts as the main coroutine,
since `GetCurrentCoroutine` replaces it), `stack` the stack a thread physically
runs on, `cor` the local variable of `Yield` and the argument of `Resume`.
`context` is `m_coctx`, reduced to where it leads: nowhere (`zero`), the start
of `runCallBack` (`entry`), a `Yield` in a callback (`yield`), the last `Yield`
of `runCallBack` (`final`). `running`, `resume` and `callBack` are the fields of
the object; callbacks are numbered in the order in which they are set.
`frame`, `ended` and `since` record history (which callback is on a stack, which
have ended, how many had been set when the coroutine was last given back).

| Code | Actions |
|---|---|
| `setCallBack` (accepted) | `SetCallBack` |
| `Resume` | `ResumeSet` (checks, current pointer), `SwapIn` (`coctx_swap`) |
| `runCallBack` | `Begin` (flag, call), `Finish` (return, flag), then the two steps of `Yield` |
| `Yield` | `YieldSet` (check, current pointer), `SwapOut` (`coctx_swap`) |
| `exit(1)` in `Yield` and `Resume` | `Exit` |
| passing a coroutine on | `HandOver`, `TakeOver` (directly), `BackAndGet` (through the pool: both flags cleared) |

A coroutine is used by its `owner` only, and passed on only while it is not
being run. `TrustFlag` TRUE lets another thread take it as soon as
`getCallBackRunningFlag()` is false. The owner may resume a coroutine whose
callback has ended: the code lets it (finding 4). A landing on `zero` or `final`
is a jump to address 0 or a return through a word that is no return address: the
thread is `astray`, and nothing more is known of it (`lost` in `AsymmetricSwitch`,
by the action `Lose`). `LostOnlyPastEnd` says that this is the only way to get
there. `Resume` of the current
coroutine (coroutine.cc:128) cannot be reached by such programs: the caller is
the main coroutine, whose resume flag is false, so the check before it exits.
A refused `setCallBack` changes nothing and is no step.

### CoctxSwap

One thread, `N` coroutines, memory in words of 8 bytes. `Program` is the list of
instructions of `coctx_swap.S`; `ip` is the one to execute, 0 in the program's
own code. `SetCallBack` writes the boot frame; `Resume` and `Yield` leave
arbitrary tagged values in the registers and on the stack and call `coctx_swap`.
Values are tagged by what they are and whose, so no two are equal by chance.
`left` records what a context left when it switched away. `Program` consists of
`SaveStep`, `LoadStep`, `MoveStep`, `PushStep` and `RetStep`.

### CoroutinePool

`slots` is `m_coroutines` without the dummy at index 0. `getCoroutine` is
`GetFree` (one critical section), or `GetNone` (lock kept, growth by half begins),
the loop of `resize` (`PickBlock`, `GetBlock`, `Make`, `Store`), and `GetNew`.
`emplace_back` is two steps because the constructor draws the id (`Make`) before
the slot exists (`Store`). `resize` called by the program is `Resize` ...
`ResizeEnd`, and so is the constructor of the pool. `backCoroutine` is `Back`.
`Use` stands for everything an owner does with a coroutine (module `Coroutine`).
Stacks come from `BlockAllocator`, which is what `MemoryPool` is shown to be, so
the two locks are composed without multiplying their states.

Assumptions about the program, both constants: `Unlocked` FALSE means that it
keeps other threads out of the pool while it calls `resize` itself; `Mixed`
FALSE, that coroutines made outside of this pool are made when the pool has its
final size. Neither is enforced by the code (section 4).

### GlobalConfig

A setting is the number of the call of `SetGlobalConfig` it comes from.
`configOnce` and `poolOnce` are the once flags: new, the thread that runs the
initialisation, or done; a construction that throws (`FailConfig`, `FailPool`)
makes the flag new again, and a waiting thread takes over. The first use of the
configuration starts the polling thread and then sets the header of the log in
four steps, while the polling thread may be formatting a message (`BeginFormat`,
`EndFormat`). The steps are `StopPoll` (the polling thread that may be running is
joined: this waits for the message it formats), `StartPoll`, and `SetHeader` for each
of the four. Any thread may call `SetGlobalConfig` (`CallSet`) and log (`Log`) at any
time, so the torn pair and the half-set header of findings 8 and 9 are behaviours of
the model; its properties say what holds in spite of them. `PoolUpToDate` compares
with history: `ended` has the settings whose call has returned, `old` those that had
been replaced by then (a call that began after they had returned has returned),
`past` of a thread what was `ended` when its call of `SetGlobalConfig` began, or
`old` when it began to make the pool. A setting's number
is in the order in which the calls begin.

### LogQueue, LogPoll, ClockParams, LogFile

`LogQueue` has one step per access to memory that both threads use, in program
order. `blk` has the size field of each block and the message whose data is in
it; `Log` ... `Push` are the producer (`alloc` with its cached index, wrap-around
mark, size cleared before it is published), `Front` ... `Pop` the consumer.
`placed` records history: where each message that has not been popped begins
and how many blocks it has. The refinement mapping to `FifoQueue` reads the
messages there; `IInv` says that the size fields in the ring, which is all that
the code has, lead the consumer through the same places.
`Builds` has the values of `FMTLOG_BLOCK`: TRUE waits when the ring is full, FALSE
drops the message. `Sizes` are the sizes of messages in blocks. The code checks none:
a message of `BLK_CNT` blocks or more never fits (`Fitting` has the others), so the
default build always drops it, and the blocking build tries for ever, which is why
`AllocSucceeds` is about the other messages in that build.

`LogPoll` replaces the ring by the queue it implements. A thread takes a time
stamp, registers its log statement if nobody has, gets a buffer, pushes, and may
end. Whether the ring is full depends on sizes, which are left out: with `Blocking`
FALSE (the default build) any message may be dropped instead of pushed (`Discard`),
after its statement was registered and its time stamp taken; `discarded` records
which, and `AllWritten` claims nothing about those. `poll` is one action per access to shared state: `ReadClock`,
`MoveLogInfos`, `MoveThreadBuffers`, `ReadFront` and `DeleteEnded` for each node,
`MakeHeap`, `AdjustHeap`, `Candidate`, `Handle`, `NextHeader`, `EndPoll`. `adjustHeap`
takes a step for each round of its loop (`AdjustHeap`): `root` is the node it was
called with, `node` the one that goes down; `MakeHeap` calls it for the first half
of the nodes, from the middle to the first, `NextHeader` for the first node.
`startPollingThread` a second time, `stopPollingThread` and
the end of the process are `Stop`, `Restart`, `Destroy`, `Close`. `Linger` TRUE
means that the program keeps a thread until its messages have been read.

`ClockParams` has `saveParam` and `tsc2ns`: the sequence number and, in any
order, the three fields, each modelled by the calibration it comes from.

`LogFile` is what `LogPoll` leaves out of `poll`: time, bytes and files. A message
is a number, a length and the place where it begins, in `membuf` or in `contents`
of a file; it also carries what the properties compare: the file that was open
(`to`), the position its callback was told (`told`), the time (`at`).

| Code | Actions |
|---|---|
| `poll` | `BeginPoll` (reads the time), `HandleLog` for each message (format, call back, flush if the buffer is full or the level urgent), `EndPoll` (flush, or set `nextFlushTime`) |
| `flushLogFile` | `WriteOut`, `PosAfter`, `ClearBuf` |
| `closeLogFile` | `FlushOnClose`, within `CloseLogFile` and the three below |
| `setLogFile` | `SetLogFile` (by name, to append), `SetLogFileTruncated`, `SetLogFp` (a `FILE*`) |

The functions that change the file take no lock, so the program calls them while
nothing polls: the guard `~polling`. `FlushFirst` says whether the program calls
`poll(true)`, or closes the file, before it names another one. A poll that returns
early because no thread has a buffer left (finding 11) changes nothing here, and
`now` stays the time of the last poll that did not. `due` is history: the messages formatted while a file was open and
not cut off since by opening their file to truncate it.

## 3. Runs

| Run | Instance | Shows |
|---|---|---|
| `memory_pool` | 3 threads, 4 regions, groups of 2, 1 initial group, 6 blocks at most, `Quiescent` | `Ownership`, `UseCountExact`, `CapacityBound`, refinement `AllocatorSpec` |
| `memory_pool_racing` | 2 threads, 3 regions, 2 initial groups, not `Quiescent`, fair | what survives even the stray write: `AllCountExact`, `LockReleased`; and `IndexKept`: what makes an index stale |
| `coroutine` | 3 threads, 2 coroutines, 2 callbacks, owners only, fair | `CurrentIsStack`, `OneRunner`, `LostOnlyPastEnd`, `RunsItsCallBack`, `CallBackKept`, refinement `AbstractSpec`, and `ResumeReturns` |
| `coroutine_pool` | 3 threads, an empty pool that may grow to 3, one other coroutine, fair | `IdIsIndex`, `StacksDisjoint`, refinement `PoolSpec`, and `GrowthEnds` |
| `coctx_swap` | 2 coroutines side by side, stacks of 5 words, 1 word of locals | `Restored`, `StackKept`, `EntryByTheABI`, refinement `SwitchSpec` |
| `coctx_swap_top` | 1 coroutine, 6 words | `OwnStackOnly` is violated |
| `global_config` | 3 threads, 2 calls of `SetGlobalConfig`, 2 uses of the pool, 1 failure, 1 message in the log at a time, fair | `PoolUpToDate`, `HeaderSettled`, `CallsEnd` |
| `log_queue` | 8 blocks, messages of 2, 3, 7 and 8, 6 messages, both builds, fair | refinement `FifoSpec`, `AllocSucceeds`, `AllHandled` |
| `log_poll` | 3 threads, 1 log statement and `logOnce`, 3 messages, polling started twice, file buffered by 2, default build, `Linger` | `SiteOfId`, `SortedInPoll`, `NodesLive`, `AllWritten` |
| `clock_params` | 1 reader, 3 fields, 3 calibrations, fair | `OneCalibration`, `ReadEnds` |
| `log_file` | 2 files, lengths 1 and 2, `FlushBufSize` 4, `FlushDelay` 1, 3 messages, times up to 2, `FlushFirst` | `InItsFile`, `FilesInOrder`, `NotKept`, `PositionTold` |
| `block_bytes` | 12 bytes of heap, blocks of 1 to 3, groups of 1, 2 and 4, `Word` 16 | `BlocksApart`, `FlagsExact` |

Every module also has a type invariant, and some have invariants a run leaves
out because another property of the run, or a proof, implies them or because
one more instance shows them: `TypeOK` everywhere, `BeginsOnce`,
`RunningFlagExact`, `FreeIsClean`, `UsedIsOwned`, `GrowthBound`, `SlotsStay`,
`OnePool`, `ReturnedIndexValid`, `FreeBlocksFree`, `RegisteredOnce`, `ThreadOrder`,
`HandledOnceSent`, and the inductive invariants `IInv` (`ClockInv` in
`ClockParams`, `FileInv` and `PositionInv` in `LogFile`). They hold in the same
instances; add them to the `.cfg` to check them again.

Further instances, each with its `.cfg`, that are not part of the regular runs:

| `.cfg` | Module | Result |
|---|---|---|
| `MemoryPoolStaleIndex` | `MCMemoryPool` | as `memory_pool`, not `Quiescent`: `ReturnedIndexValid` is violated |
| `MemoryPoolCounters` | `MCMemoryPool` | `UsedNeverExceedsAll` is violated |
| `CoroutineTrustFlag`, `CoroutineResumeFlag` | `MCCoroutine` | `CallBackKept`, `ResumableWhenFlagged` are violated |
| `CoroutinePoolStandalone`, `CoroutinePoolUnlocked` | `MCCoroutinePool` | `IdIsIndex`, `SlotsStay` are violated |
| `GlobalConfigTorn`, `GlobalConfigHeader` | `GlobalConfig` | `SizesOfOneCall`, `WholeHeader` are violated |
| `LogPollDrain` | `LogPoll` | `AllWritten` and the liveness of `HandledOnceSent` hold, with 2 threads |
| `LogPollExit`, `LogPollForce` | `LogPoll` | `CollectsAll`, `ForceFlushes` are violated |
| `LogFileChange` | `LogFile` | as `log_file`, not `FlushFirst`: `PositionTold` is violated |
| `BlockBytesWrap` | `BlockBytes` | `BlocksApart` is violated |

Bounds.

- *Memory pool.* Six used blocks in groups of two need three groups, so growth,
  reuse of an earlier group, release of a first, middle and last group, and a
  move of the last group into a hole all occur; three threads give one in each
  of `getBlock`, `backBlock` and `recovery`. The fourth region keeps a region
  free at every growth. `CounterMax` is small but out of reach of a correct
  count, so an underflow would show as a wrong counter. `MaxUsed` is a guard of
  `getBlock`.
- *Coroutine.* `MaxJobs` is a guard of `setCallBack`; the number of Yields is
  not bounded. Two coroutines and two callbacks let one coroutine be used again,
  or both at a time, and three threads let a coroutine travel. The proofs cover
  any number.
- *Coroutine pool.* A pool that grows from 0 to 1 to 3 passes through the sizes
  at which half of the size rounds down, and three threads give a grower, an
  owner and a thread that waits. The proofs cover any size.
- *Context switch.* Blocks side by side are the case that a group of the memory
  pool gives. With 5 words one block ends between two 16-byte boundaries and the
  other on one, the two cases of the alignment in `setCallBack`.
- *Log queue.* 7 is the largest message that fits 8 blocks, so every wrap and
  every way of being full occurs, and 8 the smallest that does not; indices wrap
  several times in 6 messages.
- *Configuration.* Two calls of `SetGlobalConfig` overlap each other, the
  initialisations and the making of the pool; three threads give one that runs an
  initialisation, one that waits to take it over, and one that sets sizes.
  Messages are logged before, while and after the header is set.
- *Log poll.* Three buffers make a heap with two children. A message pushed
  while a poll runs, a thread that ends between the reads of the poll, and both
  ways of ending (a buffered file, a restarted thread) are reached.
- *Clock.* A read that overlaps none, one or more of three calibrations;
  `SeqMod` exceeds twice their number, as 2^32 does for centuries.
- *Log file.* Two files and the state without one let a file be closed, changed,
  opened again and truncated, with messages in the buffer or without; 3 messages of
  lengths 1 and 2 stay below, reach and exceed `FlushBufSize`, and two of them can
  be in the buffer when the third comes; with times 0 to 2 and a delay of 1 a flush
  is not yet due, due and overdue.

Symmetry is used in safety runs only. Deadlock is checked for the memory pool,
the coroutine pool and the context switch; elsewhere the process may end, or the
bounded number of calls be used up, and the `.cfg` switches it off.

Fairness. A thread inside a call is scheduled: weak fairness of its next step.
A call can wait for a lock for ever, since a `std::mutex` is not fair; nothing is
claimed about it. `FairSpec` of `Coroutine` also assumes that a callback that has
control yields or returns, that of `LogQueue` and `LogPoll` that the polling
thread polls again and again, which is its loop, and `ClockParams` that a reader
is scheduled; `saveParam` may stop between any two of its steps only as long as
its thread is not scheduled.

## 4. Findings

Finding 2 is a run of the project, the others come from the further instances.

1. *Stale index* (`MemoryPoolStaleIndex`). `backBlock` looks up the group
   under the lock, releases it, and uses the index under the lock again.
   `recovery` may free another group meanwhile and move the last group into
   its place: the flag of the returned block is never cleared, and the write
   goes elsewhere.
2. *Top of the stack* (`coctx_swap_top`). `setCallBack` makes the saved stack
   pointer the end of the block, and `coctx_swap` pushes the entry address after
   adding a word to it: the first word after the block is written, which is the
   lowest word of the next block. The properties of `coctx_swap` also hold with
   two blocks of 6 words, so a stack that does not use its lowest word is not
   disturbed.
3. *Counters* (`MemoryPoolCounters`). In growth `m_use_counts` rises before
   `m_all_counts`, and the getters (memory.h:40-41) do not lock:
   `getUseCount() > getAllCount()` for a moment.
4. *Resume flag* (`CoroutineResumeFlag`). Nothing clears `m_resume_flag` when
   the callback ends. coroutine.h:62 says "true -> the coroutine can resume", but
   to resume then continues past the end of `runCallBack`.
5. *Running flag* (`CoroutineTrustFlag`). It is cleared before the coroutine
   has left its stack, though coroutine.h:61 calls the callback completed then. A
   thread that sets the next callback, which `setCallBack` accepts, has its
   context overwritten by the `Yield` under way.
6. *Ids* (`CoroutinePoolStandalone`). The test expects `getCorId()` to be the
   index (test/test_coroutine_pool.cc:53), and `backCoroutine` relies on it. A
   coroutine constructed elsewhere draws an id from the same counter, and the
   next growth of the pool shifts all ids from their slots.
7. *Unlocked resize* (`CoroutinePoolUnlocked`). "The coroutine pools can only be
   scaled up!" (coroutine_pool.cc:108), but `resize` is public and takes no lock:
   two growths at once are a data race, and a slot may change its coroutine.
8. *Torn configuration* (`GlobalConfigTorn`). `SetGlobalConfig` stores the sizes
   one after the other; a pool constructed meanwhile gets one of each call.
9. *Header* (`GlobalConfigHeader`). The polling thread is started before the
   header is set: a message logged before is formatted with a half-set header,
   or one whose text has been freed.
10. *End of a thread* (`LogPollExit`). A thread that pushes a message and ends
    after `poll` has found its queue empty and before `poll` looks whether it has
    ended loses the message, whereas fmtlog.h:114 says poll collects the messages
    from all threads.
11. *Forced flush* (`LogPollForce`). `poll(true)` flushes the file (fmtlog.h:115),
    but returns early when no thread has a buffer left.
12. *Product in 32 bits* (`BlockBytesWrap`). A group of 2^32 bytes or more is
    allocated too small.
13. *Position after a change of the file* (`LogFileChange`). `setLogFile` with a
    name stores the position in the new file (fmtlog-inl.h:553) and then closes the
    old one (555), which writes out the buffer and adds its size to that position
    (320). From then on callbacks are told positions that are too high, whereas
    fmtlog.h:137 says they get the "log file position of this msg". `setLogFile`
    with a `FILE*` closes first, and is right. A program that empties the buffer
    first is not concerned: `log_file` and `PositionCorrect`.

## 5. Proofs

All theorems hold for every value of the constants that satisfies the named
assumptions of the module: sentinels lie outside the sets they mark, sizes are
naturals, the initial pool fits the counters, and the like.

`MemoryPool_proof`:

- `TypeCorrect`: `Spec => []TypeOK`, also without `Quiescent`. `TypeOK` alone is
  not inductive: a call that is about a block must have the address of one and
  a sweep an index above 0 (`CallInv`).
- With `Quiescent = TRUE`: `Invariance` (`Spec => []IInv`), and from it
  `OwnershipCorrect`. Ownership needs more to be
  preserved: the lock is held by exactly the thread in a critical section
  (`MutexInv`), no two groups share a region (`DistinctStarts`, or clearing one
  flag would free two blocks), the group just appended is the last one and
  untouched (`GrowInv`), a sweep never overlaps a return (`SweepQuiet`), and
  every index carried between critical sections is valid. The proof splits a
  step into what it does to the used blocks (`FlagUsed`, `AppendUsed`,
  `SwapPopUsed`) and what it does to the calls (`MutexStep`, `GrowStep`,
  `SweepStep`, `IndexStep`, `NoTransfer`, `Transfer`).
- With `Quiescent = TRUE`: `ImplementsAllocator`, `Spec => AllocatorSpec`. A step
  changes the `Stage` of one block or of none; that the abstract step is allowed
  (a block is granted only when free, freed only after its return began) is what
  `Ownership` says.
- `IndexKeptCorrect`, for all programs: of the steps of other calls only
  `SweepRelease` changes what is at an index (`CarriedKept`, `GroupsStay`), and
  `SwapPop` changes it at two. This is what the code does for `backBlock`; that the
  index is valid in between needs `Quiescent` (finding 1).
- `CapacityCorrect`, for all programs. The bound is about used blocks, the code
  about free flags; the link is that a pool appends a group only when every flag
  is set, counted with `Cardinality`.
- `AllCountCorrect` and, with `Quiescent = TRUE`, `UseCountCorrect`, assuming
  `Countable`: that all blocks of the largest pool the program can cause can be
  counted in the counter's width. Without it a correct count is not
  representable. At every step a counter differs from the number of blocks by
  what the calls under way have still to add or take off, which is one call's
  share for each, since a call holds the lock between its flag and its count,
  except `backBlock`, whose share is the reason the invariant sums over threads.

`Coroutine_proof`:

- `TypeCorrect` and `CurrentCorrect`: `Spec => []TypeOK`, `Spec => []CurrentIsStack`,
  for all clients, even those that share a coroutine too early. What is needed
  beside `TypeOK` is where a thread can be at each step (`PlaceInv`).
- For clients that pass a coroutine on only when its `Resume` has returned
  (`TrustFlag = FALSE`): `OneRunnerCorrect`, `LostOnlyPastEndCorrect`, `RunningFlagCorrect`,
  `RunsItsCallBackCorrect`, `CallBackKeptCorrect`, the action property
  `BeginsOnceCorrect`, and `ImplementsAsymmetricSwitch`: `Spec => AbstractSpec`.
  Finding 5 shows what fails without the assumption.

None of these is inductive. `IInv` adds who owns the coroutine a thread is in or
about to enter (`InsideInv`, from which two threads are never in one:
`InsideAlone`), how far its callback has come at each step (`ProgressInv`),
that the context of a coroutine at rest fits its flags (`ContextInv`: without
it nothing is known of a landing), and that callback numbers are fresh and not
shared (`CallBackInv`, `JobsInv`: or a callback could be taken for one that has
ended). `InvStep` has a step per action and under it one per conjunct. The
refinement takes a step of the code to a step that changes the `Life` of one
coroutine (`Becomes`), or to a stutter (`LifeKept`).

`CoroutinePool_proof`, for programs with `Unlocked = FALSE` and `Mixed = FALSE`
(findings 6 and 7 show what fails otherwise): `Invariance`, `IdIsIndexCorrect`,
`UsedIsOwnedCorrect`, `FreeIsCleanCorrect`, `StacksDisjointCorrect`,
`GrowthBoundCorrect`, the action property `SlotsStayCorrect`, and `ImplementsObjectPool`: `Spec => PoolSpec`. The inductive
invariant says that at most one thread grows the pool, with the lock or with
the others kept out (`GrowerInv`); where it is in its loop, and that the slots
from `old_size` on are its own, so that `GetNew` finds one (`LoopInv`); that
nobody else draws an id while the pool may grow (`IdInv`: the id drawn by `Make`
is the index at which `Store` puts it); that stacks are held blocks of one
coroutine each, the one about to be made included (`StackInv`); that nobody has
a coroutine without a slot (`OwnerInv`, without which a new slot might be in
use); and that what the loop grows to is covered by demand (`GoalInv`, which
needs a count of the owners when no slot is free: `AllOwned`). There is a lemma
per action; `HandInv`, `BeginInv`, `LoopStep` and `ReturnStep` hold what several
of them share.

`BlockBytes_proof`. `BlockInGroup`, `BlocksDisjoint` and `RoundTrip` are about the
arithmetic of `BlockArith`, for all sizes whose product fits the word (`RoundTrip`:
the index found by `backBlock` is the one `getBlock` computed the address from,
and no other group claims the address). With `Wrapping = FALSE` (the product of
the two sizes fits 32 bits; finding 12 shows what happens otherwise) `Invariance`,
`BlocksApartCorrect` and `FlagsExactCorrect` follow for the whole pool, for any
heap, sizes and places of groups. `IInv` needs that groups are as large as their
blocks and apart (`GroupsMade`), and that a block in hand is flagged in some
group (`HeldFlagged`), so `recovery` cannot free it at any step of its loop.

`CoctxSwap_proof`: `Invariance`, `RestoredCorrect`, `StackKeptCorrect`,
`EntryCorrect` and `ImplementsSwitch` (`Spec => SwitchSpec`), for any number of
coroutines and any size of stacks that holds the boot frame, with no further
assumption. `IInv` says for each instruction which registers already have the
new context's value and which still the old one's, that the saved stack pointer
and return address of a context at rest lead back to where it was, and that the
word `coctx_swap` pushes over is the one it has just saved or, for the first
switch, lies outside every stack in use. The refinement maps all instructions
but the last to stutters.

`GlobalConfig_proof`, with no assumption on the program: `TypeCorrect`,
`OnePoolCorrect`, the action property `HeaderSettledCorrect`, and
`PoolUpToDateCorrect`. `OrderInv` says who runs which initialisation, and what has
been made once it is done, the header among it. `SizesInv` says that a size stored
(`SizesKept`) or loaded (`SizesLoaded`) is of no setting that had been replaced: a
store may bring back an older setting, but only one whose call has not returned.

`LogParts_proof` is about what threads share without a lock in `fmtlog.h`, and the
file:

- The ring (`LogQueue`): `Invariance`, `FreeBlocksCorrect` and `ImplementsFifo`
  (`Spec => FifoSpec`), for any ring size, any message sizes, those that
  never fit included, any number of messages and both builds. `IInv` describes the ring as a chain:
  `placed` is in the order of the indices (`Ordered`), each message ends where the
  next begins, or at the wrap-around mark with the next at block 0 (`Linked`), the
  size fields along it are the ones the consumer will read, and the block after
  the last message is cleared (`Visible`); what the producer takes for free
  (`free_write_cnt`) reaches no further than the oldest message
  (`FreeBlocksFree`); and the messages are numbered in the order they were sent
  (`Numbered`). Each step of producer or consumer is shown to keep it; the
  abstract queue is the history in `placed`.
- The calibration (`ClockParams`): `ClockTypeCorrect`, `ClockInvariance` and
  `OneCalibrationCorrect`, for any readers, fields and counter size. `SeqInv`
  relates the sequence number to the calibrations, `ParamsInv` the fields to the
  store under way, and `ReaderInv` says what a reader's sequence number promises
  about the fields it has loaded.
- The file (`LogFile`): `FileInvariance`, `InItsFileCorrect`, `FilesInOrderCorrect` and
  `NotKeptCorrect` for all programs that do not change the file while polling, any
  files, lengths, sizes and delays; `PositionCorrect` assuming `FlushFirst = TRUE`
  (finding 13). `FileInv` says that the buffer holds messages of the open file only,
  in order (`Buffered`), that everything in the files was formatted before them and
  ends before the end of its file (`Written`), that no message of `due` is missing
  (`Somewhere`), and that `nextFlushTime` is at most the delay after the oldest
  message and, once a poll has ended, not past (`TimeInv`). `FlushedFiles` says what
  a flush makes of files for which this holds; `EmptiedInv` that its result does not
  depend on the file that is opened next. `PositionInv` adds that `fpos` is the
  length of the managed file (`Told`), which the flush in `setLogFile` would break.

`LogPoll_proof`: `Invariance`, `TypeCorrect`, `SiteOfIdCorrect`,
`RegisteredOnceCorrect`, `NodesLiveCorrect`, `SortedInPollCorrect`,
`ThreadOrderCorrect` and `AllWrittenCorrect`, for any number of threads, log
statements and messages, both builds, with and without `Linger`, any buffering of the file and
any number of restarts. The conjuncts of `IInv` and what they are needed for:

- `IdsInv`, `MessageIdsInv`: the id of a log statement is the place of its entry in
  `bgLogInfos \o logInfos`, or will be once the thread that holds the lock has
  appended it; a message has the id of its statement. `SiteOfId` and
  `RegisteredOnce` follow.
- `PollerInv`, `HeapInv`: where the loops of `poll` and `adjustHeap` can be. While
  nodes are put in order, the nodes from `root` on are a heap but for `node`, whose
  children do not go before its parent either; when the loop ends no node goes
  before its parent, so the first has the earliest message (`RootGoesFirst`, by
  the well-ordering of the indices).
- `OrderInv`, `TakenInv`: the time stamps of a thread rise from what is handled
  through its queue to the message it is logging, and every time stamp was taken
  by one thread, which still logs it, has it queued, had it handled or discarded it. This is
  the ground for `ThreadOrder` and for `AllWritten`.
- `SortedInv`: what this poll has handled is earlier than every header it holds.
  A thread's next header is later by `OrderInv`, the other nodes' by `HeapInv`.
- `FinalInv`: once logging has ended, the last poll reads the clock after every
  time stamp, collects every buffer, has a header for each queue that is not
  empty, and goes on until there is none.

Only model-checked: every liveness property, since ENABLED and fairness are out of
the prover's reach, and the properties that findings are about.

## 6. Not modelled

- Contents of blocks; allocation failure in the memory pool (the group constructor
  is `noexcept`: the process ends); block size 0; a block given back twice
  (nothing in the code looks for it).
- Vector and floating-point registers, which `coctx_swap` does not touch.
- `thread_local` state at the end of a thread, other than the log's buffer.
- In `fmtlog`: encoding and formatting of arguments, level and frequency filters,
  the arithmetic of the calibration. They are sequential, or change only texts.
  Changing the log file while polling (a data race), callbacks that call the log,
  and writes that fail.
- `fmt` (pure formatting), build files and macros, tests, and the copies of the
  headers under `out/`.
- `hasBlock`, `usedBlockHelp` and the getters change nothing.

## 7. Plan

Done: all components of the library, the concurrent part of the log, its file, and
the theorems above. What is left:

1. Writes to the log file that fail, and callbacks that change the file.
