----------------------------- MODULE GlobalConfig -----------------------------
(***************************************************************************)
(* The process-wide configuration and coroutine pool of coroutine_pool.cc: *)
(* two call_once initialisations, one inside the other, the two sizes that *)
(* SetGlobalConfig stores and the pool's constructor is given, and the     *)
(* polling thread and log header that the configuration sets up            *)
(* (setHeaderPattern of fmtlog-inl.h).                                     *)
(*                                                                         *)
(* The values of a setting are modelled by the number of the call of       *)
(* SetGlobalConfig they come from, 0 for the defaults.                     *)
(***************************************************************************)
EXTENDS Integers

CONSTANTS
  Threads,
  Nothing,     \* no pool yet, no size loaded yet, no message being formatted
  MaxSets,     \* bound: calls of SetGlobalConfig
  MaxGets,     \* bound: calls of GetGlobalCoroutinePool
  MaxFails,    \* bound: allocations that fail
  MaxQueue     \* bound: messages waiting for the polling thread

ASSUME ThreadsAssumption == "new" \notin Threads /\ "done" \notin Threads
ASSUME BoundsAssumption ==
  MaxSets \in Nat /\ MaxGets \in Nat /\ MaxFails \in Nat /\ MaxQueue \in Nat

VARIABLES
  configOnce, poolOnce, \* the once flags: "new", the thread that initialises, "done"
  config,     \* m_pool_size and m_stack_size
  pool,       \* g_coroutine_pool: Nothing, or the sizes it was made with and past
  pools,      \* number of pools made
  pc,         \* per thread, the step it is at
  ret,        \* per thread, the step after GetGlobalConfig
  setting,    \* per thread, the number of its call of SetGlobalConfig
  loaded,     \* per thread, the sizes loaded for the constructor
  sets, gets, fails, \* numbers of calls and of failures
  ended,      \* the calls of SetGlobalConfig that have ended, 0 among them
  old,        \* those of them that ended before another began that has ended too
  past,       \* per thread, the calls that had ended when its SetGlobalConfig began,
              \* or the old ones when it began to make the pool
  polling,    \* there is a polling thread
  header,     \* headerPattern, whether its text is live, reorderIdx, args
  queue,      \* number of messages waiting
  formatting, \* the header the polling thread formats a message with, or Nothing
  spoiled     \* a message was formatted with anything but one whole header

onceVars   == <<configOnce, poolOnce>>
poolVars   == <<pool, pools>>
threadVars == <<ret, setting, loaded>>
counts     == <<sets, gets, fails>>
history    == <<ended, old, past>>
logVars    == <<polling, header, queue, formatting, spoiled>>
vars == <<onceVars, config, poolVars, pc, threadVars, counts, history, logVars>>

-----------------------------------------------------------------------------
Size == {"pool_size", "stack_size"}

\* Header number n, as setHeaderPattern leaves it.
Header(n) == [live |-> TRUE, pattern |-> n, reorderIdx |-> n, args |-> n]

\* The constructor of fmtlog has set a header of its own.
Init ==
  /\ configOnce = "new" /\ poolOnce = "new"
  /\ config = [s \in Size |-> 0] /\ pool = Nothing /\ pools = 0
  /\ pc = [t \in Threads |-> "idle"] /\ ret = [t \in Threads |-> "none"]
  /\ setting = [t \in Threads |-> 0]
  /\ loaded = [t \in Threads |-> [s \in Size |-> Nothing]]
  /\ sets = 0 /\ gets = 0 /\ fails = 0
  /\ ended = {0} /\ old = {} /\ past = [t \in Threads |-> {}]
  /\ polling = FALSE /\ header = Header(0) /\ queue = 0
  /\ formatting = Nothing /\ spoiled = FALSE

Goes(t, from, to) == pc[t] = from /\ pc' = [pc EXCEPT ![t] = to]

\* The call thread t is in ends at step s; its local variables are gone.
Leave(t, s) ==
  /\ Goes(t, s, "idle")
  /\ ret' = [ret EXCEPT ![t] = "none"]
  /\ setting' = [setting EXCEPT ![t] = 0]
  /\ loaded' = [loaded EXCEPT ![t] = [z \in Size |-> Nothing]]
  /\ past' = [past EXCEPT ![t] = {}]

\* Thread t is in SetGlobalConfig.
InSet(t) == ret[t] \in {"pool_size", "stack_size"}

-----------------------------------------------------------------------------
(* GetGlobalConfig *)

\* Mutant: the flag is set before the configuration is made.
CallConfigEarly(t) ==
  /\ \/ configOnce = "done" /\ Goes(t, "config", ret[t]) /\ UNCHANGED configOnce
     \/ configOnce = "new" /\ Goes(t, "config", "poll") /\ configOnce' = "done"
  /\ UNCHANGED <<poolOnce, config, poolVars, threadVars, counts, history, logVars>>

\* call_once: initialise, wait for the thread that does, or go on.
CallConfig(t) ==
  /\ \/ configOnce = "done" /\ Goes(t, "config", ret[t]) /\ UNCHANGED configOnce
     \/ configOnce = "new" /\ Goes(t, "config", "poll") /\ configOnce' = t
  /\ UNCHANGED <<poolOnce, config, poolVars, threadVars, counts, history, logVars>>

\* CREATEPOLLTHREAD: a polling thread left by an initialisation that failed is told
\* to stop and joined first (what it formats between the two, it may as well have
\* formatted before: the header is the same).
StopPoll(t) ==
  /\ Goes(t, "poll", "join")
  /\ polling' = FALSE
  /\ UNCHANGED <<onceVars, config, poolVars, threadVars, counts, history,
                 header, queue, formatting, spoiled>>

StartPoll(t) ==
  /\ Goes(t, "join", "free")
  /\ formatting = Nothing
  /\ polling' = TRUE
  /\ UNCHANGED <<onceVars, config, poolVars, threadVars, counts, history,
                 header, queue, formatting, spoiled>>

\* SETLOGHEADER: the text of the old pattern is deleted; the order of the
\* arguments is reset and worked out; the pattern, then the arguments are set.
SetHeader(t, from, to, field, value) ==
  /\ Goes(t, from, to)
  /\ header' = [header EXCEPT ![field] = value]
  /\ UNCHANGED <<onceVars, config, poolVars, threadVars, counts, history,
                 polling, queue, formatting, spoiled>>

FreeHeader(t) == SetHeader(t, "free", "reorder", "live", FALSE)

ReorderHeader(t) == SetHeader(t, "reorder", "pattern", "reorderIdx", header.pattern + 1)

SetPattern(t) ==
  /\ Goes(t, "pattern", "args")
  /\ header' = [header EXCEPT !.pattern = @ + 1, !.live = TRUE]
  /\ UNCHANGED <<onceVars, config, poolVars, threadVars, counts, history,
                 polling, queue, formatting, spoiled>>

SetArgs(t) == SetHeader(t, "args", "make", "args", header.pattern)

\* The configuration is made.
MakeConfig(t) ==
  /\ Goes(t, "make", ret[t])
  /\ configOnce' = "done"
  /\ UNCHANGED <<poolOnce, config, poolVars, threadVars, counts, history, logVars>>

\* It cannot be allocated: the exception leaves both initialisations.
FailConfig(t) ==
  /\ fails < MaxFails
  /\ Leave(t, "make")
  /\ fails' = fails + 1
  /\ configOnce' = "new"
  /\ poolOnce' = IF ret[t] = "load" THEN "new" ELSE poolOnce
  /\ UNCHANGED <<config, poolVars, sets, gets, ended, old, logVars>>

GetGlobalConfig(t) ==
  \/ CallConfig(t) \/ StopPoll(t) \/ StartPoll(t) \/ FreeHeader(t) \/ ReorderHeader(t)
  \/ SetPattern(t) \/ SetArgs(t) \/ MakeConfig(t) \/ FailConfig(t)

-----------------------------------------------------------------------------
(* SetGlobalConfig *)

CallSet(t) ==
  /\ sets < MaxSets
  /\ Goes(t, "idle", "config")
  /\ ret' = [ret EXCEPT ![t] = "pool_size"]
  /\ sets' = sets + 1
  /\ setting' = [setting EXCEPT ![t] = sets + 1]
  /\ past' = [past EXCEPT ![t] = ended]
  /\ UNCHANGED <<onceVars, config, poolVars, loaded, gets, fails, ended, old, logVars>>

StorePoolSize(t) ==
  /\ Goes(t, "pool_size", "config")
  /\ config' = [config EXCEPT !.pool_size = setting[t]]
  /\ ret' = [ret EXCEPT ![t] = "stack_size"]
  /\ UNCHANGED <<onceVars, poolVars, setting, loaded, counts, history, logVars>>

\* Mutant: the second store goes to the first size again.
StoreStackWrong(t) ==
  /\ Leave(t, "stack_size")
  /\ config' = [config EXCEPT !.pool_size = setting[t]]
  /\ ended' = ended \cup {setting[t]} /\ old' = old \cup past[t]
  /\ UNCHANGED <<onceVars, poolVars, counts, logVars>>

StoreStackSize(t) ==
  /\ Leave(t, "stack_size")
  /\ config' = [config EXCEPT !.stack_size = setting[t]]
  /\ ended' = ended \cup {setting[t]} /\ old' = old \cup past[t]
  /\ UNCHANGED <<onceVars, poolVars, counts, logVars>>

-----------------------------------------------------------------------------
(* GetGlobalCoroutinePool *)

CallGet(t) ==
  /\ gets < MaxGets
  /\ Goes(t, "idle", "pool")
  /\ ret' = [ret EXCEPT ![t] = "load"]
  /\ gets' = gets + 1
  /\ UNCHANGED <<onceVars, config, poolVars, setting, loaded, sets, fails, history, logVars>>

\* Mutant: threads that come while the pool is made each make one.
CallPoolAgain(t) ==
  /\ \/ poolOnce = "done" /\ Goes(t, "pool", "got") /\ UNCHANGED poolOnce
     \/ poolOnce # "done" /\ Goes(t, "pool", "config") /\ poolOnce' = t
  /\ loaded' = [loaded EXCEPT ![t] = [s \in Size |-> Nothing]]
  /\ past' = [past EXCEPT ![t] = old]
  /\ UNCHANGED <<configOnce, config, poolVars, ret, setting, counts, ended, old, logVars>>

CallPool(t) ==
  /\ \/ poolOnce = "done" /\ Goes(t, "pool", "got") /\ UNCHANGED poolOnce
     \/ poolOnce = "new" /\ Goes(t, "pool", "config") /\ poolOnce' = t
  /\ loaded' = [loaded EXCEPT ![t] = [s \in Size |-> Nothing]]
  /\ past' = [past EXCEPT ![t] = old]
  /\ UNCHANGED <<configOnce, config, poolVars, ret, setting, counts, ended, old, logVars>>

\* The two sizes are loaded for the constructor, in either order.
LoadSize(t, s) ==
  /\ pc[t] = "load" /\ loaded[t][s] = Nothing
  /\ loaded' = [loaded EXCEPT ![t][s] = config[s]]
  /\ UNCHANGED <<onceVars, config, poolVars, pc, ret, setting, counts, history, logVars>>

Loaded(t) == \A s \in Size : loaded[t][s] # Nothing

\* Mutant: made before both sizes are loaded.
MakePoolEarly(t) ==
  /\ Goes(t, "load", "got")
  /\ pool' = [sizes |-> loaded[t], past |-> past[t]]
  /\ pools' = pools + 1
  /\ poolOnce' = "done"
  /\ UNCHANGED <<configOnce, config, threadVars, counts, history, logVars>>

MakePool(t) ==
  /\ Goes(t, "load", "got") /\ Loaded(t)
  /\ pool' = [sizes |-> loaded[t], past |-> past[t]]
  /\ pools' = pools + 1
  /\ poolOnce' = "done"
  /\ UNCHANGED <<configOnce, config, threadVars, counts, history, logVars>>

\* Mutant: the flag is not given up.
FailPoolStuck(t) ==
  /\ Leave(t, "load") /\ Loaded(t)
  /\ fails < MaxFails
  /\ fails' = fails + 1
  /\ UNCHANGED <<onceVars, config, poolVars, sets, gets, ended, old, logVars>>

\* The constructor throws: the next call makes the pool.
FailPool(t) ==
  /\ Leave(t, "load") /\ Loaded(t)
  /\ fails < MaxFails
  /\ fails' = fails + 1
  /\ poolOnce' = "new"
  /\ UNCHANGED <<configOnce, config, poolVars, sets, gets, ended, old, logVars>>

ReturnPool(t) ==
  /\ Leave(t, "got")
  /\ UNCHANGED <<onceVars, config, poolVars, counts, ended, old, logVars>>

-----------------------------------------------------------------------------
(* Messages and the polling thread *)

Log ==
  /\ queue < MaxQueue
  /\ queue' = queue + 1
  /\ UNCHANGED <<onceVars, config, poolVars, pc, threadVars, counts, history,
                 polling, header, formatting, spoiled>>

\* handleLog begins to format a message with the header there is, and ends.
BeginFormat ==
  /\ polling /\ queue > 0 /\ formatting = Nothing
  /\ formatting' = header
  /\ UNCHANGED <<onceVars, config, poolVars, pc, threadVars, counts, history,
                 polling, header, queue, spoiled>>

EndFormat ==
  /\ formatting # Nothing
  /\ formatting' = Nothing /\ queue' = queue - 1
  /\ spoiled' = (spoiled \/ formatting # header \/ header # Header(header.pattern))
  /\ UNCHANGED <<onceVars, config, poolVars, pc, threadVars, counts, history, polling, header>>

-----------------------------------------------------------------------------
Step(t) ==
  \/ GetGlobalConfig(t) \/ StorePoolSize(t) \/ StoreStackSize(t)
  \/ CallPool(t) \/ MakePool(t) \/ FailPool(t) \/ ReturnPool(t)
  \/ \E s \in Size : LoadSize(t, s)

Next ==
  \/ Log \/ BeginFormat \/ EndFormat
  \/ \E t \in Threads : CallSet(t) \/ CallGet(t) \/ Step(t)

Spec == Init /\ [][Next]_vars

\* Every thread is scheduled, the polling thread too.
FairSpec == Spec /\ WF_vars(EndFormat) /\ \A t \in Threads : WF_vars(Step(t))

-----------------------------------------------------------------------------
(* Properties *)

TypeOK ==
  /\ configOnce \in {"new", "done"} \cup Threads
  /\ poolOnce \in {"new", "done"} \cup Threads
  /\ config \in [Size -> 0 .. MaxSets]
  /\ pool \in [sizes : [Size -> 0 .. MaxSets], past : SUBSET (0 .. MaxSets)] \cup {Nothing}
  /\ pools \in Nat
  /\ pc \in [Threads -> {"idle", "config", "poll", "join", "free", "reorder", "pattern", "args",
                         "make", "pool_size", "stack_size", "pool", "load", "got"}]
  /\ ret \in [Threads -> {"none", "pool_size", "stack_size", "load"}]
  /\ setting \in [Threads -> 0 .. MaxSets]
  /\ loaded \in [Threads -> [Size -> 0 .. MaxSets \cup {Nothing}]]
  /\ sets \in 0 .. MaxSets /\ gets \in 0 .. MaxGets /\ fails \in 0 .. MaxFails
  /\ ended \subseteq 0 .. MaxSets /\ old \subseteq 0 .. MaxSets
  /\ past \in [Threads -> SUBSET (0 .. MaxSets)]
  /\ polling \in BOOLEAN /\ queue \in 0 .. MaxQueue /\ spoiled \in BOOLEAN
  /\ header \in [live : BOOLEAN, pattern : Nat, reorderIdx : Nat, args : Nat]

\* However many threads ask for the pool at once, and whatever fails meanwhile, one
\* pool is made, and a thread that has it got it after it was made.
OnePool ==
  /\ pools <= 1
  /\ \A t \in Threads : pc[t] = "got" => pools = 1 /\ poolOnce = "done"

\* The sizes are stored and loaded one by one, by calls that may overlap one another
\* and the making of the pool; still neither size is one that had been replaced: of
\* a call (or the default) that ended before another began which ended before the
\* pool was begun.  So when no calls overlap, the pool has both sizes of the last.
PoolUpToDate == pool # Nothing => \A s \in Size : pool.sizes[s] \notin pool.past

\* Once GetGlobalConfig has returned to one thread, the header is whole for good,
\* whatever initialisation failed before and whichever threads come next: a message
\* whose formatting begins then is formatted with one header, whose text is live.
HeaderSettled ==
  [][configOnce = "done" =>
       /\ header' = header
       /\ formatting = Nothing => formatting' \in {Nothing, Header(header.pattern)}]_vars

\* A message is formatted with one header, whose text is live.
WholeHeader == ~spoiled

\* The steps of the thread that makes the configuration, and of the one that
\* makes the pool.
ConfigSteps == {"poll", "join", "free", "reorder", "pattern", "args", "make"}
MakesPool(t) ==
  \/ pc[t] = "load"
  \/ ret[t] = "load" /\ pc[t] \in ConfigSteps \cup {"config"}

\* Each flag names the thread that initialises; who comes back from
\* GetGlobalConfig finds the configuration, and so SetGlobalConfig cannot fail
\* between its two stores.
OnceInv ==
  /\ \A t \in Threads :
       /\ configOnce = t <=> pc[t] \in ConfigSteps
       /\ poolOnce = t <=> MakesPool(t)
       /\ pc[t] \in ConfigSteps \cup {"config"} => ret[t] # "none"
       /\ pc[t] \in {"pool_size", "stack_size", "load"} => ret[t] = pc[t] /\ configOnce = "done"
       /\ pc[t] \in {"pool", "got"} => ret[t] = "load"
       /\ InSet(t) /\ ret[t] = "stack_size" => configOnce = "done"

\* The flag counts the pools.
PoolMade ==
  /\ pools = IF poolOnce = "done" THEN 1 ELSE 0
  /\ \A t \in Threads : pc[t] = "got" => poolOnce = "done"

\* How far the thread that sets the header has come.
HeaderSet ==
  /\ configOnce = "done" => header = Header(header.pattern)
  /\ \A t \in Threads :
       /\ pc[t] = "pattern" => header.reorderIdx = header.pattern + 1
       /\ pc[t] = "args" => header.live /\ header.reorderIdx = header.pattern
       /\ pc[t] = "make" => header = Header(header.pattern)

\* A message leaves the queue when it has been formatted.
FormatsWaiting == formatting # Nothing => queue > 0

\* A call of SetGlobalConfig under way has a number of its own, that of no call
\* that has ended.
SetNumbers ==
  /\ ended \subseteq 0 .. sets /\ old \subseteq ended
  /\ \A t \in Threads : InSet(t) =>
       /\ setting[t] \in (1 .. sets) \ ended
       /\ past[t] \subseteq ended
       /\ \A u \in Threads \ {t} : InSet(u) => setting[t] # setting[u]

\* No size is that of an old call, nor, once a call has stored it, of a call that
\* had ended when that one began.
SizesKept ==
  /\ \A s \in Size : config[s] \notin old
  /\ \A t \in Threads :
       InSet(t) /\ ret[t] = "stack_size" => config.pool_size \notin past[t]

\* The sizes loaded so far are of no call that was old when the making began.
SizesLoaded ==
  \A t \in Threads : MakesPool(t) =>
    /\ past[t] \subseteq old
    /\ \A s \in Size : loaded[t][s] = Nothing \/ loaded[t][s] \notin past[t]

\* The flags, the header and the queue; the sizes: whatever the program does.
OrderInv == TypeOK /\ OnceInv /\ PoolMade /\ HeaderSet /\ FormatsWaiting
SizesInv == SetNumbers /\ SizesKept /\ SizesLoaded /\ PoolUpToDate
IInv     == OrderInv /\ SizesInv

\* No call waits for ever: the two initialisations do not wait for each other, and
\* one that fails is done again by a thread that waits.
CallsEnd == \A t \in Threads : pc[t] # "idle" ~> pc[t] = "idle"

\* What test_coroutine_pool.cc:35-42 says of SetGlobalConfig: the pool made after it
\* has both sizes of one call.
SizesOfOneCall == pool # Nothing => pool.sizes.pool_size = pool.sizes.stack_size
=============================================================================
