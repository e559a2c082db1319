-------------------------- MODULE GlobalConfig_proof --------------------------
(***************************************************************************)
(* Theorems about GlobalConfig, for every number of threads, calls,        *)
(* failures and messages.                                                  *)
(***************************************************************************)
EXTENDS GlobalConfig, TLAPS

-----------------------------------------------------------------------------
(* Whatever the program does *)

LEMMA OrderInit == Init => OrderInv
<1> SUFFICES ASSUME Init PROVE OrderInv
  OBVIOUS
<1> USE BoundsAssumption DEF Init, Header
<1>1. TypeOK
  <2>1. header \in [live : BOOLEAN, pattern : Nat, reorderIdx : Nat, args : Nat]
    OBVIOUS
  <2>2. loaded \in [Threads -> [Size -> 0 .. MaxSets \cup {Nothing}]]
    OBVIOUS
  <2>3. pc \in [Threads -> {"idle"}] /\ ret \in [Threads -> {"none"}]
    OBVIOUS
  <2>4. /\ config \in [Size -> 0 .. MaxSets] /\ setting \in [Threads -> 0 .. MaxSets]
        /\ sets \in 0 .. MaxSets /\ gets \in 0 .. MaxGets /\ fails \in 0 .. MaxFails
        /\ queue \in 0 .. MaxQueue
    OBVIOUS
  <2>5. /\ ended \subseteq 0 .. MaxSets /\ old \subseteq 0 .. MaxSets
        /\ past \in [Threads -> SUBSET (0 .. MaxSets)]
    OBVIOUS
  <2> HIDE DEF Init
  <2> QED
    BY <2>1, <2>2, <2>3, <2>4, <2>5 DEF TypeOK, Init
<1>2. OnceInv
  BY ThreadsAssumption DEF OnceInv, MakesPool, ConfigSteps, InSet
<1>3. PoolMade /\ HeaderSet /\ FormatsWaiting
  BY DEF PoolMade, HeaderSet, FormatsWaiting
<1> QED
  BY <1>1, <1>2, <1>3 DEF OrderInv

\* A call of GetGlobalConfig knows where it returns to: OnceInv.
LEMMA TypeStep ==
  ASSUME TypeOK, OnceInv, FormatsWaiting, [Next]_vars
  PROVE  TypeOK'
<1> USE BoundsAssumption DEF TypeOK, Goes, Leave, history, vars, onceVars, poolVars,
        threadVars, counts, logVars
<1>1. ASSUME NEW t \in Threads, CallConfig(t) PROVE TypeOK'
  <2>1. ret[t] \in {"pool_size", "stack_size", "load"}
    BY <1>1 DEF CallConfig, OnceInv, ConfigSteps
  <2>2. PICK s \in {"poll", "pool_size", "stack_size", "load"} : pc' = [pc EXCEPT ![t] = s]
    BY <1>1, <2>1 DEF CallConfig
  <2>3. configOnce' \in {configOnce, t}
    BY <1>1 DEF CallConfig
  <2>4. pc' \in [Threads -> {"idle", "config", "poll", "join", "free", "reorder", "pattern",
                              "args", "make", "pool_size", "stack_size", "pool", "load",
                              "got"}]
    BY <2>2
  <2>5. configOnce' \in {"new", "done"} \cup Threads
    BY <2>3
  <2>6. /\ UNCHANGED <<poolOnce, config, poolVars>> /\ UNCHANGED <<threadVars, counts>>
        /\ UNCHANGED <<history, logVars>>
    BY <1>1 DEF CallConfig
  <2> QED
    BY <2>4, <2>5, <2>6, SMTT(30)
<1>2. ASSUME NEW t \in Threads, StopPoll(t) \/ StartPoll(t) PROVE TypeOK'
  BY <1>2 DEF StopPoll, StartPoll
<1>3. ASSUME NEW t \in Threads, FreeHeader(t) PROVE TypeOK'
  BY <1>3 DEF FreeHeader, SetHeader
<1>4. ASSUME NEW t \in Threads, ReorderHeader(t) PROVE TypeOK'
  <2>1. header' \in [live : BOOLEAN, pattern : Nat, reorderIdx : Nat, args : Nat]
    <3>1. header' = [live |-> header.live, pattern |-> header.pattern,
                     reorderIdx |-> header.pattern + 1, args |-> header.args]
      BY <1>4 DEF ReorderHeader, SetHeader
    <3> QED
      BY <3>1
  <2> QED
    BY <1>4, <2>1 DEF ReorderHeader, SetHeader
<1>5. ASSUME NEW t \in Threads, SetPattern(t) PROVE TypeOK'
  <2>1. header' \in [live : BOOLEAN, pattern : Nat, reorderIdx : Nat, args : Nat]
    <3>1. header' = [live |-> TRUE, pattern |-> header.pattern + 1,
                     reorderIdx |-> header.reorderIdx, args |-> header.args]
      BY <1>5 DEF SetPattern
    <3> QED
      BY <3>1
  <2>2. pc' \in [Threads -> {"idle", "config", "poll", "join", "free", "reorder",
                             "pattern", "args", "make", "pool_size", "stack_size", "pool", "load",
                             "got"}]
    BY <1>5 DEF SetPattern
  <2> QED
    BY <2>1, <2>2, <1>5 DEF SetPattern
<1>6. ASSUME NEW t \in Threads, SetArgs(t) PROVE TypeOK'
  BY <1>6 DEF SetArgs, SetHeader
<1>7. ASSUME NEW t \in Threads, MakeConfig(t) PROVE TypeOK'
  BY <1>7 DEF MakeConfig, OnceInv, ConfigSteps
<1>8. ASSUME NEW t \in Threads, FailConfig(t) PROVE TypeOK'
  BY <1>8 DEF FailConfig
<1>9. ASSUME NEW t \in Threads, CallSet(t) PROVE TypeOK'
  BY <1>9 DEF CallSet
<1>10. ASSUME NEW t \in Threads, StorePoolSize(t) PROVE TypeOK'
  BY <1>10 DEF StorePoolSize, Size
<1>11. ASSUME NEW t \in Threads, StoreStackSize(t) PROVE TypeOK'
  BY <1>11 DEF StoreStackSize, Size
<1>12. ASSUME NEW t \in Threads, CallGet(t) PROVE TypeOK'
  BY <1>12 DEF CallGet
<1>13. ASSUME NEW t \in Threads, CallPool(t) PROVE TypeOK'
  BY <1>13 DEF CallPool, Size
<1>14. ASSUME NEW t \in Threads, NEW s \in Size, LoadSize(t, s) PROVE TypeOK'
  BY <1>14 DEF LoadSize
<1>15. ASSUME NEW t \in Threads, MakePool(t) PROVE TypeOK'
  BY <1>15 DEF MakePool, Loaded, Size
<1>16. ASSUME NEW t \in Threads, FailPool(t) PROVE TypeOK'
  BY <1>16 DEF FailPool
<1>17. ASSUME NEW t \in Threads, ReturnPool(t) PROVE TypeOK'
  BY <1>17 DEF ReturnPool
<1>18. CASE Log
  BY <1>18 DEF Log
<1>19. CASE BeginFormat
  BY <1>19 DEF BeginFormat
<1>20. CASE EndFormat
  BY <1>20 DEF EndFormat, FormatsWaiting
<1>21. CASE UNCHANGED vars
  BY <1>21
<1> HIDE DEF TypeOK, Goes, Leave, history, vars, onceVars, poolVars,
        threadVars, counts, logVars
<1> QED
  BY <1>1, <1>2, <1>3, <1>4, <1>5, <1>6, <1>7, <1>8, <1>9, <1>10, <1>11,
     <1>12, <1>13, <1>14, <1>15, <1>16, <1>17, <1>18, <1>19, <1>20, <1>21
  DEF Next, Step, GetGlobalConfig

\* The flags: only the thread that holds one leaves its steps.
LEMMA OnceStep ==
  ASSUME TypeOK, OnceInv, [Next]_vars
  PROVE  OnceInv'
<1> USE ThreadsAssumption DEF TypeOK, OnceInv, MakesPool, InSet, ConfigSteps,
        Goes, Leave, history, vars, onceVars, poolVars, threadVars, counts, logVars
<1>1. ASSUME NEW t \in Threads, CallConfig(t) PROVE OnceInv'
  BY <1>1 DEF CallConfig
<1>2. ASSUME NEW t \in Threads, StopPoll(t) \/ StartPoll(t) PROVE OnceInv'
  BY <1>2 DEF StopPoll, StartPoll
<1>3. ASSUME NEW t \in Threads, FreeHeader(t) PROVE OnceInv'
  BY <1>3 DEF FreeHeader, SetHeader
<1>4. ASSUME NEW t \in Threads, ReorderHeader(t) PROVE OnceInv'
  BY <1>4 DEF ReorderHeader, SetHeader
<1>5. ASSUME NEW t \in Threads, SetPattern(t) PROVE OnceInv'
  BY <1>5 DEF SetPattern
<1>6. ASSUME NEW t \in Threads, SetArgs(t) PROVE OnceInv'
  BY <1>6 DEF SetArgs, SetHeader
<1>7. ASSUME NEW t \in Threads, MakeConfig(t) PROVE OnceInv'
  BY <1>7 DEF MakeConfig
<1>8. ASSUME NEW t \in Threads, FailConfig(t) PROVE OnceInv'
  BY <1>8 DEF FailConfig
<1>9. ASSUME NEW t \in Threads, CallSet(t) PROVE OnceInv'
  BY <1>9 DEF CallSet
<1>10. ASSUME NEW t \in Threads, StorePoolSize(t) PROVE OnceInv'
  BY <1>10 DEF StorePoolSize
<1>11. ASSUME NEW t \in Threads, StoreStackSize(t) PROVE OnceInv'
  BY <1>11 DEF StoreStackSize
<1>12. ASSUME NEW t \in Threads, CallGet(t) PROVE OnceInv'
  BY <1>12 DEF CallGet
<1>13. ASSUME NEW t \in Threads, CallPool(t) PROVE OnceInv'
  BY <1>13 DEF CallPool
<1>14. ASSUME NEW t \in Threads, NEW s \in Size, LoadSize(t, s) PROVE OnceInv'
  BY <1>14 DEF LoadSize
<1>15. ASSUME NEW t \in Threads, MakePool(t) PROVE OnceInv'
  BY <1>15 DEF MakePool
<1>16. ASSUME NEW t \in Threads, FailPool(t) PROVE OnceInv'
  BY <1>16 DEF FailPool
<1>17. ASSUME NEW t \in Threads, ReturnPool(t) PROVE OnceInv'
  BY <1>17 DEF ReturnPool
<1>18. CASE Log
  BY <1>18 DEF Log
<1>19. CASE BeginFormat
  BY <1>19 DEF BeginFormat
<1>20. CASE EndFormat
  BY <1>20 DEF EndFormat
<1>21. CASE UNCHANGED vars
  BY <1>21
<1> HIDE DEF TypeOK, OnceInv, MakesPool, InSet, ConfigSteps,
        Goes, Leave, history, vars, onceVars, poolVars, threadVars, counts, logVars
<1> QED
  BY <1>1, <1>2, <1>3, <1>4, <1>5, <1>6, <1>7, <1>8, <1>9, <1>10, <1>11,
     <1>12, <1>13, <1>14, <1>15, <1>16, <1>17, <1>18, <1>19, <1>20, <1>21
  DEF Next, Step, GetGlobalConfig

\* The thread that holds the flag makes the pool, and sets the flag with it.
LEMMA PoolStep ==
  ASSUME TypeOK, OnceInv, PoolMade, [Next]_vars
  PROVE  PoolMade'
<1> USE ThreadsAssumption DEF TypeOK, OnceInv, PoolMade, MakesPool, Goes, Leave,
        history, vars, onceVars, poolVars, threadVars, counts, logVars
<1>1. ASSUME NEW t \in Threads, CallConfig(t) PROVE PoolMade'
  BY <1>1 DEF CallConfig
<1>2. ASSUME NEW t \in Threads, StopPoll(t) \/ StartPoll(t) PROVE PoolMade'
  BY <1>2 DEF StopPoll, StartPoll
<1>3. ASSUME NEW t \in Threads, FreeHeader(t) PROVE PoolMade'
  BY <1>3 DEF FreeHeader, SetHeader
<1>4. ASSUME NEW t \in Threads, ReorderHeader(t) PROVE PoolMade'
  BY <1>4 DEF ReorderHeader, SetHeader
<1>5. ASSUME NEW t \in Threads, SetPattern(t) PROVE PoolMade'
  BY <1>5 DEF SetPattern
<1>6. ASSUME NEW t \in Threads, SetArgs(t) PROVE PoolMade'
  BY <1>6 DEF SetArgs, SetHeader
<1>7. ASSUME NEW t \in Threads, MakeConfig(t) PROVE PoolMade'
  BY <1>7 DEF MakeConfig
<1>8. ASSUME NEW t \in Threads, FailConfig(t) PROVE PoolMade'
  BY <1>8 DEF FailConfig, ConfigSteps
<1>9. ASSUME NEW t \in Threads, CallSet(t) PROVE PoolMade'
  BY <1>9 DEF CallSet
<1>10. ASSUME NEW t \in Threads, StorePoolSize(t) PROVE PoolMade'
  BY <1>10 DEF StorePoolSize
<1>11. ASSUME NEW t \in Threads, StoreStackSize(t) PROVE PoolMade'
  BY <1>11 DEF StoreStackSize
<1>12. ASSUME NEW t \in Threads, CallGet(t) PROVE PoolMade'
  BY <1>12 DEF CallGet
<1>13. ASSUME NEW t \in Threads, CallPool(t) PROVE PoolMade'
  BY <1>13 DEF CallPool
<1>14. ASSUME NEW t \in Threads, NEW s \in Size, LoadSize(t, s) PROVE PoolMade'
  BY <1>14 DEF LoadSize
<1>15. ASSUME NEW t \in Threads, MakePool(t) PROVE PoolMade'
  BY <1>15 DEF MakePool
<1>16. ASSUME NEW t \in Threads, FailPool(t) PROVE PoolMade'
  BY <1>16 DEF FailPool
<1>17. ASSUME NEW t \in Threads, ReturnPool(t) PROVE PoolMade'
  BY <1>17 DEF ReturnPool
<1>18. CASE Log
  BY <1>18 DEF Log
<1>19. CASE BeginFormat
  BY <1>19 DEF BeginFormat
<1>20. CASE EndFormat
  BY <1>20 DEF EndFormat
<1>21. CASE UNCHANGED vars
  BY <1>21
<1> HIDE DEF TypeOK, OnceInv, PoolMade, MakesPool, Goes, Leave,
        history, vars, onceVars, poolVars, threadVars, counts, logVars
<1> QED
  BY <1>1, <1>2, <1>3, <1>4, <1>5, <1>6, <1>7, <1>8, <1>9, <1>10, <1>11,
     <1>12, <1>13, <1>14, <1>15, <1>16, <1>17, <1>18, <1>19, <1>20, <1>21
  DEF Next, Step, GetGlobalConfig

\* One thread changes the header, in the order of setHeaderPattern.
LEMMA HeaderStep ==
  ASSUME TypeOK, OnceInv, HeaderSet, [Next]_vars
  PROVE  HeaderSet'
<1> USE ThreadsAssumption DEF TypeOK, OnceInv, HeaderSet, ConfigSteps, Header,
        Goes, Leave, history, vars, onceVars, poolVars, threadVars, counts, logVars
<1>1. ASSUME NEW t \in Threads, CallConfig(t) PROVE HeaderSet'
  BY <1>1 DEF CallConfig
<1>2. ASSUME NEW t \in Threads, StopPoll(t) \/ StartPoll(t) PROVE HeaderSet'
  BY <1>2 DEF StopPoll, StartPoll
<1>3. ASSUME NEW t \in Threads, FreeHeader(t) PROVE HeaderSet'
  BY <1>3 DEF FreeHeader, SetHeader
<1>4. ASSUME NEW t \in Threads, ReorderHeader(t) PROVE HeaderSet'
  BY <1>4 DEF ReorderHeader, SetHeader
<1>5. ASSUME NEW t \in Threads, SetPattern(t) PROVE HeaderSet'
  BY <1>5 DEF SetPattern
<1>6. ASSUME NEW t \in Threads, SetArgs(t) PROVE HeaderSet'
  <2>1. /\ header.live = TRUE /\ header.reorderIdx = header.pattern
        /\ header' = [header EXCEPT !["args"] = header.pattern]
    BY <1>6 DEF SetArgs, SetHeader
  <2>2. header' = Header(header.pattern) /\ header'.pattern = header.pattern
    BY <2>1
  <2>3. /\ configOnce = t /\ \A u \in Threads \ {t} : pc[u] \notin ConfigSteps
        /\ pc' = [pc EXCEPT ![t] = "make"] /\ configOnce' = configOnce
    BY <1>6 DEF SetArgs, SetHeader
  <2>4. ASSUME NEW u \in Threads PROVE pc'[u] \notin {"pattern", "args"}
    BY <2>3
  <2> QED
    BY <2>2, <2>4
<1>7. ASSUME NEW t \in Threads, MakeConfig(t) PROVE HeaderSet'
  BY <1>7 DEF MakeConfig
<1>8. ASSUME NEW t \in Threads, FailConfig(t) PROVE HeaderSet'
  BY <1>8 DEF FailConfig
<1>9. ASSUME NEW t \in Threads, CallSet(t) PROVE HeaderSet'
  BY <1>9 DEF CallSet
<1>10. ASSUME NEW t \in Threads, StorePoolSize(t) PROVE HeaderSet'
  BY <1>10 DEF StorePoolSize
<1>11. ASSUME NEW t \in Threads, StoreStackSize(t) PROVE HeaderSet'
  BY <1>11 DEF StoreStackSize
<1>12. ASSUME NEW t \in Threads, CallGet(t) PROVE HeaderSet'
  BY <1>12 DEF CallGet
<1>13. ASSUME NEW t \in Threads, CallPool(t) PROVE HeaderSet'
  BY <1>13 DEF CallPool
<1>14. ASSUME NEW t \in Threads, NEW s \in Size, LoadSize(t, s) PROVE HeaderSet'
  BY <1>14 DEF LoadSize
<1>15. ASSUME NEW t \in Threads, MakePool(t) PROVE HeaderSet'
  BY <1>15 DEF MakePool
<1>16. ASSUME NEW t \in Threads, FailPool(t) PROVE HeaderSet'
  BY <1>16 DEF FailPool
<1>17. ASSUME NEW t \in Threads, ReturnPool(t) PROVE HeaderSet'
  BY <1>17 DEF ReturnPool
<1>18. CASE Log
  BY <1>18 DEF Log
<1>19. CASE BeginFormat
  BY <1>19 DEF BeginFormat
<1>20. CASE EndFormat
  BY <1>20 DEF EndFormat
<1>21. CASE UNCHANGED vars
  BY <1>21
<1> HIDE DEF TypeOK, OnceInv, HeaderSet, ConfigSteps, Header,
        Goes, Leave, history, vars, onceVars, poolVars, threadVars, counts, logVars
<1> QED
  BY <1>1, <1>2, <1>3, <1>4, <1>5, <1>6, <1>7, <1>8, <1>9, <1>10, <1>11,
     <1>12, <1>13, <1>14, <1>15, <1>16, <1>17, <1>18, <1>19, <1>20, <1>21
  DEF Next, Step, GetGlobalConfig

\* The polling thread alone takes messages.
LEMMA WaitingStep ==
  ASSUME TypeOK, FormatsWaiting, [Next]_vars
  PROVE  FormatsWaiting'
<1> USE BoundsAssumption DEF TypeOK, FormatsWaiting, Goes, Leave, history, vars, onceVars,
        poolVars, threadVars, counts, logVars
<1>1. ASSUME NEW t \in Threads, CallConfig(t) PROVE FormatsWaiting'
  BY <1>1 DEF CallConfig
<1>2. ASSUME NEW t \in Threads, StopPoll(t) \/ StartPoll(t) PROVE FormatsWaiting'
  BY <1>2 DEF StopPoll, StartPoll
<1>3. ASSUME NEW t \in Threads, FreeHeader(t) PROVE FormatsWaiting'
  BY <1>3 DEF FreeHeader, SetHeader
<1>4. ASSUME NEW t \in Threads, ReorderHeader(t) PROVE FormatsWaiting'
  BY <1>4 DEF ReorderHeader, SetHeader
<1>5. ASSUME NEW t \in Threads, SetPattern(t) PROVE FormatsWaiting'
  BY <1>5 DEF SetPattern
<1>6. ASSUME NEW t \in Threads, SetArgs(t) PROVE FormatsWaiting'
  BY <1>6 DEF SetArgs, SetHeader
<1>7. ASSUME NEW t \in Threads, MakeConfig(t) PROVE FormatsWaiting'
  BY <1>7 DEF MakeConfig
<1>8. ASSUME NEW t \in Threads, FailConfig(t) PROVE FormatsWaiting'
  BY <1>8 DEF FailConfig
<1>9. ASSUME NEW t \in Threads, CallSet(t) PROVE FormatsWaiting'
  BY <1>9 DEF CallSet
<1>10. ASSUME NEW t \in Threads, StorePoolSize(t) PROVE FormatsWaiting'
  BY <1>10 DEF StorePoolSize
<1>11. ASSUME NEW t \in Threads, StoreStackSize(t) PROVE FormatsWaiting'
  BY <1>11 DEF StoreStackSize
<1>12. ASSUME NEW t \in Threads, CallGet(t) PROVE FormatsWaiting'
  BY <1>12 DEF CallGet
<1>13. ASSUME NEW t \in Threads, CallPool(t) PROVE FormatsWaiting'
  BY <1>13 DEF CallPool
<1>14. ASSUME NEW t \in Threads, NEW s \in Size, LoadSize(t, s) PROVE FormatsWaiting'
  BY <1>14 DEF LoadSize
<1>15. ASSUME NEW t \in Threads, MakePool(t) PROVE FormatsWaiting'
  BY <1>15 DEF MakePool
<1>16. ASSUME NEW t \in Threads, FailPool(t) PROVE FormatsWaiting'
  BY <1>16 DEF FailPool
<1>17. ASSUME NEW t \in Threads, ReturnPool(t) PROVE FormatsWaiting'
  BY <1>17 DEF ReturnPool
<1>18. CASE Log
  BY <1>18 DEF Log
<1>19. CASE BeginFormat
  BY <1>19 DEF BeginFormat
<1>20. CASE EndFormat
  BY <1>20 DEF EndFormat
<1>21. CASE UNCHANGED vars
  BY <1>21
<1> HIDE DEF TypeOK, FormatsWaiting, Goes, Leave, history, vars, onceVars,
        poolVars, threadVars, counts, logVars
<1> QED
  BY <1>1, <1>2, <1>3, <1>4, <1>5, <1>6, <1>7, <1>8, <1>9, <1>10, <1>11,
     <1>12, <1>13, <1>14, <1>15, <1>16, <1>17, <1>18, <1>19, <1>20, <1>21
  DEF Next, Step, GetGlobalConfig

LEMMA OrderStep == OrderInv /\ [Next]_vars => OrderInv'
BY TypeStep, OnceStep, PoolStep, HeaderStep, WaitingStep DEF OrderInv

LEMMA OrderCorrect == Spec => []OrderInv
<1>1. Init => OrderInv
  BY OrderInit
<1>2. OrderInv /\ [Next]_vars => OrderInv'
  BY OrderStep
<1> QED
  BY <1>1, <1>2, PTL DEF Spec

\* Every variable keeps its type, whoever calls what and when.
THEOREM TypeCorrect == Spec => []TypeOK
<1>1. OrderInv => TypeOK
  BY DEF OrderInv
<1> QED
  BY <1>1, OrderCorrect, PTL

\* However many threads ask for the pool at once and whatever fails, one pool is
\* made, and who has it got it after it was made.
THEOREM OnePoolCorrect == Spec => []OnePool
<1>1. OrderInv => OnePool
  BY DEF OrderInv, OnePool, PoolMade
<1> QED
  BY <1>1, OrderCorrect, PTL

\* Once one thread has come back from GetGlobalConfig the header is whole and nobody
\* changes it again, whatever is logged before, and whatever failed.
THEOREM HeaderSettledCorrect == Spec => HeaderSettled
<1> DEFINE Settled ==
      configOnce = "done" =>
        /\ header' = header
        /\ formatting = Nothing => formatting' \in {Nothing, Header(header.pattern)}
<1>1. ASSUME OrderInv, [Next]_vars, configOnce = "done" PROVE Settled
  <2>1. header = Header(header.pattern)
    BY <1>1 DEF OrderInv, HeaderSet
  <2>2. \A t \in Threads : pc[t] \notin ConfigSteps
    BY <1>1, ThreadsAssumption DEF OrderInv, OnceInv
  <2>3. header' = header
    BY <1>1, <2>2
    DEF Next, Step, GetGlobalConfig, ConfigSteps, Goes, Leave, vars, logVars,
        CallConfig, StopPoll, StartPoll, FreeHeader, ReorderHeader, SetPattern, SetArgs,
        SetHeader, MakeConfig, FailConfig, CallSet, StorePoolSize, StoreStackSize,
        CallGet, CallPool, LoadSize, MakePool, FailPool, ReturnPool,
        Log, BeginFormat, EndFormat
  <2>4. formatting' \in {formatting, header, Nothing}
    BY <1>1
    DEF Next, Step, GetGlobalConfig, vars, logVars,
        CallConfig, StopPoll, StartPoll, FreeHeader, ReorderHeader, SetPattern, SetArgs,
        SetHeader, MakeConfig, FailConfig, CallSet, StorePoolSize, StoreStackSize,
        CallGet, CallPool, LoadSize, MakePool, FailPool, ReturnPool,
        Log, BeginFormat, EndFormat
  <2> QED
    BY <2>1, <2>3, <2>4
<1>2. OrderInv /\ [Next]_vars => [Settled]_vars
  BY <1>1
<1> QED
  BY OrderCorrect, <1>2, PTL DEF Spec, HeaderSettled

-----------------------------------------------------------------------------
(* The sizes, however the calls of SetGlobalConfig overlap *)

\* Calls are numbered as they begin, and old calls have ended.
LEMMA NumbersStep ==
  ASSUME TypeOK, OnceInv, SetNumbers, [Next]_vars
  PROVE  SetNumbers'
<1> USE BoundsAssumption DEF TypeOK, OnceInv, SetNumbers, InSet, ConfigSteps,
        Goes, Leave, history, vars, onceVars,
        poolVars, threadVars, counts, logVars
<1>1. ASSUME NEW t \in Threads, CallConfig(t) PROVE SetNumbers'
  BY <1>1 DEF CallConfig
<1>2. ASSUME NEW t \in Threads, StopPoll(t) \/ StartPoll(t) PROVE SetNumbers'
  <2>1. UNCHANGED <<ret, setting, past, ended, old, sets>>
    BY <1>2 DEF StopPoll, StartPoll
  <2> QED
    BY <2>1
<1>3. ASSUME NEW t \in Threads, FreeHeader(t) PROVE SetNumbers'
  BY <1>3 DEF FreeHeader, SetHeader
<1>4. ASSUME NEW t \in Threads, ReorderHeader(t) PROVE SetNumbers'
  BY <1>4 DEF ReorderHeader, SetHeader
<1>5. ASSUME NEW t \in Threads, SetPattern(t) PROVE SetNumbers'
  BY <1>5 DEF SetPattern
<1>6. ASSUME NEW t \in Threads, SetArgs(t) PROVE SetNumbers'
  BY <1>6 DEF SetArgs, SetHeader
<1>7. ASSUME NEW t \in Threads, MakeConfig(t) PROVE SetNumbers'
  BY <1>7 DEF MakeConfig
<1>8. ASSUME NEW t \in Threads, FailConfig(t) PROVE SetNumbers'
  BY <1>8 DEF FailConfig
<1>9. ASSUME NEW t \in Threads, CallSet(t) PROVE SetNumbers'
  BY <1>9 DEF CallSet
<1>10. ASSUME NEW t \in Threads, StorePoolSize(t) PROVE SetNumbers'
  BY <1>10 DEF StorePoolSize
<1>11. ASSUME NEW t \in Threads, StoreStackSize(t) PROVE SetNumbers'
  BY <1>11 DEF StoreStackSize
<1>12. ASSUME NEW t \in Threads, CallGet(t) PROVE SetNumbers'
  BY <1>12 DEF CallGet
<1>13. ASSUME NEW t \in Threads, CallPool(t) PROVE SetNumbers'
  BY <1>13 DEF CallPool
<1>14. ASSUME NEW t \in Threads, NEW s \in Size, LoadSize(t, s) PROVE SetNumbers'
  BY <1>14 DEF LoadSize
<1>15. ASSUME NEW t \in Threads, MakePool(t) PROVE SetNumbers'
  BY <1>15 DEF MakePool
<1>16. ASSUME NEW t \in Threads, FailPool(t) PROVE SetNumbers'
  BY <1>16 DEF FailPool
<1>17. ASSUME NEW t \in Threads, ReturnPool(t) PROVE SetNumbers'
  BY <1>17 DEF ReturnPool
<1>18. CASE Log \/ BeginFormat \/ EndFormat
  <2>1. UNCHANGED <<ret, setting, past, ended, old, sets>>
    BY <1>18 DEF Log, BeginFormat, EndFormat
  <2> QED
    BY <2>1
<1>19. CASE UNCHANGED vars
  BY <1>19
<1> HIDE DEF TypeOK, OnceInv, SetNumbers, InSet, ConfigSteps,
        Goes, Leave, history, vars, onceVars,
        poolVars, threadVars, counts, logVars
<1> QED
  BY <1>1, <1>2, <1>3, <1>4, <1>5, <1>6, <1>7, <1>8, <1>9, <1>10, <1>11,
     <1>12, <1>13, <1>14, <1>15, <1>16, <1>17, <1>18, <1>19
  DEF Next, Step, GetGlobalConfig

\* A store is of a call that has not ended, so it brings no old size back.
LEMMA KeptStep ==
  ASSUME TypeOK, OnceInv, SetNumbers, SizesKept, [Next]_vars
  PROVE  SizesKept'
<1> USE BoundsAssumption DEF TypeOK, OnceInv, SetNumbers, SizesKept, InSet, ConfigSteps,
        Size, Goes, Leave, history, vars, onceVars,
        poolVars, threadVars, counts, logVars
<1>1. ASSUME NEW t \in Threads, CallConfig(t) PROVE SizesKept'
  BY <1>1 DEF CallConfig
<1>2. ASSUME NEW t \in Threads, StopPoll(t) \/ StartPoll(t) PROVE SizesKept'
  BY <1>2 DEF StopPoll, StartPoll
<1>3. ASSUME NEW t \in Threads, FreeHeader(t) PROVE SizesKept'
  BY <1>3 DEF FreeHeader, SetHeader
<1>4. ASSUME NEW t \in Threads, ReorderHeader(t) PROVE SizesKept'
  BY <1>4 DEF ReorderHeader, SetHeader
<1>5. ASSUME NEW t \in Threads, SetPattern(t) PROVE SizesKept'
  BY <1>5 DEF SetPattern
<1>6. ASSUME NEW t \in Threads, SetArgs(t) PROVE SizesKept'
  BY <1>6 DEF SetArgs, SetHeader
<1>7. ASSUME NEW t \in Threads, MakeConfig(t) PROVE SizesKept'
  BY <1>7 DEF MakeConfig
<1>8. ASSUME NEW t \in Threads, FailConfig(t) PROVE SizesKept'
  BY <1>8 DEF FailConfig
<1>9. ASSUME NEW t \in Threads, CallSet(t) PROVE SizesKept'
  BY <1>9 DEF CallSet
<1>10. ASSUME NEW t \in Threads, StorePoolSize(t) PROVE SizesKept'
  BY <1>10 DEF StorePoolSize
<1>11. ASSUME NEW t \in Threads, StoreStackSize(t) PROVE SizesKept'
  BY <1>11 DEF StoreStackSize
<1>12. ASSUME NEW t \in Threads, CallGet(t) PROVE SizesKept'
  BY <1>12 DEF CallGet
<1>13. ASSUME NEW t \in Threads, CallPool(t) PROVE SizesKept'
  BY <1>13 DEF CallPool
<1>14. ASSUME NEW t \in Threads, NEW s \in Size, LoadSize(t, s) PROVE SizesKept'
  BY <1>14 DEF LoadSize
<1>15. ASSUME NEW t \in Threads, MakePool(t) PROVE SizesKept'
  BY <1>15 DEF MakePool
<1>16. ASSUME NEW t \in Threads, FailPool(t) PROVE SizesKept'
  BY <1>16 DEF FailPool
<1>17. ASSUME NEW t \in Threads, ReturnPool(t) PROVE SizesKept'
  BY <1>17 DEF ReturnPool
<1>18. CASE Log \/ BeginFormat \/ EndFormat
  BY <1>18 DEF Log, BeginFormat, EndFormat
<1>19. CASE UNCHANGED vars
  BY <1>19
<1> HIDE DEF TypeOK, OnceInv, SetNumbers, SizesKept, InSet, ConfigSteps,
        Size, Goes, Leave, history, vars, onceVars,
        poolVars, threadVars, counts, logVars
<1> QED
  BY <1>1, <1>2, <1>3, <1>4, <1>5, <1>6, <1>7, <1>8, <1>9, <1>10, <1>11,
     <1>12, <1>13, <1>14, <1>15, <1>16, <1>17, <1>18, <1>19
  DEF Next, Step, GetGlobalConfig

\* What is old when the making begins is old when a size is loaded.
LEMMA LoadStep ==
  ASSUME TypeOK, OnceInv, SetNumbers, SizesKept, SizesLoaded, [Next]_vars
  PROVE  SizesLoaded'
<1> USE ThreadsAssumption DEF TypeOK, OnceInv, SetNumbers, SizesKept, SizesLoaded,
        MakesPool, InSet, ConfigSteps, Goes, Leave, history, vars, onceVars,
        poolVars, threadVars, counts, logVars
<1>1. ASSUME NEW t \in Threads, CallConfig(t) PROVE SizesLoaded'
  BY <1>1 DEF CallConfig
<1>2. ASSUME NEW t \in Threads, StopPoll(t) \/ StartPoll(t) PROVE SizesLoaded'
  BY <1>2 DEF StopPoll, StartPoll
<1>3. ASSUME NEW t \in Threads, FreeHeader(t) PROVE SizesLoaded'
  BY <1>3 DEF FreeHeader, SetHeader
<1>4. ASSUME NEW t \in Threads, ReorderHeader(t) PROVE SizesLoaded'
  BY <1>4 DEF ReorderHeader, SetHeader
<1>5. ASSUME NEW t \in Threads, SetPattern(t) PROVE SizesLoaded'
  BY <1>5 DEF SetPattern
<1>6. ASSUME NEW t \in Threads, SetArgs(t) PROVE SizesLoaded'
  BY <1>6 DEF SetArgs, SetHeader
<1>7. ASSUME NEW t \in Threads, MakeConfig(t) PROVE SizesLoaded'
  BY <1>7 DEF MakeConfig
<1>8. ASSUME NEW t \in Threads, FailConfig(t) PROVE SizesLoaded'
  BY <1>8 DEF FailConfig
<1>9. ASSUME NEW t \in Threads, CallSet(t) PROVE SizesLoaded'
  BY <1>9 DEF CallSet
<1>10. ASSUME NEW t \in Threads, StorePoolSize(t) PROVE SizesLoaded'
  BY <1>10 DEF StorePoolSize
<1>11. ASSUME NEW t \in Threads, StoreStackSize(t) PROVE SizesLoaded'
  BY <1>11 DEF StoreStackSize
<1>12. ASSUME NEW t \in Threads, CallGet(t) PROVE SizesLoaded'
  BY <1>12 DEF CallGet
<1>13. ASSUME NEW t \in Threads, CallPool(t) PROVE SizesLoaded'
  BY <1>13 DEF CallPool
<1>14. ASSUME NEW t \in Threads, NEW s \in Size, LoadSize(t, s) PROVE SizesLoaded'
  BY <1>14 DEF LoadSize
<1>15. ASSUME NEW t \in Threads, MakePool(t) PROVE SizesLoaded'
  BY <1>15 DEF MakePool
<1>16. ASSUME NEW t \in Threads, FailPool(t) PROVE SizesLoaded'
  BY <1>16 DEF FailPool
<1>17. ASSUME NEW t \in Threads, ReturnPool(t) PROVE SizesLoaded'
  BY <1>17 DEF ReturnPool
<1>18. CASE Log \/ BeginFormat \/ EndFormat
  BY <1>18 DEF Log, BeginFormat, EndFormat
<1>19. CASE UNCHANGED vars
  BY <1>19
<1> HIDE DEF TypeOK, OnceInv, SetNumbers, SizesKept, SizesLoaded,
        MakesPool, InSet, ConfigSteps, Goes, Leave, history, vars, onceVars,
        poolVars, threadVars, counts, logVars
<1> QED
  BY <1>1, <1>2, <1>3, <1>4, <1>5, <1>6, <1>7, <1>8, <1>9, <1>10, <1>11,
     <1>12, <1>13, <1>14, <1>15, <1>16, <1>17, <1>18, <1>19
  DEF Next, Step, GetGlobalConfig

\* The pool is made of what has been loaded.
LEMMA UpToDateStep ==
  ASSUME TypeOK, SizesLoaded, PoolUpToDate, [Next]_vars
  PROVE  PoolUpToDate'
<1>1. ASSUME NEW t \in Threads, MakePool(t) PROVE PoolUpToDate'
  BY <1>1 DEF MakePool, Loaded, Goes, SizesLoaded, MakesPool, PoolUpToDate
<1>2. CASE pool' = pool
  BY <1>2 DEF PoolUpToDate
<1>3. pool' = pool \/ \E t \in Threads : MakePool(t)
  BY DEF Next, Step, GetGlobalConfig, vars, poolVars,
        CallConfig, StopPoll, StartPoll, FreeHeader, ReorderHeader, SetPattern, SetArgs,
        SetHeader, MakeConfig, FailConfig, CallSet, StorePoolSize, StoreStackSize,
        CallGet, CallPool, LoadSize, FailPool, ReturnPool,
        Log, BeginFormat, EndFormat
<1> QED
  BY <1>1, <1>2, <1>3

\* However calls of SetGlobalConfig overlap one another and the making of the pool,
\* each size of the pool is the latest, or of a call that overlaps the latest.
THEOREM PoolUpToDateCorrect == Spec => []PoolUpToDate
<1>1. Init => IInv
  BY OrderInit, BoundsAssumption
  DEF Init, IInv, SizesInv, SetNumbers, SizesKept, SizesLoaded, PoolUpToDate, InSet,
      MakesPool, ConfigSteps
<1>2. IInv /\ [Next]_vars => IInv'
  BY OrderStep, NumbersStep, KeptStep, LoadStep, UpToDateStep DEF IInv, SizesInv, OrderInv
<1>3. IInv => PoolUpToDate
  BY DEF IInv, SizesInv
<1> QED
  BY <1>1, <1>2, <1>3, PTL DEF Spec
=============================================================================
