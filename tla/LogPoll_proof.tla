----------------------------- MODULE LogPoll_proof -----------------------------
(***************************************************************************)
(* Theorems about LogPoll, for any threads, log statements, and bounds,    *)
(* with and without FMTLOG_BLOCK and Linger.  The ids of log statements    *)
(* are the places of their entries (IdsInv); from the root of adjustHeap   *)
(* on the nodes are a heap, but for the one that goes down (HeapInv), so   *)
(* the first has the earliest message; and every time stamp belongs to one *)
(* message, which is being logged, in the queue of its thread, or handled, *)
(* or it was discarded and is nowhere (TakenInv).  There is a lemma per    *)
(* action, and one per part of the invariant it disturbs.                  *)
(***************************************************************************)
EXTENDS LogPoll, WellFoundedInduction, TLAPS

-----------------------------------------------------------------------------
(* Sequences *)

LEMMA AppendFacts ==
  ASSUME NEW S, NEW s \in Seq(S), NEW x \in S
  PROVE  /\ Append(s, x) \in Seq(S) /\ Len(Append(s, x)) = Len(s) + 1
         /\ \A i \in 1 .. Len(s) : Append(s, x)[i] = s[i]
         /\ Append(s, x)[Len(s) + 1] = x
OBVIOUS

LEMMA ConcatFacts ==
  ASSUME NEW S, NEW s \in Seq(S), NEW u \in Seq(S)
  PROVE  /\ s \o u \in Seq(S) /\ Len(s \o u) = Len(s) + Len(u)
         /\ \A i \in 1 .. Len(s) : (s \o u)[i] = s[i]
         /\ \A i \in 1 .. Len(u) : (s \o u)[Len(s) + i] = u[i]
OBVIOUS

LEMMA UpdateFacts ==
  ASSUME NEW S, NEW s \in Seq(S), NEW i \in 1 .. Len(s), NEW x \in S
  PROVE  /\ [s EXCEPT ![i] = x] \in Seq(S) /\ Len([s EXCEPT ![i] = x]) = Len(s)
         /\ \A j \in 1 .. Len(s) : [s EXCEPT ![i] = x][j] = IF j = i THEN x ELSE s[j]
OBVIOUS

LEMMA MapFacts ==
  ASSUME NEW S, NEW n \in Nat, NEW f \in [1 .. n -> S]
  PROVE  f \in Seq(S) /\ Len(f) = n
OBVIOUS

LEMMA TailFacts ==
  ASSUME NEW S, NEW s \in Seq(S), s # << >>
  PROVE  /\ Head(s) \in S /\ Head(s) = s[1]
         /\ Tail(s) \in Seq(S) /\ Len(s) \in Nat \ {0} /\ Len(Tail(s)) = Len(s) - 1
         /\ \A i \in 1 .. Len(Tail(s)) : Tail(s)[i] = s[i + 1]
OBVIOUS

LEMMA ConcatAssociates ==
  ASSUME NEW S, NEW s \in Seq(S), NEW u \in Seq(S), NEW v \in Seq(S)
  PROVE  (s \o u) \o v = s \o (u \o v)
OBVIOUS

LEMMA ConcatEmpty ==
  ASSUME NEW S, NEW s \in Seq(S)
  PROVE  s \o << >> = s /\ << >> \o s = s
OBVIOUS

LEMMA ConcatAppend ==
  ASSUME NEW S, NEW s \in Seq(S), NEW u \in Seq(S), NEW x \in S
  PROVE  s \o Append(u, x) = Append(s \o u, x)
OBVIOUS

LEMMA EmptyIsLenZero ==
  ASSUME NEW S, NEW s \in Seq(S)
  PROVE  s = << >> <=> Len(s) = 0
OBVIOUS

LEMMA ElementFacts ==
  ASSUME NEW S, NEW s \in Seq(S)
  PROVE  Len(s) \in Nat /\ DOMAIN s = 1 .. Len(s) /\ \A i \in 1 .. Len(s) : s[i] \in S
OBVIOUS

\* DeleteEnded: the last element takes the place of element i.
LEMMA FrontFacts ==
  ASSUME NEW S, NEW s \in Seq(S), NEW i \in 1 .. Len(s)
  PROVE  LET u == Front([s EXCEPT ![i] = Last(s)])
         IN  /\ u \in Seq(S) /\ Len(u) = Len(s) - 1
             /\ \A j \in 1 .. Len(u) : u[j] = IF j = i THEN s[Len(s)] ELSE s[j]
<1> DEFINE v == [s EXCEPT ![i] = s[Len(s)]]
<1>1. v \in Seq(S) /\ Len(v) = Len(s) /\ \A j \in 1 .. Len(s) : v[j] = IF j = i THEN s[Len(s)] ELSE s[j]
  OBVIOUS
<1> HIDE DEF v
<1> DEFINE w == SubSeq(v, 1, Len(v) - 1)
<1>2. w \in Seq(S) /\ Len(w) = Len(v) - 1 /\ \A j \in 1 .. Len(v) - 1 : w[j] = v[j]
  BY <1>1
<1>3. Front([s EXCEPT ![i] = Last(s)]) = w
  BY DEF Front, Last, v
<1> HIDE DEF w
<1>4. Len(w) = Len(s) - 1 /\ \A j \in 1 .. Len(w) : w[j] = v[j] /\ j \in 1 .. Len(s)
  BY <1>1, <1>2
<1> QED
  BY <1>1, <1>2, <1>3, <1>4

LEMMA SwapFacts ==
  ASSUME NEW S, NEW s \in Seq(S), NEW i \in 1 .. Len(s), NEW j \in 1 .. Len(s)
  PROVE  /\ Swap(s, i, j) \in Seq(S) /\ Len(Swap(s, i, j)) = Len(s)
         /\ \A k \in 1 .. Len(s) :
              Swap(s, i, j)[k] = IF k = j THEN s[i] ELSE IF k = i THEN s[j] ELSE s[k]
BY DEF Swap

-----------------------------------------------------------------------------
(* Types *)

LEMMA InitType == Init => TypeOK
<1> SUFFICES ASSUME Init PROVE TypeOK
  OBVIOUS
<1> USE ParametersAssumption
<1>1. /\ clock \in 0 .. MaxMsgs /\ logId \in [Sites -> Nat]
      /\ logInfos \in Seq(Sites) /\ bgLogInfos \in Seq(Sites \cup {Once})
      /\ infoLock \in Threads \cup {None}
  BY DEF Init
<1>2. /\ pc \in [Threads -> {"idle", "register", "emplace", "push", "ended"}]
      /\ msg \in [Threads -> Message \cup {None}]
      /\ \A t \in Threads : pc[t] \in {"idle", "ended"} \/ msg[t] # None
      /\ discarded \in SUBSET (1 .. MaxMsgs)
      /\ varq \in [Threads -> Seq(Message)]
      /\ life \in [Threads -> {"none", "live", "ended", "deleted"}]
  BY DEF Init
<1>3. /\ threadBuffers \in Seq(Threads) /\ bgThreadBuffers \in Seq(Node)
      /\ membuf \in Seq(Message) /\ file \in Seq(Message)
  BY DEF Init
<1>4. /\ threadRunning \in BOOLEAN
      /\ main \in {"run", "restart", "exit", "destroy", "closed"}
      /\ poller \in {"top", "infos", "buffers", "front", "ended", "adjust", "handle", "next", "polled"}
      /\ forceFlush \in BOOLEAN /\ flushSet \in BOOLEAN
  BY DEF Init
<1>5. /\ starts \in 1 .. MaxStarts /\ main # "restart"
      /\ pollTsc \in 0 .. MaxMsgs + 1 /\ node \in Nat /\ root \in Nat /\ pollAt \in Nat
  BY DEF Init
<1> QED
  BY <1>1, <1>2, <1>3, <1>4, <1>5 DEF TypeOK

LEMMA HandledType == ASSUME TypeOK PROVE Handled \in Seq(Message)
BY ConcatFacts DEF TypeOK, Handled

\* Writing what is buffered changes nothing of what has been handled.
LEMMA FlushHandled == ASSUME TypeOK, Flush PROVE Handled' = Handled
<1>1. Handled \in Seq(Message)
  BY HandledType
<1>2. Handled' = Handled \o << >>
  BY DEF Flush, Handled
<1> QED
  BY <1>1, <1>2, ConcatEmpty

LEMMA CandidateType ==
  ASSUME TypeOK, bgThreadBuffers # << >>, Candidate # None
  PROVE  /\ Candidate \in Message /\ Candidate = bgThreadBuffers[1].header
         /\ bgThreadBuffers[1].tb \in Threads
         /\ Known(Candidate.logId) /\ Candidate.tsc < pollTsc
<1>1. bgThreadBuffers[1] \in Node
  BY DEF TypeOK
<1>2. bgThreadBuffers[1].header \in Message \cup {None} /\ bgThreadBuffers[1].tb \in Threads
  BY <1>1 DEF Node
<1>3. Candidate = bgThreadBuffers[1].header /\ Known(Candidate.logId) /\ ~(Candidate.tsc >= pollTsc)
  BY DEF Candidate
<1>4. Candidate.tsc \in Int /\ pollTsc \in Int
  BY <1>2, <1>3, ParametersAssumption DEF TypeOK, Message
<1> QED
  BY <1>2, <1>3, <1>4

\* handleLog adds the message to what has been handled.
LEMMA HandleHandled ==
  ASSUME TypeOK, PollerInv, Handle
  PROVE  /\ Handled' = Append(Handled, Candidate) /\ Candidate \in Message
         /\ membuf' \in Seq(Message) /\ file' \in Seq(Message)
<1>1. Candidate \in Message
  BY CandidateType DEF Handle, PollGoes, PollerInv
<1>2. Handled \in Seq(Message) /\ membuf \in Seq(Message) /\ file \in Seq(Message)
  BY HandledType DEF TypeOK
<1> HIDE DEF Candidate
<1>3. CASE file' = Append(Handled, Candidate) /\ membuf' = << >>
  <2>1. Append(Handled, Candidate) \in Seq(Message)
    BY <1>1, <1>2, AppendFacts
  <2>2. Handled' = Append(Handled, Candidate) \o << >>
    BY <1>3 DEF Handled
  <2> QED
    BY <1>1, <1>3, <2>1, <2>2, ConcatEmpty
<1>4. CASE membuf' = Append(membuf, Candidate) /\ file' = file
  <2>1. Handled' = file \o Append(membuf, Candidate)
    BY <1>4 DEF Handled
  <2>2. membuf' \in Seq(Message)
    BY <1>1, <1>2, <1>4, AppendFacts
  <2> QED
    BY <1>1, <1>2, <1>4, <2>1, <2>2, ConcatAppend DEF Handled
<1> QED
  BY <1>3, <1>4 DEF Handle

LEMMA FrontOfType ==
  ASSUME TypeOK, NEW t \in Threads
  PROVE  FrontOf(t) \in Message \cup {None}
<1>1. varq[t] \in Seq(Message)
  BY DEF TypeOK
<1> QED
  BY <1>1, TailFacts DEF FrontOf

LEMMA ThreadType ==
  ASSUME TypeOK, MessageIdsInv, NEW t \in Threads, Thread(t)
  PROVE  TypeOK'
<1> USE ParametersAssumption, NamesAssumption
<1> USE DEF infoVars, threadVars, bufVars, mainVars, outVars, pollVars
<1>1. ASSUME NEW site \in Sites \cup {Once}, Log(t, site) PROVE TypeOK'
  <2>1. /\ clock' \in 0 .. MaxMsgs /\ clock + 1 \in 1 .. MaxMsgs
        /\ pc' \in [Threads -> {"idle", "register", "emplace", "push", "ended"}]
    BY <1>1 DEF Log, ThreadGoes, TypeOK
  <2>2. (IF site = Once THEN 0 ELSE logId[site]) \in Nat
    BY DEF TypeOK
  <2> DEFINE m == [from |-> t, site |-> site, tsc |-> clock + 1,
                   logId |-> IF site = Once THEN 0 ELSE logId[site]]
  <2>3. m \in Message /\ msg' = [msg EXCEPT ![t] = m]
    BY <1>1, <2>1, <2>2 DEF Log, Message
  <2> HIDE DEF m
  <2>4. /\ msg' \in [Threads -> Message \cup {None}]
        /\ \A u \in Threads : pc'[u] \in {"idle", "ended"} \/ msg'[u] # None
    <3>1. \A u \in Threads : u # t => pc'[u] = pc[u] /\ msg'[u] = msg[u]
      BY <1>1, <2>3 DEF Log, ThreadGoes, TypeOK
    <3>2. msg'[t] = m /\ m # None /\ msg' \in [Threads -> Message \cup {None}]
      BY <2>3 DEF TypeOK
    <3> QED
      BY <3>1, <3>2 DEF TypeOK
  <2> QED
    BY <1>1, <2>1, <2>4 DEF Log, TypeOK
<1>2. CASE Register(t)
  <2>1. /\ pc' \in [Threads -> {"idle", "register", "emplace", "push", "ended"}]
        /\ infoLock' \in Threads \cup {None}
        /\ \A u \in Threads : pc'[u] \in {"idle", "ended"} => pc[u] \in {"idle", "ended"}
        /\ pc[t] = "register" /\ \A u \in Threads \ {t} : pc'[u] = pc[u]
    BY <1>2 DEF Register, ThreadGoes, TypeOK
  <2>2. Len(logInfos) + Len(bgLogInfos) \in Nat
    BY ElementFacts DEF TypeOK
  <2>3. logId' \in [Sites -> Nat]
    BY <1>2, <2>2 DEF Register, TypeOK
  <2>4. PICK n : n = logId'[msg[t].site]
    OBVIOUS
  <2>5. msg[t] \in Message /\ msg' = [msg EXCEPT ![t].logId = n]
    BY <1>2, <2>1, <2>4 DEF Register, WithId, TypeOK
  <2>6. msg[t].site \in Sites
    BY <2>1 DEF MessageIdsInv
  <2>7. n \in Nat
    BY <2>3, <2>4, <2>6
  <2>8. [msg[t] EXCEPT !.logId = n] \in Message
    BY <2>5, <2>7 DEF Message
  <2>9. /\ msg' \in [Threads -> Message \cup {None}]
        /\ \A u \in Threads : pc'[u] \in {"idle", "ended"} \/ msg'[u] # None
    BY <2>1, <2>5, <2>8 DEF TypeOK
  <2> QED
    BY <1>2, <2>1, <2>3, <2>9 DEF Register, TypeOK
<1>3. CASE EmplaceInfo(t)
  <2>1. pc[t] = "emplace"
    BY <1>3 DEF EmplaceInfo, ThreadGoes
  <2>2. msg[t] \in Message
    BY <2>1 DEF TypeOK
  <2>3. msg[t].site \in Sites
    BY <2>1 DEF MessageIdsInv
  <2>4. logInfos' \in Seq(Sites)
    BY <1>3, <2>3, AppendFacts DEF EmplaceInfo, TypeOK
  <2>5. /\ pc' \in [Threads -> {"idle", "register", "emplace", "push", "ended"}]
        /\ \A u \in Threads : pc'[u] \in {"idle", "ended"} \/ msg[u] # None
    BY <1>3, <2>1, <2>2 DEF EmplaceInfo, ThreadGoes, TypeOK
  <2> QED
    BY <1>3, <2>4, <2>5 DEF EmplaceInfo, TypeOK
<1>4. CASE Preallocate(t)
  BY <1>4 DEF Preallocate, TypeOK
<1>5. CASE Push(t)
  <2>1. pc[t] = "push" /\ pc' = [pc EXCEPT ![t] = "idle"]
    BY <1>5 DEF Push, ThreadGoes
  <2>2. msg[t] \in Message
    BY <2>1 DEF TypeOK
  <2>3. varq' \in [Threads -> Seq(Message)]
    <3>1. varq[t] \in Seq(Message)
      BY DEF TypeOK
    <3>2. Append(varq[t], msg[t]) \in Seq(Message)
      BY <2>2, <3>1, AppendFacts
    <3> QED
      BY <1>5, <3>2 DEF Push, TypeOK
  <2>4. /\ pc' \in [Threads -> {"idle", "register", "emplace", "push", "ended"}]
        /\ msg' \in [Threads -> Message \cup {None}]
        /\ \A u \in Threads : pc'[u] \in {"idle", "ended"} \/ msg'[u] # None
    BY <1>5, <2>1 DEF Push, TypeOK
  <2> QED
    BY <1>5, <2>3, <2>4 DEF Push, TypeOK
<1>6. CASE Discard(t)
  <2>1. pc[t] = "push" /\ pc' = [pc EXCEPT ![t] = "idle"]
    BY <1>6 DEF Discard, ThreadGoes
  <2>2. msg[t] \in Message
    BY <2>1 DEF TypeOK
  <2>3. discarded' \in SUBSET (1 .. MaxMsgs)
    BY <1>6, <2>2 DEF Discard, Message, TypeOK
  <2>4. /\ pc' \in [Threads -> {"idle", "register", "emplace", "push", "ended"}]
        /\ msg' \in [Threads -> Message \cup {None}]
        /\ \A u \in Threads : pc'[u] \in {"idle", "ended"} \/ msg'[u] # None
    BY <1>6, <2>1 DEF Discard, TypeOK
  <2> QED
    BY <1>6, <2>3, <2>4 DEF Discard, TypeOK
<1>7. CASE End(t)
  BY <1>7 DEF End, ThreadGoes, TypeOK
<1> QED
  BY <1>1, <1>2, <1>3, <1>4, <1>5, <1>6, <1>7 DEF Thread

\* A message that is handled is the one in front of its queue.
LEMMA HeaderInFront ==
  ASSUME TypeOK, PollerInv, NodesLive, poller = "handle", Candidate # None
  PROVE  LET t == bgThreadBuffers[1].tb IN varq[t] # << >> /\ Candidate = Head(varq[t])
<1>1. bgThreadBuffers # << >> /\ bgThreadBuffers[1].header = Candidate
  BY CandidateType DEF PollerInv
<1>2. 1 \in DOMAIN bgThreadBuffers
  BY <1>1, ElementFacts DEF TypeOK
<1> QED
  BY <1>1, <1>2 DEF NodesLive

LEMMA PollType ==
  ASSUME TypeOK, PollerInv, NodesLive, Poll
  PROVE  TypeOK'
<1> USE ParametersAssumption, NamesAssumption
<1> USE DEF infoVars, threadVars, bufVars, mainVars, outVars, pollVars, PollGoes
<1>1. CASE ReadClock
  BY <1>1, HandledType DEF ReadClock, TypeOK
<1>2. CASE MoveLogInfos
  BY <1>2 DEF MoveLogInfos, TypeOK
<1>3. CASE MoveThreadBuffers
  <2> DEFINE more == [i \in DOMAIN threadBuffers |-> [tb |-> threadBuffers[i], header |-> None]]
  <2>1. more \in Seq(Node)
    <3>1. \A i \in 1 .. Len(threadBuffers) : [tb |-> threadBuffers[i], header |-> None] \in Node
      BY DEF TypeOK, Node
    <3>2. Len(threadBuffers) \in Nat /\ DOMAIN threadBuffers = 1 .. Len(threadBuffers)
      BY ElementFacts DEF TypeOK
    <3>3. more \in [1 .. Len(threadBuffers) -> Node]
      BY <3>1, <3>2
    <3> QED
      BY <3>2, <3>3, MapFacts
  <2> HIDE DEF more
  <2>2. bgThreadBuffers \o more \in Seq(Node)
    BY <2>1, ConcatFacts DEF TypeOK
  <2> QED
    BY <1>3, <2>2 DEF MoveThreadBuffers, TypeOK, more
<1>4. CASE ReadFront
  <2>1. node \in Nat \ {0} /\ node \in 1 .. Len(bgThreadBuffers)
    BY <1>4 DEF ReadFront, TypeOK, PollerInv
  <2>2. bgThreadBuffers[node] \in Node
    BY <2>1 DEF TypeOK
  <2>3. FrontOf(bgThreadBuffers[node].tb) \in Message \cup {None}
    BY <2>2, FrontOfType DEF Node
  <2>4. PICK h : h = FrontOf(bgThreadBuffers[node].tb)
    OBVIOUS
  <2>5. [bgThreadBuffers[node] EXCEPT !.header = h] \in Node
    BY <2>2, <2>3, <2>4 DEF Node
  <2>6. \/ bgThreadBuffers' = bgThreadBuffers
        \/ bgThreadBuffers' = [bgThreadBuffers EXCEPT ![node].header = h]
    BY <1>4, <2>4 DEF ReadFront
  <2>7. bgThreadBuffers' \in Seq(Node)
    <3>1. bgThreadBuffers \in Seq(Node)
      BY DEF TypeOK
    <3>2. PICK x : x = [bgThreadBuffers[node] EXCEPT !.header = h]
      OBVIOUS
    <3>3. [bgThreadBuffers EXCEPT ![node] = x] \in Seq(Node)
      BY <2>1, <2>5, <3>1, <3>2, UpdateFacts
    <3> QED
      BY <2>6, <3>1, <3>2, <3>3
  <2>8. poller' \in {"front", "ended"} /\ node' \in Nat
    BY <1>4, <2>1 DEF ReadFront
  <2> QED
    BY <1>4, <2>7, <2>8 DEF ReadFront, TypeOK
<1>5. CASE DeleteEnded
  <2>1. node \in 1 .. Len(bgThreadBuffers)
    BY <1>5 DEF DeleteEnded, TypeOK, PollerInv
  <2>2. bgThreadBuffers' \in Seq(Node)
    <3>1. bgThreadBuffers \in Seq(Node)
      BY DEF TypeOK
    <3>2. Front([bgThreadBuffers EXCEPT ![node] = Last(bgThreadBuffers)]) \in Seq(Node)
      BY <2>1, <3>1, FrontFacts
    <3>3. \/ bgThreadBuffers' = bgThreadBuffers
          \/ bgThreadBuffers' = Front([bgThreadBuffers EXCEPT ![node] = Last(bgThreadBuffers)])
      BY <1>5 DEF DeleteEnded
    <3> QED
      BY <3>1, <3>2, <3>3
  <2>3. life' \in [Threads -> {"none", "live", "ended", "deleted"}] /\ node' \in Nat
    <3>1. PICK tb : tb = bgThreadBuffers[node].tb
      OBVIOUS
    <3>2. \/ life' = life \/ life' = [life EXCEPT ![tb] = "deleted"]
      BY <1>5, <3>1 DEF DeleteEnded
    <3>3. node' = node \/ node' = node + 1
      BY <1>5 DEF DeleteEnded
    <3>4. life' \in [Threads -> {"none", "live", "ended", "deleted"}]
      BY <3>2 DEF TypeOK
    <3> QED
      BY <2>1, <3>3, <3>4
  <2> QED
    BY <1>5, <2>2, <2>3 DEF DeleteEnded, TypeOK
<1>6. CASE MakeHeap
  BY <1>6 DEF MakeHeap, TypeOK
<1>7. CASE AdjustHeap
  <2>1. /\ node \in 1 .. Len(bgThreadBuffers) /\ root \in Nat \ {0}
        /\ Len(bgThreadBuffers) \in Nat
    BY <1>7 DEF AdjustHeap, TypeOK, PollerInv
  <2>2. Least(bgThreadBuffers, node) \in 1 .. Len(bgThreadBuffers)
    BY <2>1 DEF Least
  <2>3. PICK min : min = Least(bgThreadBuffers, node)
    OBVIOUS
  <2>4. bgThreadBuffers' \in Seq(Node) /\ node' \in Nat /\ root' \in Nat
    <3>1. CASE min # node
      BY <1>7, <2>1, <2>2, <2>3, <3>1, SwapFacts DEF AdjustHeap, TypeOK
    <3>2. CASE min = node
      BY <1>7, <2>1, <2>2, <2>3, <3>2 DEF AdjustHeap, TypeOK
    <3> QED
      BY <3>1, <3>2
  <2>5. poller' \in {"adjust", "handle"}
    BY <1>7 DEF AdjustHeap
  <2> QED
    BY <1>7, <2>4, <2>5 DEF AdjustHeap, TypeOK
<1>8. CASE Handle
  <2>1. bgThreadBuffers[1].tb \in Threads /\ varq' = [varq EXCEPT ![bgThreadBuffers[1].tb] = Tail(@)]
    <3>1. bgThreadBuffers[1] \in Node
      BY <1>8, ElementFacts DEF Handle, PollerInv, TypeOK
    <3> QED
      BY <1>8, <3>1 DEF Handle, Node
  <2>2. varq' \in [Threads -> Seq(Message)]
    <3>1. varq[bgThreadBuffers[1].tb] # << >> /\ varq[bgThreadBuffers[1].tb] \in Seq(Message)
      BY <1>8, <2>1, HeaderInFront DEF Handle, TypeOK
    <3>2. Tail(varq[bgThreadBuffers[1].tb]) \in Seq(Message)
      BY <3>1, TailFacts
    <3> QED
      BY <2>1, <3>2 DEF TypeOK
  <2>3. membuf' \in Seq(Message) /\ file' \in Seq(Message) /\ flushSet' \in BOOLEAN
    BY <1>8, HandleHandled DEF Handle, TypeOK
  <2> QED
    BY <1>8, <2>2, <2>3 DEF Handle, TypeOK
<1>9. CASE NextHeader
  <2>1. bgThreadBuffers[1] \in Node /\ 1 \in DOMAIN bgThreadBuffers
    <3>1. bgThreadBuffers \in Seq(Node) /\ bgThreadBuffers # << >>
      BY <1>9 DEF NextHeader, PollGoes, PollerInv, TypeOK
    <3> QED
      BY <3>1, ElementFacts
  <2>2. PICK h : h = FrontOf(bgThreadBuffers[1].tb)
    OBVIOUS
  <2>3. [bgThreadBuffers[1] EXCEPT !.header = h] \in Node
    BY <2>1, <2>2, FrontOfType DEF Node
  <2>4. bgThreadBuffers' = [bgThreadBuffers EXCEPT ![1].header = h]
    BY <1>9, <2>2 DEF NextHeader
  <2>5. bgThreadBuffers' \in Seq(Node)
    <3>1. bgThreadBuffers \in Seq(Node) /\ 1 \in 1 .. Len(bgThreadBuffers)
      BY <2>1, ElementFacts DEF TypeOK
    <3>2. PICK x : x = [bgThreadBuffers[1] EXCEPT !.header = h]
      OBVIOUS
    <3> QED
      BY <2>3, <2>4, <3>1, <3>2, UpdateFacts
  <2> QED
    BY <1>9, <2>5 DEF NextHeader, TypeOK
<1>10. CASE EndPoll
  <2>1. membuf' \in Seq(Message) /\ file' \in Seq(Message) /\ flushSet' \in BOOLEAN
    <3>1. Handled \in Seq(Message)
      BY HandledType
    <3>2. \/ file' = file /\ membuf' = membuf /\ flushSet' \in {flushSet, TRUE}
          \/ file' = Handled /\ membuf' = << >> /\ flushSet' = FALSE
      BY <1>10 DEF EndPoll, Flush
    <3>3. /\ << >> \in Seq(Message) /\ membuf \in Seq(Message) /\ file \in Seq(Message)
          /\ flushSet \in BOOLEAN
      BY DEF TypeOK
    <3> QED
      BY <3>1, <3>2, <3>3
  <2> QED
    BY <1>10, <2>1 DEF EndPoll, TypeOK
<1> QED
  BY <1>1, <1>2, <1>3, <1>4, <1>5, <1>6, <1>7, <1>8, <1>9, <1>10 DEF Poll

LEMMA MainType ==
  ASSUME TypeOK, PollAgain \/ Main
  PROVE  TypeOK'
<1> USE ParametersAssumption, NamesAssumption
<1> USE DEF infoVars, threadVars, bufVars, mainVars, outVars, pollVars, PollGoes
<1>1. CASE PollAgain
  BY <1>1 DEF PollAgain, TypeOK
<1>2. CASE Stop
  BY <1>2 DEF Stop, TypeOK
<1>3. CASE Restart
  <2>1. starts' \in 1 .. MaxStarts
    BY <1>3 DEF Restart, TypeOK
  <2> QED
    BY <1>3, <2>1 DEF Restart, TypeOK
<1>4. CASE Destroy
  BY <1>4 DEF Destroy, TypeOK
<1>5. CASE Close
  <2>1. membuf' \in Seq(Message) /\ file' \in Seq(Message) /\ flushSet' \in BOOLEAN
    <3>1. Handled \in Seq(Message)
      BY HandledType
    <3>2. \/ file' = file /\ membuf' = membuf /\ flushSet' \in {flushSet, TRUE}
          \/ file' = Handled /\ membuf' = << >> /\ flushSet' = FALSE
      BY <1>5 DEF Close, Flush
    <3>3. /\ << >> \in Seq(Message) /\ membuf \in Seq(Message) /\ file \in Seq(Message)
          /\ flushSet \in BOOLEAN
      BY DEF TypeOK
    <3> QED
      BY <3>1, <3>2, <3>3
  <2> QED
    BY <1>5, <2>1 DEF Close, TypeOK
<1> QED
  BY <1>1, <1>2, <1>3, <1>4, <1>5 DEF Main

-----------------------------------------------------------------------------
(* Log statements and their ids *)

LEMMA EntriesType ==
  ASSUME TypeOK
  PROVE  /\ Entries \in Seq(Sites \cup {Once})
         /\ Len(Entries) = Len(bgLogInfos) + Len(logInfos) /\ Len(Entries) \in Nat
         /\ Len(bgLogInfos) \in Nat /\ Len(logInfos) \in Nat
         /\ \A k \in 1 .. Len(bgLogInfos) : Entries[k] = bgLogInfos[k]
<1>1. bgLogInfos \in Seq(Sites \cup {Once}) /\ logInfos \in Seq(Sites \cup {Once})
  BY DEF TypeOK
<1> QED
  BY <1>1, ConcatFacts, ElementFacts DEF Entries

LEMMA InitIds == Init => IdsInv /\ MessageIdsInv /\ SiteOfId
<1> SUFFICES ASSUME Init PROVE IdsInv /\ MessageIdsInv /\ SiteOfId
  OBVIOUS
<1>1. Entries = <<Once>> /\ Handled = << >>
  BY DEF Init, Entries, Handled
<1>2. IdsInv
  BY <1>1, NamesAssumption DEF Init, IdsInv
<1>3. MessageIdsInv /\ SiteOfId
  BY <1>1 DEF Init, MessageIdsInv, SiteOfId
<1> QED
  BY <1>2, <1>3

\* A step that registers nothing, whichever vector the entries are in.
LEMMA IdsKept ==
  ASSUME IdsInv, Entries' = Entries, bgLogInfos' # << >>, bgLogInfos'[1] = Once,
         UNCHANGED <<logId, infoLock>>,
         \A t \in Threads : pc'[t] = "emplace" <=> pc[t] = "emplace",
         infoLock # None => msg'[infoLock].site = msg[infoLock].site
  PROVE  IdsInv'
BY DEF IdsInv

LEMMA RegisterIds ==
  ASSUME TypeOK, IdsInv, MessageIdsInv, NEW t \in Threads, Register(t)
  PROVE  /\ IdsInv' /\ HasItsId(msg[t])'
         /\ \A s \in Sites : logId[s] # 0 => logId'[s] = logId[s]
         /\ msg'[t].site = msg[t].site
<1>1. /\ pc[t] = "register" /\ infoLock = None /\ msg[t].site \in Sites
      /\ msg[t] \in Message /\ Entries' = Entries /\ Len(Entries) \in Nat /\ Len(Entries) > 0
      /\ Len(Entries) = Len(logInfos) + Len(bgLogInfos)
  <2>1. Len(bgLogInfos) # 0
    BY EmptyIsLenZero DEF IdsInv, TypeOK
  <2>2. pc[t] = "register" /\ infoLock = None /\ UNCHANGED <<logInfos, bgLogInfos>>
    BY DEF Register
  <2>3. msg[t] \in Message /\ msg[t].site \in Sites
    BY <2>2 DEF MessageIdsInv, TypeOK
  <2>4. Entries' = Entries
    BY <2>2 DEF Entries
  <2> QED
    BY <2>1, <2>2, <2>3, <2>4, EntriesType
<1>2. PICK n : n = logId'[msg[t].site]
  OBVIOUS
<1>3. /\ msg' = [msg EXCEPT ![t].logId = n] /\ t \in DOMAIN msg
      /\ msg[t].site # Once /\ pc \in [Threads -> {"idle", "register", "emplace", "push", "ended"}]
  BY <1>1, <1>2, NamesAssumption DEF Register, WithId, TypeOK
<1>4. msg'[t].site = msg[t].site /\ msg'[t].logId = n
  BY <1>1, <1>3 DEF Message
<1>5. CASE logId[msg[t].site] # 0
  <2>1. logId' = logId /\ infoLock' = infoLock /\ bgLogInfos' = bgLogInfos /\ pc' = [pc EXCEPT ![t] = "push"]
    BY <1>5 DEF Register, ThreadGoes
  <2>2. IdsInv'
    BY <1>1, <1>3, <2>1, IdsKept DEF IdsInv
  <2>3. HasItsId(msg[t])'
    BY <1>2, <1>3, <1>4, <1>5, <2>1 DEF HasItsId
  <2> QED
    BY <1>4, <2>1, <2>2, <2>3
<1>6. CASE logId[msg[t].site] = 0
  <2>1. /\ logId' = [logId EXCEPT ![msg[t].site] = Len(Entries)] /\ infoLock' = t
        /\ bgLogInfos' = bgLogInfos /\ pc' = [pc EXCEPT ![t] = "emplace"]
    BY <1>1, <1>6 DEF Register, ThreadGoes
  <2>2. logId \in [Sites -> Nat] /\ n = Len(Entries) /\ t # None
    BY <1>1, <1>2, <2>1, NamesAssumption DEF TypeOK
  <2>3. \A s \in Sites : logId[s] # 0 => logId'[s] = logId[s]
    BY <1>1, <1>6, <2>1, <2>2
  <2>4. HasItsId(msg[t])'
    <3>0. n # 0 /\ msg[t].site # Once
      BY <1>1, <1>3, <2>2
    <3>1. /\ msg'[t].site # Once /\ msg'[t].logId = logId'[msg'[t].site]
          /\ msg'[t].logId # 0
      BY <1>2, <1>4, <3>0
    <3> QED
      BY <3>1 DEF HasItsId
  <2>5. \A u \in Threads : pc'[u] = "emplace" <=> infoLock' = u
    BY <1>1, <1>3, <2>1, NamesAssumption DEF IdsInv
  <2>6. \A k \in 2 .. Len(Entries) : Entries[k] \in Sites /\ logId'[Entries[k]] = k - 1
    BY <1>1, <2>3 DEF IdsInv
  <2>7. ASSUME NEW s \in Sites, logId'[s] # 0
        PROVE  \/ logId'[s] < Len(Entries) /\ Entries[logId'[s] + 1] = s
               \/ logId'[s] = Len(Entries) /\ msg'[t].site = s
    <3>1. CASE s = msg[t].site
      BY <1>2, <1>4, <2>2, <3>1
    <3>2. CASE s # msg[t].site
      <4>1. logId'[s] = logId[s]
        BY <2>1, <2>2, <3>2
      <4> QED
        BY <1>1, <2>7, <4>1 DEF IdsInv
    <3> QED
      BY <3>1, <3>2
  <2>8. IdsInv'
    BY <1>1, <1>2, <1>4, <2>1, <2>2, <2>5, <2>6, <2>7 DEF IdsInv
  <2> QED
    BY <1>4, <2>3, <2>4, <2>8
<1> QED
  BY <1>5, <1>6

LEMMA EmplaceIds ==
  ASSUME TypeOK, IdsInv, MessageIdsInv, NEW t \in Threads, EmplaceInfo(t)
  PROVE  IdsInv'
<1>1. /\ pc[t] = "emplace" /\ infoLock = t /\ msg[t].site \in Sites /\ infoLock # None
      /\ pc' = [pc EXCEPT ![t] = "push"] /\ infoLock' = None
      /\ logInfos' = Append(logInfos, msg[t].site) /\ UNCHANGED <<logId, bgLogInfos, msg>>
      /\ logId[msg[t].site] = Len(Entries)
  BY NamesAssumption DEF EmplaceInfo, ThreadGoes, IdsInv, MessageIdsInv
<1> DEFINE e == Entries
           x == msg[t].site
<1>2. e \in Seq(Sites \cup {Once}) /\ Len(e) \in Nat /\ x \in Sites /\ logId[x] = Len(e)
  BY <1>1, EntriesType
<1>3. Entries' = Append(e, x)
  <2>1. bgLogInfos \in Seq(Sites \cup {Once}) /\ logInfos \in Seq(Sites \cup {Once})
    BY DEF TypeOK
  <2> QED
    BY <1>1, <2>1, ConcatAppend DEF Entries
<1>4. PICK f : f = Append(e, x)
  OBVIOUS
<1>5. Len(f) = Len(e) + 1 /\ f[Len(e) + 1] = x /\ \A k \in 1 .. Len(e) : f[k] = e[k]
  BY <1>2, <1>4, AppendFacts
<1>6. /\ \A k \in 2 .. Len(e) : e[k] \in Sites /\ logId[e[k]] = k - 1
      /\ \A s \in Sites : logId[s] # 0 =>
           (logId[s] < Len(e) /\ e[logId[s] + 1] = s) \/ (logId[s] = Len(e) /\ x = s)
      /\ logId \in [Sites -> Nat]
  BY <1>1 DEF IdsInv, TypeOK
<1>7. Entries' = f
  BY <1>3, <1>4
<1> HIDE DEF e, x
<1>8. \A k \in 2 .. Len(f) : f[k] \in Sites /\ logId[f[k]] = k - 1
  BY <1>2, <1>5, <1>6
<1>9. \A s \in Sites : logId[s] # 0 => logId[s] < Len(f) /\ f[logId[s] + 1] = s
  BY <1>2, <1>5, <1>6
<1>10. \A u \in Threads : pc'[u] = "emplace" <=> infoLock' = u
  BY <1>1, NamesAssumption DEF IdsInv, TypeOK
<1> QED
  BY <1>1, <1>7, <1>8, <1>9, <1>10 DEF IdsInv

\* The steps of threads that leave the registration alone, and of the poll that
\* moves entries from one vector to the other.
LEMMA IdsStep == ASSUME IInv, [Next]_vars PROVE IdsInv'
<1> USE DEF infoVars, threadVars, bufVars, mainVars, outVars, pollVars
<1>0. TypeOK /\ IdsInv /\ MessageIdsInv
  BY DEF IInv
<1>a. pc \in [Threads -> {"idle", "register", "emplace", "push", "ended"}]
  BY <1>0 DEF TypeOK
<1>b. msg \in [Threads -> Message \cup {None}] /\ infoLock \in Threads \cup {None}
  BY <1>0 DEF TypeOK
<1>c. \A t \in Threads : pc[t] = "emplace" <=> infoLock = t
  BY <1>0 DEF IdsInv
<1>1. CASE UNCHANGED <<logId, infoLock, bgLogInfos, logInfos, pc, msg>>
  BY <1>0, <1>1, IdsKept DEF IdsInv, Entries
<1>2. CASE MoveLogInfos
  <2>1. Entries' = Entries
    <3>1. bgLogInfos \o logInfos \in Seq(Sites \cup {Once})
      BY <1>0, EntriesType DEF Entries
    <3> QED
      BY <1>2, <3>1, ConcatEmpty DEF MoveLogInfos, Entries
  <2>2. bgLogInfos' # << >> /\ bgLogInfos'[1] = Once
    <3>1. Len(bgLogInfos) # 0 /\ Len(bgLogInfos) \in Nat /\ Len(logInfos) \in Nat
      BY <1>0, EmptyIsLenZero, ElementFacts DEF IdsInv, TypeOK
    <3>2. bgLogInfos' = Entries
      BY <1>2 DEF MoveLogInfos, Entries
    <3>3. Len(Entries) # 0 /\ Entries[1] = bgLogInfos[1]
      BY <1>0, <3>1, EntriesType
    <3> QED
      BY <1>0, <3>2, <3>3, EntriesType, EmptyIsLenZero DEF IdsInv
  <2> QED
    BY <1>0, <1>2, <2>1, <2>2, IdsKept DEF MoveLogInfos
<1>3. ASSUME NEW t \in Threads, NEW s, NEW m, pc[t] # "emplace", s # "emplace",
             pc' = [pc EXCEPT ![t] = s], msg' \in {msg, [msg EXCEPT ![t] = m]},
             UNCHANGED <<logId, infoLock, bgLogInfos, logInfos>>
      PROVE  IdsInv'
  <2>1. \A u \in Threads : pc'[u] = "emplace" <=> pc[u] = "emplace"
    BY <1>3, <1>a
  <2>2. infoLock # None => msg'[infoLock].site = msg[infoLock].site
    BY <1>3, <1>b, <1>c
  <2> QED
    BY <1>0, <1>3, <2>1, <2>2, IdsKept DEF IdsInv, Entries
<1>4. ASSUME NEW t \in Threads, Thread(t) PROVE IdsInv'
  <2>1. ASSUME NEW site \in Sites \cup {Once}, Log(t, site) PROVE IdsInv'
    <3>1. PICK s, m : pc[t] = "idle" /\ s \in {"register", "push"} /\ pc' = [pc EXCEPT ![t] = s]
                      /\ msg' = [msg EXCEPT ![t] = m]
      BY <2>1 DEF Log, ThreadGoes
    <3> QED
      BY <2>1, <3>1, <1>3 DEF Log
  <2>2. CASE Register(t) \/ EmplaceInfo(t)
    BY <1>0, <2>2, RegisterIds, EmplaceIds
  <2>3. CASE Preallocate(t)
    BY <2>3, <1>1 DEF Preallocate
  <2>4. CASE Push(t)
    <3>1. PICK s, m : pc[t] = "push" /\ s = "idle" /\ m = None
      BY <2>4 DEF Push, ThreadGoes
    <3> QED
      BY <2>4, <3>1, <1>3 DEF Push, ThreadGoes
  <2>5. CASE End(t)
    <3>1. PICK s, m : pc[t] = "idle" /\ s = "ended" /\ m = None
      BY <2>5 DEF End, ThreadGoes
    <3> QED
      BY <2>5, <3>1, <1>3 DEF End, ThreadGoes
  <2>6. CASE Discard(t)
    <3>1. PICK s, m : pc[t] = "push" /\ s = "idle" /\ m = None
      BY <2>6 DEF Discard, ThreadGoes
    <3> QED
      BY <2>6, <3>1, <1>3 DEF Discard, ThreadGoes
  <2> QED
    BY <1>4, <2>1, <2>2, <2>3, <2>4, <2>5, <2>6 DEF Thread
<1> QED
  <2>1. ASSUME PollAgain \/ Main \/ UNCHANGED vars PROVE IdsInv'
    BY <1>1, <2>1 DEF PollAgain, Main, Stop, Restart, Destroy, Close, vars
  <2>2. ASSUME Poll PROVE IdsInv'
    BY <1>1, <1>2, <2>2 DEF Poll, ReadClock, MoveThreadBuffers, ReadFront, DeleteEnded, MakeHeap,
       AdjustHeap, Handle, NextHeader, EndPoll
  <2> QED
    BY <1>4, <2>1, <2>2 DEF Next


\* What has an id keeps it, and so does each message.
LEMMA ItsIdKept ==
  ASSUME NEW m \in Message, HasItsId(m), \A s \in Sites : logId[s] # 0 => logId'[s] = logId[s]
  PROVE  HasItsId(m)'
BY DEF HasItsId, Message

LEMMA IdsOnlyGrow ==
  ASSUME IInv, [Next]_vars
  PROVE  \A s \in Sites : logId[s] # 0 => logId'[s] = logId[s]
<1> USE DEF infoVars, threadVars, bufVars, mainVars, outVars, pollVars
<1>1. CASE logId' = logId
  BY <1>1
<1>2. ASSUME NEW t \in Threads, Register(t)
      PROVE  \A s \in Sites : logId[s] # 0 => logId'[s] = logId[s]
  BY <1>2, RegisterIds DEF IInv
<1>3. (\E t \in Threads : Register(t)) \/ logId' = logId
  <2>1. ASSUME NEW t \in Threads, Thread(t) PROVE Register(t) \/ logId' = logId
    BY <2>1 DEF Thread, Log, EmplaceInfo, Preallocate, Push, Discard, End
  <2>2. ASSUME PollAgain \/ Main \/ UNCHANGED vars PROVE logId' = logId
    BY <2>2 DEF PollAgain, Main, Stop, Restart, Destroy, Close, vars
  <2>3. ASSUME Poll PROVE logId' = logId
    BY <2>3 DEF Poll, ReadClock, MoveLogInfos, MoveThreadBuffers, ReadFront, DeleteEnded,
       MakeHeap, AdjustHeap, Handle, NextHeader, EndPoll
  <2> QED
    BY <2>1, <2>2, <2>3 DEF Next
<1> QED
  BY <1>1, <1>2, <1>3

LEMMA MessageIdsStep == ASSUME IInv, [Next]_vars PROVE MessageIdsInv'
<1> USE DEF infoVars, threadVars, bufVars, mainVars, outVars, pollVars
<1>0. TypeOK /\ IdsInv /\ MessageIdsInv /\ PollerInv /\ NodesLive
  BY DEF IInv
<1>a. /\ pc \in [Threads -> {"idle", "register", "emplace", "push", "ended"}]
      /\ msg \in [Threads -> Message \cup {None}]
      /\ varq \in [Threads -> Seq(Message)]
      /\ \A t \in Threads : Waiting(t) => msg[t] \in Message
      /\ \A t \in Threads : \A i \in DOMAIN varq[t] : varq[t][i] \in Message
  BY <1>0, ElementFacts DEF TypeOK, Waiting
<1>b. ASSUME NEW m \in Message, HasItsId(m) PROVE HasItsId(m)'
  BY <1>b, ItsIdKept, IdsOnlyGrow
\* ... of a queue and of a message that stay as they are
<1>c. ASSUME NEW t \in Threads, varq'[t] = varq[t]
      PROVE  \A i \in DOMAIN varq'[t] : HasItsId(varq[t][i])'
  BY <1>0, <1>a, <1>b, <1>c DEF MessageIdsInv
<1>d. ASSUME NEW t \in Threads, msg'[t] = msg[t], pc'[t] = pc[t]
      PROVE  /\ pc'[t] \in {"register", "emplace"} => msg'[t].site \in Sites
             /\ pc'[t] \in {"emplace", "push"} => HasItsId(msg[t])'
  <2>1. pc[t] \in {"emplace", "push"} => msg[t] \in Message /\ HasItsId(msg[t])
    BY <1>0, <1>a DEF MessageIdsInv, Waiting
  <2>2. pc[t] \in {"emplace", "push"} => HasItsId(msg[t])'
    <3> SUFFICES ASSUME pc[t] \in {"emplace", "push"} PROVE HasItsId(msg[t])'
      OBVIOUS
    <3>1. PICK m : m = msg[t]
      OBVIOUS
    <3>2. HasItsId(m)'
      BY <2>1, <3>1, <1>b
    <3> QED
      BY <3>1, <3>2, <1>d DEF HasItsId
  <2> QED
    BY <1>0, <1>d, <2>2 DEF MessageIdsInv

<1>1. CASE UNCHANGED <<pc, msg, varq>>
  <2>1. \A t \in Threads : varq'[t] = varq[t] /\ msg'[t] = msg[t] /\ pc'[t] = pc[t]
    BY <1>1
  <2> QED
    BY <2>1, <1>c, <1>d DEF MessageIdsInv
<1>2. ASSUME NEW t \in Threads, Thread(t) PROVE MessageIdsInv'
  <2>1. ASSUME NEW u \in Threads, u # t
        PROVE  varq'[u] = varq[u] /\ msg'[u] = msg[u] /\ pc'[u] = pc[u]
    BY <1>2, <1>a, <2>1 DEF Thread, Log, Register, EmplaceInfo, Preallocate, Push, Discard, End, ThreadGoes, WithId
  <2>2. ASSUME /\ pc'[t] \in {"register", "emplace"} => msg'[t].site \in Sites
               /\ pc'[t] \in {"emplace", "push"} => HasItsId(msg[t])'
               /\ \A i \in DOMAIN varq'[t] : HasItsId(varq[t][i])'
        PROVE  MessageIdsInv'
    <3>1. ASSUME NEW u \in Threads
          PROVE  /\ pc'[u] \in {"register", "emplace"} => msg'[u].site \in Sites
                 /\ pc'[u] \in {"emplace", "push"} => HasItsId(msg[u])'
                 /\ \A i \in DOMAIN varq'[u] : HasItsId(varq[u][i])'
      BY <2>1, <2>2, <1>c, <1>d
    <3> QED
      BY <3>1 DEF MessageIdsInv
  <2>3. ASSUME NEW site \in Sites \cup {Once}, Log(t, site) PROVE MessageIdsInv'
    <3>1. PICK m : m = [from |-> t, site |-> site, tsc |-> clock + 1,
                        logId |-> IF site = Once THEN 0 ELSE logId[site]]
      OBVIOUS
    <3>2. /\ msg'[t] = m /\ varq'[t] = varq[t] /\ logId' = logId
          /\ pc'[t] = IF site # Once /\ logId[site] = 0 THEN "register" ELSE "push"
      BY <2>3, <3>1, <1>a DEF Log, ThreadGoes
    <3>3. m.site = site /\ m.logId = IF site = Once THEN 0 ELSE logId[site]
      BY <3>1
    <3>4. pc'[t] \in {"emplace", "push"} => HasItsId(msg[t])'
      BY <3>2, <3>3 DEF HasItsId
    <3> QED
      BY <3>2, <3>3, <3>4, <1>c, <2>2
  <2>4. CASE Register(t)
    <3>1. pc[t] = "register" /\ varq' = varq
      BY <2>4 DEF Register
    <3>2. HasItsId(msg[t])' /\ msg'[t].site \in Sites
      BY <1>0, <2>4, <3>1, RegisterIds DEF MessageIdsInv
    <3> QED
      BY <3>1, <3>2, <1>c, <2>2
  <2>5. CASE EmplaceInfo(t)
    <3>1. pc[t] = "emplace" /\ pc'[t] = "push" /\ varq' = varq /\ msg' = msg /\ logId' = logId
      BY <1>a, <2>5 DEF EmplaceInfo, ThreadGoes
    <3>2. HasItsId(msg[t])'
      BY <1>0, <3>1 DEF MessageIdsInv, HasItsId
    <3> QED
      BY <3>1, <3>2, <1>c, <2>2
  <2>6. CASE Preallocate(t)
    BY <1>1, <2>6 DEF Preallocate
  <2>7. CASE Push(t)
    <3>1. /\ pc[t] = "push" /\ pc'[t] = "idle" /\ logId' = logId
          /\ varq'[t] = Append(varq[t], msg[t])
      BY <1>a, <2>7 DEF Push, ThreadGoes
    <3>2. HasItsId(msg[t]) /\ msg[t] \in Message /\ varq[t] \in Seq(Message)
      BY <1>0, <1>a, <3>1 DEF MessageIdsInv, Waiting
    <3>3. ASSUME NEW i \in DOMAIN varq'[t] PROVE HasItsId(varq[t][i])'
      <4>1. i \in 1 .. Len(varq[t]) + 1 /\ Len(varq[t]) \in Nat
        BY <3>1, <3>2, <3>3, AppendFacts, ElementFacts
      <4>2. CASE i = Len(varq[t]) + 1
        BY <3>1, <3>2, <4>2, AppendFacts DEF HasItsId
      <4>3. CASE i \in 1 .. Len(varq[t])
        <5>1. varq'[t][i] = varq[t][i] /\ HasItsId(varq[t][i])
          BY <1>0, <3>1, <3>2, <4>3, AppendFacts, ElementFacts DEF MessageIdsInv
        <5> QED
          BY <3>1, <5>1 DEF HasItsId
      <4> QED
        BY <4>1, <4>2, <4>3
    <3> QED
      BY <3>1, <3>3, <2>2
  <2>8. CASE End(t)
    BY <1>a, <1>c, <2>2, <2>8 DEF End, ThreadGoes
  <2>9. CASE Discard(t)
    BY <1>a, <1>c, <2>2, <2>9 DEF Discard, ThreadGoes
  <2> QED
    BY <1>2, <2>3, <2>4, <2>5, <2>6, <2>7, <2>8, <2>9 DEF Thread
<1>3. CASE Handle
  <2> DEFINE tb == bgThreadBuffers[1].tb
  <2>1. /\ varq[tb] # << >> /\ varq' = [varq EXCEPT ![tb] = Tail(@)] /\ UNCHANGED <<pc, msg, logId>>
    BY <1>0, <1>3, HeaderInFront DEF Handle, PollGoes
  <2>2. PICK t : t = tb
    OBVIOUS
  <2>3. ASSUME NEW u \in Threads PROVE \A i \in DOMAIN varq'[u] : HasItsId(varq[u][i])'
    <3>1. CASE u # t
      BY <1>a, <1>c, <2>1, <2>2, <3>1
    <3>2. CASE u = t
      <4>1. varq'[t] = Tail(varq[t]) /\ varq[t] # << >> /\ varq[t] \in Seq(Message)
        BY <1>a, <2>1, <2>2, <3>2
      <4>2. ASSUME NEW i \in DOMAIN varq'[t] PROVE HasItsId(varq[t][i])'
        <5>1. i \in 1 .. Len(varq[t]) - 1 /\ Len(varq[t]) \in Nat /\ varq'[t][i] = varq[t][i + 1]
          BY <4>1, <4>2, TailFacts, ElementFacts
        <5>2. HasItsId(varq[t][i + 1])
          BY <1>0, <3>2, <4>1, <5>1, ElementFacts DEF MessageIdsInv
        <5> QED
          BY <2>1, <5>1, <5>2 DEF HasItsId
      <4> QED
        BY <3>2, <4>2
    <3> QED
      BY <3>1, <3>2
  <2> QED
    BY <1>d, <2>1, <2>3 DEF MessageIdsInv
<1> QED
  <2>1. ASSUME PollAgain \/ Main \/ UNCHANGED vars PROVE MessageIdsInv'
    BY <1>1, <2>1 DEF PollAgain, Main, Stop, Restart, Destroy, Close, vars
  <2>2. ASSUME Poll PROVE MessageIdsInv'
    BY <1>1, <1>3, <2>2 DEF Poll, ReadClock, MoveLogInfos, MoveThreadBuffers, ReadFront,
       DeleteEnded, MakeHeap, AdjustHeap, NextHeader, EndPoll
  <2> QED
    BY <1>2, <2>1, <2>2 DEF Next



\* Only Handle handles a message; nothing else changes what was handled.
LEMMA HandledKept ==
  ASSUME TypeOK, [Next]_vars, ~Handle
  PROVE  Handled' = Handled
<1> USE DEF infoVars, threadVars, bufVars, mainVars, outVars, pollVars
<1>1. CASE UNCHANGED <<file, membuf>>
  BY <1>1 DEF Handled
<1>2. CASE Flush
  BY <1>2, FlushHandled
<1>3. ASSUME NEW t \in Threads, Thread(t) PROVE UNCHANGED <<file, membuf>>
  BY <1>3 DEF Thread, Log, Register, EmplaceInfo, Preallocate, Push, Discard, End
<1>4. ASSUME Poll PROVE Flush \/ UNCHANGED <<file, membuf>>
  BY <1>4 DEF Poll, ReadClock, MoveLogInfos, MoveThreadBuffers, ReadFront, DeleteEnded,
     MakeHeap, AdjustHeap, NextHeader, EndPoll
<1>5. ASSUME PollAgain \/ Main \/ UNCHANGED vars PROVE Flush \/ UNCHANGED <<file, membuf>>
  BY <1>5 DEF PollAgain, Main, Stop, Restart, Destroy, Close, vars
<1> QED
  BY <1>1, <1>2, <1>3, <1>4, <1>5 DEF Next

\* The log statements the poll knows stay where they are.
LEMMA KnownGrow ==
  ASSUME TypeOK, [Next]_vars
  PROVE  /\ Len(bgLogInfos) <= Len(bgLogInfos') /\ Len(bgLogInfos') \in Nat
         /\ \A k \in 1 .. Len(bgLogInfos) : bgLogInfos'[k] = bgLogInfos[k]
<1> USE DEF infoVars, threadVars, bufVars, mainVars, outVars, pollVars
<1>1. bgLogInfos \in Seq(Sites \cup {Once}) /\ Len(bgLogInfos) \in Nat
  BY ElementFacts DEF TypeOK
<1>2. CASE bgLogInfos' = bgLogInfos
  BY <1>1, <1>2
<1>3. CASE MoveLogInfos
  <2>1. bgLogInfos' = Entries
    BY <1>3 DEF MoveLogInfos, Entries
  <2> QED
    BY <1>1, <2>1, EntriesType
<1>4. ASSUME NEW t \in Threads, Thread(t) PROVE bgLogInfos' = bgLogInfos
  BY <1>4 DEF Thread, Log, Register, EmplaceInfo, Preallocate, Push, Discard, End
<1>5. ASSUME Poll PROVE MoveLogInfos \/ bgLogInfos' = bgLogInfos
  BY <1>5 DEF Poll, ReadClock, MoveThreadBuffers, ReadFront, DeleteEnded,
     MakeHeap, AdjustHeap, Handle, NextHeader, EndPoll
<1>6. ASSUME PollAgain \/ Main \/ UNCHANGED vars PROVE bgLogInfos' = bgLogInfos
  BY <1>6 DEF PollAgain, Main, Stop, Restart, Destroy, Close, vars
<1> QED
  BY <1>2, <1>3, <1>4, <1>5, <1>6 DEF Next

\* A message that has its id is formatted by its own log statement.
LEMMA OwnSite ==
  ASSUME TypeOK, IdsInv, NEW m \in Message, HasItsId(m), Known(m.logId)
  PROVE  Info(m.logId) = m.site
<1>1. /\ m.logId \in Nat /\ m.logId < Len(bgLogInfos)
      /\ m.site # Once => m.site \in Sites
  BY DEF Known, Message
<1>2. /\ Len(Entries) = Len(bgLogInfos) + Len(logInfos)
      /\ Len(bgLogInfos) \in Nat /\ Len(logInfos) \in Nat
      /\ \A k \in 1 .. Len(bgLogInfos) : Entries[k] = bgLogInfos[k]
  BY EntriesType
<1>3. CASE m.site = Once
  BY <1>1, <1>3 DEF HasItsId, Info, IdsInv
<1>4. CASE m.site # Once
  <2>1. m.logId = logId[m.site] /\ m.logId # 0 /\ m.site \in Sites
    BY <1>1, <1>4 DEF HasItsId
  <2>2. Entries[m.logId + 1] = m.site
    BY <1>1, <1>2, <2>1 DEF IdsInv
  <2> QED
    BY <1>1, <1>2, <2>2 DEF Info
<1> QED
  BY <1>3, <1>4

LEMMA QueuedSites ==
  ASSUME TypeOK, IdsInv, MessageIdsInv
  PROVE  \A t \in Threads : \A i \in DOMAIN varq[t] :
           Known(varq[t][i].logId) => Info(varq[t][i].logId) = varq[t][i].site
<1> SUFFICES ASSUME NEW t \in Threads, NEW i \in DOMAIN varq[t], Known(varq[t][i].logId)
             PROVE  Info(varq[t][i].logId) = varq[t][i].site
  OBVIOUS
<1>1. varq[t][i] \in Message
  BY ElementFacts DEF TypeOK
<1> QED
  BY <1>1, OwnSite DEF MessageIdsInv

LEMMA SiteStep ==
  ASSUME IInv, [Next]_vars, TypeOK', IdsInv', MessageIdsInv'
  PROVE  SiteOfId'
<1>0. TypeOK /\ IdsInv /\ MessageIdsInv /\ PollerInv /\ NodesLive /\ SiteOfId
  BY DEF IInv
\* the queues
<1>1. (\A t \in Threads : \A i \in DOMAIN varq[t] :
         Known(varq[t][i].logId) => Info(varq[t][i].logId) = varq[t][i].site)'
  BY QueuedSites, PTL
\* what was handled
<1>2. ASSUME NEW m \in Message, Known(m.logId), Info(m.logId) = m.site
      PROVE  Known(m.logId)' /\ Info(m.logId)' = m.site
  <2>1. m.logId \in Nat /\ Len(bgLogInfos) \in Nat
    BY <1>0, EntriesType DEF Message
  <2> QED
    BY <1>0, <1>2, <2>1, KnownGrow DEF Known, Info
<1>3. /\ Handled \in Seq(Message) /\ Len(Handled) \in Nat
      /\ \A i \in 1 .. Len(Handled) : Handled[i] \in Message /\ Known(Handled[i].logId)
                                        /\ Info(Handled[i].logId) = Handled[i].site
  BY <1>0, HandledType, ElementFacts DEF SiteOfId
<1>4. PICK h : h = Handled'
  OBVIOUS
<1>5. \A i \in DOMAIN h : h[i] \in Message /\ Known(h[i].logId)' /\ Info(h[i].logId)' = h[i].site
  <2>1. CASE Handle
    <3>1. /\ h = Append(Handled, Candidate) /\ Candidate \in Message
          /\ Known(Candidate.logId)
      BY <1>0, <1>4, <2>1, HandleHandled, CandidateType DEF PollerInv, Handle, PollGoes
    <3>2. PICK c : c = Candidate
      OBVIOUS
    <3>3. HasItsId(c)
      <4>1. LET t == bgThreadBuffers[1].tb IN varq[t] # << >> /\ c = Head(varq[t]) /\ t \in Threads
        BY <1>0, <2>1, <3>2, HeaderInFront, CandidateType DEF Handle, PollGoes, PollerInv
      <4>2. PICK t \in Threads : varq[t] # << >> /\ c = Head(varq[t])
        BY <4>1
      <4>3. varq[t] \in Seq(Message)
        BY <1>0 DEF TypeOK
      <4>4. 1 \in DOMAIN varq[t] /\ c = varq[t][1]
        BY <4>2, <4>3, TailFacts, ElementFacts
      <4> QED
        BY <1>0, <4>4 DEF MessageIdsInv
    <3>4. Info(c.logId) = c.site /\ Known(c.logId) /\ c \in Message
      BY <1>0, <3>1, <3>2, <3>3, OwnSite
    <3>5. \A i \in DOMAIN h : (i \in 1 .. Len(Handled) /\ h[i] = Handled[i]) \/ h[i] = c
      BY <1>3, <3>1, <3>2, AppendFacts, ElementFacts
    <3>6. \A i \in DOMAIN h : h[i] \in Message /\ Known(h[i].logId) /\ Info(h[i].logId) = h[i].site
      BY <1>3, <3>4, <3>5
    <3> QED
      BY <1>2, <3>6
  <2>2. CASE ~Handle
    <3>1. h = Handled
      BY <1>0, <1>4, <2>2, HandledKept
    <3> QED
      BY <1>2, <1>3, <3>1, ElementFacts
  <2> QED
    BY <2>1, <2>2
<1> QED
  BY <1>1, <1>4, <1>5 DEF SiteOfId, Known, Info


-----------------------------------------------------------------------------
(* Threads, their buffers, and the nodes of the poll *)

LEMMA InitNodes == Init => LifeInv /\ PollerInv /\ NodesLive
<1> SUFFICES ASSUME Init PROVE LifeInv /\ PollerInv /\ NodesLive
  OBVIOUS
<1>1. LifeInv /\ PollerInv
  BY DEF Init, LifeInv, PollerInv
<1>2. NodesLive
  <2>1. [i \in DOMAIN bgThreadBuffers |-> bgThreadBuffers[i].tb] \o threadBuffers = << >>
    BY DEF Init
  <2> QED
    BY <2>1 DEF Init, NodesLive, IsInjective, Range
<1> QED
  BY <1>1, <1>2

LEMMA LifeStep == ASSUME IInv, [Next]_vars PROVE LifeInv'
<1> USE DEF infoVars, threadVars, bufVars, mainVars, outVars, pollVars
<1>0. TypeOK /\ LifeInv /\ PollerInv /\ NodesLive
  BY DEF IInv
<1>a. /\ pc \in [Threads -> {"idle", "register", "emplace", "push", "ended"}]
      /\ life \in [Threads -> {"none", "live", "ended", "deleted"}]
      /\ varq \in [Threads -> Seq(Message)]
  BY <1>0 DEF TypeOK
<1>1. CASE UNCHANGED <<pc, life, varq>>
  BY <1>0, <1>1 DEF LifeInv
<1>2. ASSUME NEW t \in Threads, Thread(t) PROVE LifeInv'
  <2>1. ASSUME NEW s \in {"idle", "register", "emplace", "push"}, pc[t] # "ended",
               pc' = [pc EXCEPT ![t] = s], UNCHANGED <<life, varq>>
        PROVE  LifeInv'
    BY <1>0, <1>a, <2>1 DEF LifeInv
  <2>2. ASSUME NEW site \in Sites \cup {Once}, Log(t, site) PROVE LifeInv'
    <3>1. PICK s \in {"register", "push"} : pc' = [pc EXCEPT ![t] = s] /\ pc[t] = "idle"
      BY <2>2 DEF Log, ThreadGoes
    <3> QED
      BY <2>1, <2>2, <3>1 DEF Log
  <2>3. CASE Register(t)
    <3>1. PICK s \in {"emplace", "push"} : pc' = [pc EXCEPT ![t] = s] /\ pc[t] = "register"
      BY <2>3 DEF Register, ThreadGoes
    <3> QED
      BY <2>1, <2>3, <3>1 DEF Register
  <2>4. CASE EmplaceInfo(t)
    BY <2>1, <2>4 DEF EmplaceInfo, ThreadGoes
  <2>5. CASE Preallocate(t)
    BY <1>0, <1>a, <2>5 DEF Preallocate, LifeInv
  <2>6. CASE Push(t)
    BY <1>0, <1>a, <2>6 DEF Push, ThreadGoes, LifeInv
  <2>7. CASE End(t)
    BY <1>0, <1>a, <2>7 DEF End, ThreadGoes, LifeInv
  <2>8. CASE Discard(t)
    BY <2>1, <2>8 DEF Discard, ThreadGoes
  <2> QED
    BY <1>2, <2>2, <2>3, <2>4, <2>5, <2>6, <2>7, <2>8 DEF Thread
<1>3. CASE DeleteEnded
  <2>1. PICK tb : tb = bgThreadBuffers[node].tb
    OBVIOUS
  <2>2. \/ life' = life
        \/ life[tb] = "ended" /\ life' = [life EXCEPT ![tb] = "deleted"]
    BY <1>3, <2>1 DEF DeleteEnded
  <2>3. pc' = pc /\ varq' = varq
    BY <1>3 DEF DeleteEnded
  <2> QED
    BY <1>0, <1>a, <2>2, <2>3 DEF LifeInv
<1>4. CASE Handle
  <2>1. PICK tb : tb = bgThreadBuffers[1].tb
    OBVIOUS
  <2>2. varq[tb] # << >> /\ varq' = [varq EXCEPT ![tb] = Tail(@)] /\ UNCHANGED <<pc, life>>
    BY <1>0, <1>4, <2>1, HeaderInFront DEF Handle, PollGoes
  <2> QED
    BY <1>0, <1>a, <2>2 DEF LifeInv
<1> QED
  <2>1. ASSUME PollAgain \/ Main \/ UNCHANGED vars PROVE LifeInv'
    BY <1>1, <2>1 DEF PollAgain, Main, Stop, Restart, Destroy, Close, vars
  <2>2. ASSUME Poll PROVE LifeInv'
    BY <1>1, <1>3, <1>4, <2>2 DEF Poll, ReadClock, MoveLogInfos, MoveThreadBuffers, ReadFront,
       MakeHeap, AdjustHeap, NextHeader, EndPoll
  <2> QED
    BY <1>2, <2>1, <2>2 DEF Next

LEMMA NodesType ==
  ASSUME TypeOK
  PROVE  /\ bgThreadBuffers \in Seq(Node) /\ Len(bgThreadBuffers) \in Nat
         /\ DOMAIN bgThreadBuffers = 1 .. Len(bgThreadBuffers)
         /\ \A i \in 1 .. Len(bgThreadBuffers) :
              /\ bgThreadBuffers[i] \in Node /\ bgThreadBuffers[i].tb \in Threads
              /\ bgThreadBuffers[i].header \in Message \cup {None}
         /\ bgThreadBuffers # << >> <=> Len(bgThreadBuffers) >= 1
<1>1. bgThreadBuffers \in Seq(Node)
  BY DEF TypeOK
<1>2. /\ Len(bgThreadBuffers) \in Nat /\ DOMAIN bgThreadBuffers = 1 .. Len(bgThreadBuffers)
      /\ \A i \in 1 .. Len(bgThreadBuffers) : bgThreadBuffers[i] \in Node
  BY <1>1, ElementFacts
<1>3. \A x \in Node : x.tb \in Threads /\ x.header \in Message \cup {None}
  BY DEF Node
<1>4. bgThreadBuffers # << >> <=> Len(bgThreadBuffers) # 0
  BY <1>1, EmptyIsLenZero
<1> QED
  BY <1>1, <1>2, <1>3, <1>4

\* A node goes up or down only among the nodes there are.
LEMMA LeastFacts ==
  ASSUME NEW h \in Seq(Node), NEW i \in 1 .. Len(h)
  PROVE  /\ Least(h, i) \in {i, 2 * i, 2 * i + 1} /\ Least(h, i) \in 1 .. Len(h)
BY ElementFacts DEF Least

LEMMA PollerStep == ASSUME IInv, [Next]_vars PROVE PollerInv'
<1> USE DEF infoVars, threadVars, bufVars, mainVars, outVars, pollVars, PollGoes
<1>0. TypeOK /\ PollerInv
  BY DEF IInv
<1>a. node \in Nat /\ root \in Nat
  BY <1>0 DEF TypeOK
<1>1. CASE UNCHANGED <<poller, node, root, bgThreadBuffers>>
  BY <1>0, <1>1 DEF PollerInv
<1>2. ASSUME NEW t \in Threads, Thread(t) PROVE PollerInv'
  BY <1>1, <1>2 DEF Thread, Log, Register, EmplaceInfo, Preallocate, Push, Discard, End
<1>3. ASSUME poller' \in {"top", "infos", "buffers", "polled"} PROVE PollerInv'
  BY <1>3 DEF PollerInv
<1>4. CASE MoveThreadBuffers
  BY <1>4 DEF MoveThreadBuffers, PollerInv
<1>5. CASE ReadFront
  <2> DEFINE h == FrontOf(bgThreadBuffers[node].tb)
  <2>1. node \in 1 .. Len(bgThreadBuffers)
    BY <1>0, <1>5, <1>a DEF ReadFront, PollerInv
  <2>2. CASE poller' = "front"
    <3>1. node' = node + 1
      BY <1>5, <2>2 DEF ReadFront
    <3> QED
      BY <1>a, <2>2, <3>1 DEF PollerInv
  <2>3. CASE poller' = "ended"
    <3>1. /\ node' = node /\ h = None
          /\ bgThreadBuffers' = [bgThreadBuffers EXCEPT ![node].header = h]
      BY <1>5, <2>3 DEF ReadFront
    <3> HIDE DEF h
    <3>2. bgThreadBuffers'[node].header = None /\ node \in DOMAIN bgThreadBuffers'
      BY <1>0, <2>1, <3>1, NodesType DEF Node
    <3> QED
      BY <2>3, <3>1, <3>2 DEF PollerInv
  <2> QED
    BY <1>5, <2>2, <2>3 DEF ReadFront
<1>6. CASE DeleteEnded
  <2>1. poller' = "front" /\ (node' = node \/ node' = node + 1) /\ node >= 1
    BY <1>0, <1>6, NodesType DEF DeleteEnded, PollerInv
  <2> QED
    BY <1>a, <2>1 DEF PollerInv
<1>7. CASE MakeHeap
  <2>1. CASE poller' = "adjust"
    <3>1. /\ root' = Len(bgThreadBuffers) \div 2 + 1 /\ node' = root'
          /\ bgThreadBuffers # << >> /\ bgThreadBuffers' = bgThreadBuffers
      BY <1>7, <2>1 DEF MakeHeap
    <3>2. PICK n : n = Len(bgThreadBuffers)
      OBVIOUS
    <3>3. n \in Nat /\ n >= 1
      BY <1>0, <3>1, <3>2, NodesType
    <3>4. n \div 2 + 1 >= 1 /\ n \div 2 + 1 <= n /\ n \div 2 + 1 \in Nat
      BY <3>3
    <3> QED
      BY <2>1, <3>1, <3>2, <3>4 DEF PollerInv
  <2> QED
    BY <1>3, <1>7, <2>1 DEF MakeHeap
<1>8. CASE AdjustHeap
  <2>1. /\ root >= 1 /\ node \in root .. Len(bgThreadBuffers) /\ Len(bgThreadBuffers) \in Nat
        /\ bgThreadBuffers \in Seq(Node) /\ bgThreadBuffers # << >>
    BY <1>0, <1>8, NodesType DEF AdjustHeap, PollerInv
  <2>2. PICK min : min = Least(bgThreadBuffers, node)
    OBVIOUS
  <2>3. min \in {node, 2 * node, 2 * node + 1} /\ min \in 1 .. Len(bgThreadBuffers)
    BY <1>a, <2>1, <2>2, LeastFacts
  <2>4. CASE min # node
    <3>1. /\ bgThreadBuffers' = Swap(bgThreadBuffers, node, min) /\ node' = min
          /\ root' = root /\ poller' = poller
      BY <1>8, <2>2, <2>4 DEF AdjustHeap
    <3>2. Len(bgThreadBuffers') = Len(bgThreadBuffers) /\ bgThreadBuffers' \in Seq(Node)
      <4>1. node \in 1 .. Len(bgThreadBuffers)
        BY <1>a, <2>1
      <4> QED
        BY <2>1, <2>3, <3>1, <4>1, SwapFacts
    <3>3. bgThreadBuffers' # << >>
      BY <2>1, <3>2, EmptyIsLenZero
    <3>4. node' \in root .. Len(bgThreadBuffers')
      BY <1>a, <2>1, <2>3, <3>1, <3>2
    <3> QED
      BY <1>8, <2>1, <3>1, <3>3, <3>4 DEF AdjustHeap, PollerInv
  <2>5. CASE min = node
    <3>1. /\ poller' = IF root = 1 THEN "handle" ELSE "adjust"
          /\ root' = root - 1 /\ node' = root' /\ bgThreadBuffers' = bgThreadBuffers
      BY <1>8, <2>2, <2>5 DEF AdjustHeap
    <3>2. root # 1 => root' >= 1 /\ node' \in root' .. Len(bgThreadBuffers)
      BY <1>a, <2>1, <3>1
    <3> QED
      BY <2>1, <3>1, <3>2 DEF PollerInv
  <2> QED
    BY <2>4, <2>5
<1>9. CASE Handle
  BY <1>0, <1>9 DEF Handle, PollerInv
<1>10. CASE NextHeader
  <2>1. /\ bgThreadBuffers # << >> /\ root' = 1 /\ node' = 1 /\ poller' = "adjust"
        /\ Len(bgThreadBuffers) >= 1 /\ Len(bgThreadBuffers) \in Nat
    BY <1>0, <1>10, NodesType DEF NextHeader, PollerInv
  <2>2. PICK h : h = FrontOf(bgThreadBuffers[1].tb)
    OBVIOUS
  <2>3. bgThreadBuffers' = [bgThreadBuffers EXCEPT ![1] = [bgThreadBuffers[1] EXCEPT !.header = h]]
    BY <1>10, <2>2 DEF NextHeader
  <2>4. h \in Message \cup {None} /\ 1 \in 1 .. Len(bgThreadBuffers) /\ bgThreadBuffers[1] \in Node
    BY <1>0, <2>1, <2>2, FrontOfType, NodesType
  <2>5. PICK x \in Node : x = [bgThreadBuffers[1] EXCEPT !.header = h]
    BY <2>4 DEF Node
  <2>6. bgThreadBuffers' \in Seq(Node) /\ Len(bgThreadBuffers') = Len(bgThreadBuffers)
    BY <1>0, <2>3, <2>4, <2>5, NodesType, UpdateFacts
  <2>7. bgThreadBuffers' # << >>
    BY <2>1, <2>6, EmptyIsLenZero
  <2> QED
    BY <2>1, <2>6, <2>7 DEF PollerInv
<1> QED
  <2>1. ASSUME PollAgain \/ Main \/ UNCHANGED vars PROVE PollerInv'
    BY <1>1, <1>3, <2>1 DEF PollAgain, Main, Stop, Restart, Destroy, Close, vars
  <2>2. ASSUME Poll PROVE PollerInv'
    BY <1>3, <1>4, <1>5, <1>6, <1>7, <1>8, <1>9, <1>10, <2>2
    DEF Poll, ReadClock, MoveLogInfos, EndPoll
  <2> QED
    BY <1>2, <2>1, <2>2 DEF Next


\* The poll and the list of new buffers have each buffer once...
Distinct ==
  /\ \A i, j \in DOMAIN bgThreadBuffers : bgThreadBuffers[i].tb = bgThreadBuffers[j].tb => i = j
  /\ \A i, j \in DOMAIN threadBuffers : threadBuffers[i] = threadBuffers[j] => i = j
  /\ \A i \in DOMAIN bgThreadBuffers : \A j \in DOMAIN threadBuffers :
       bgThreadBuffers[i].tb # threadBuffers[j]

Listed(t) ==
  \/ \E i \in DOMAIN bgThreadBuffers : bgThreadBuffers[i].tb = t
  \/ \E j \in DOMAIN threadBuffers : threadBuffers[j] = t

\* ... those that exist ...
Complete == \A t \in Threads : life[t] \in {"live", "ended"} <=> Listed(t)

\* ... and the headers are in front of their queues.
HeadersInv ==
  \A i \in DOMAIN bgThreadBuffers :
    bgThreadBuffers[i].header # None /\ (poller = "next" => i # 1) =>
      /\ varq[bgThreadBuffers[i].tb] # << >>
      /\ bgThreadBuffers[i].header = Head(varq[bgThreadBuffers[i].tb])


LEMMA SplitIndex ==
  ASSUME NEW n \in Nat, NEW m \in Nat
  PROVE  /\ \A i \in 1 .. n + m : i \in 1 .. n \/ \E k \in 1 .. m : i = n + k
         /\ \A i \in 1 .. n : i \in 1 .. n + m
         /\ \A k \in 1 .. m : n + k \in 1 .. n + m
         /\ \A i \in 1 .. n : \A k \in 1 .. m : i # n + k
         /\ \A k, l \in 1 .. m : n + k = n + l => k = l
<1>1. ASSUME NEW i \in 1 .. n + m PROVE i \in 1 .. n \/ \E k \in 1 .. m : i = n + k
  <2>1. i <= n \/ i - n \in 1 .. m
    OBVIOUS
  <2>2. i = n + (i - n)
    OBVIOUS
  <2> QED
    BY <2>1, <2>2
<1> QED
  BY <1>1

LEMMA ConcatParts ==
  ASSUME NEW S, NEW s \in Seq(S), NEW u \in Seq(S)
  PROVE  /\ IsInjective(s \o u) <=>
              /\ \A i, j \in 1 .. Len(s) : s[i] = s[j] => i = j
              /\ \A i, j \in 1 .. Len(u) : u[i] = u[j] => i = j
              /\ \A i \in 1 .. Len(s) : \A j \in 1 .. Len(u) : s[i] # u[j]
         /\ \A t : t \in Range(s \o u) <=>
              (\E i \in 1 .. Len(s) : s[i] = t) \/ (\E j \in 1 .. Len(u) : u[j] = t)
<1> DEFINE n == Len(s)
           m == Len(u)
<1>1. PICK v : v = s \o u
  OBVIOUS
<1>2. /\ v \in Seq(S) /\ Len(v) = n + m /\ DOMAIN v = 1 .. n + m /\ n \in Nat /\ m \in Nat
      /\ \A i \in 1 .. n : v[i] = s[i]
      /\ \A j \in 1 .. m : v[n + j] = u[j]
  BY <1>1, ConcatFacts, ElementFacts
<1> HIDE DEF n, m
<1>3. /\ \A i \in 1 .. n + m : i \in 1 .. n \/ \E k \in 1 .. m : i = n + k
      /\ \A i \in 1 .. n : i \in 1 .. n + m
      /\ \A k \in 1 .. m : n + k \in 1 .. n + m
      /\ \A i \in 1 .. n : \A k \in 1 .. m : i # n + k
      /\ \A k, l \in 1 .. m : n + k = n + l => k = l
  BY <1>2, SplitIndex
<1>4. ASSUME \A i, j \in 1 .. n + m : v[i] = v[j] => i = j
      PROVE  /\ \A i, j \in 1 .. n : s[i] = s[j] => i = j
             /\ \A i, j \in 1 .. m : u[i] = u[j] => i = j
             /\ \A i \in 1 .. n : \A j \in 1 .. m : s[i] # u[j]
  <2>1. \A i, j \in 1 .. n : s[i] = s[j] => i = j
    BY <1>2, <1>3, <1>4, Zenon
  <2>2. ASSUME NEW i \in 1 .. m, NEW j \in 1 .. m, u[i] = u[j] PROVE i = j
    <3>1. v[n + i] = v[n + j] /\ n + i \in 1 .. n + m /\ n + j \in 1 .. n + m
      BY <1>2, <1>3, <2>2, Zenon
    <3>2. n + i = n + j
      BY <1>4, <3>1, Zenon
    <3> QED
      BY <1>3, <3>2, Zenon
  <2>3. ASSUME NEW i \in 1 .. n, NEW j \in 1 .. m, s[i] = u[j] PROVE FALSE
    <3>1. v[i] = v[n + j] /\ i \in 1 .. n + m /\ n + j \in 1 .. n + m
      BY <1>2, <1>3, <2>3, Zenon
    <3>2. i = n + j
      BY <1>4, <3>1, Zenon
    <3> QED
      BY <1>3, <3>2, Zenon
  <2> QED
    BY <2>1, <2>2, <2>3
<1>5. ASSUME \A i, j \in 1 .. n : s[i] = s[j] => i = j,
             \A i, j \in 1 .. m : u[i] = u[j] => i = j,
             \A i \in 1 .. n : \A j \in 1 .. m : s[i] # u[j],
             NEW i \in 1 .. n + m, NEW j \in 1 .. n + m, v[i] = v[j]
      PROVE  i = j
  <2>1. CASE i \in 1 .. n /\ j \in 1 .. n
    BY <1>2, <1>5, <2>1, Zenon
  <2>2. ASSUME NEW k \in 1 .. m, NEW l \in 1 .. m, i = n + k, j = n + l PROVE i = j
    <3>1. u[k] = u[l]
      BY <1>2, <1>5, <2>2, Zenon
    <3> QED
      BY <1>5, <2>2, <3>1, Zenon
  <2>3. ASSUME NEW k \in 1 .. n, NEW l \in 1 .. m PROVE v[k] # v[n + l]
    <3>1. v[k] = s[k] /\ v[n + l] = u[l]
      BY <1>2, Zenon
    <3>2. s[k] # u[l]
      BY <1>5, Zenon
    <3> QED
      BY <3>1, <3>2, Zenon
  <2> QED
    BY <1>3, <1>5, <2>1, <2>2, <2>3, Zenon
<1>6. IsInjective(v) <=> \A i, j \in 1 .. n + m : v[i] = v[j] => i = j
  BY <1>2 DEF IsInjective
<1>7. ASSUME NEW t PROVE t \in Range(v) <=>
         (\E i \in 1 .. n : s[i] = t) \/ (\E j \in 1 .. m : u[j] = t)
  <2>1. t \in Range(v) <=> \E i \in 1 .. n + m : v[i] = t
    BY <1>2 DEF Range
  <2>2. ASSUME NEW i \in 1 .. n + m, v[i] = t
        PROVE  (\E j \in 1 .. n : s[j] = t) \/ (\E j \in 1 .. m : u[j] = t)
    <3>1. CASE i \in 1 .. n
      BY <1>2, <2>2, <3>1, Zenon
    <3>2. ASSUME NEW k \in 1 .. m, i = n + k PROVE u[k] = t
      BY <1>2, <2>2, <3>2, Zenon
    <3> QED
      BY <1>3, <3>1, <3>2, Zenon
  <2>3. (\E i \in 1 .. n : s[i] = t) \/ (\E j \in 1 .. m : u[j] = t)
          => \E i \in 1 .. n + m : v[i] = t
    <3>1. ASSUME NEW i \in 1 .. n, s[i] = t PROVE i \in 1 .. n + m /\ v[i] = t
      BY <1>2, <1>3, <3>1, Zenon
    <3>2. ASSUME NEW j \in 1 .. m, u[j] = t PROVE n + j \in 1 .. n + m /\ v[n + j] = t
      BY <1>2, <1>3, <3>2, Zenon
    <3> QED
      BY <3>1, <3>2, Zenon
  <2> QED
    BY <2>1, <2>2, <2>3
<1>8. IsInjective(v) <=>
        /\ \A i, j \in 1 .. n : s[i] = s[j] => i = j
        /\ \A i, j \in 1 .. m : u[i] = u[j] => i = j
        /\ \A i \in 1 .. n : \A j \in 1 .. m : s[i] # u[j]
  <2>1. (\A i, j \in 1 .. n + m : v[i] = v[j] => i = j) <=>
        /\ \A i, j \in 1 .. n : s[i] = s[j] => i = j
        /\ \A i, j \in 1 .. m : u[i] = u[j] => i = j
        /\ \A i \in 1 .. n : \A j \in 1 .. m : s[i] # u[j]
    <3> HIDE DEF n, m
    <3> QED
      BY <1>4, <1>5, Zenon
  <2> QED
    BY <1>6, <2>1
<1> QED
  BY <1>1, <1>7, <1>8 DEF n, m

LEMMA NodesParts ==
  ASSUME TypeOK
  PROVE  NodesLive <=> Distinct /\ Complete /\ HeadersInv
<1> DEFINE f == [i \in DOMAIN bgThreadBuffers |-> bgThreadBuffers[i].tb]
           n == Len(bgThreadBuffers)
           m == Len(threadBuffers)
<1>1. /\ n \in Nat /\ m \in Nat /\ threadBuffers \in Seq(Threads)
      /\ DOMAIN bgThreadBuffers = 1 .. n /\ DOMAIN threadBuffers = 1 .. m
      /\ \A j \in 1 .. m : threadBuffers[j] \in Threads
  BY NodesType, ElementFacts DEF TypeOK
<1>2. f \in Seq(Threads) /\ Len(f) = n
  <2>1. f \in [1 .. n -> Threads]
    BY <1>1, NodesType
  <2> QED
    BY <1>1, <2>1, MapFacts
<1>3. \A i \in 1 .. n : f[i] = bgThreadBuffers[i].tb
  BY <1>1
<1> HIDE DEF f
<1>4. /\ IsInjective(f \o threadBuffers) <=>
           /\ \A i, j \in 1 .. n : f[i] = f[j] => i = j
           /\ \A i, j \in 1 .. m : threadBuffers[i] = threadBuffers[j] => i = j
           /\ \A i \in 1 .. n : \A j \in 1 .. m : f[i] # threadBuffers[j]
      /\ \A t : t \in Range(f \o threadBuffers) <=>
           (\E i \in 1 .. n : f[i] = t) \/ (\E j \in 1 .. m : threadBuffers[j] = t)
  <2>1. PICK s \in Seq(Threads) : s = f
    BY <1>2
  <2>2. PICK u \in Seq(Threads) : u = threadBuffers
    BY <1>1
  <2>3. /\ IsInjective(s \o u) <=>
             /\ \A i, j \in 1 .. Len(s) : s[i] = s[j] => i = j
             /\ \A i, j \in 1 .. Len(u) : u[i] = u[j] => i = j
             /\ \A i \in 1 .. Len(s) : \A j \in 1 .. Len(u) : s[i] # u[j]
        /\ \A t : t \in Range(s \o u) <=>
             (\E i \in 1 .. Len(s) : s[i] = t) \/ (\E j \in 1 .. Len(u) : u[j] = t)
    BY ConcatParts
  <2>4. Len(s) = n /\ Len(u) = m
    BY <1>2, <2>1, <2>2
  <2> HIDE DEF n, m
  <2> QED
    BY <2>1, <2>2, <2>3, <2>4
<1> HIDE DEF n, m
<1>5. IsInjective(f \o threadBuffers) <=> Distinct
  BY <1>1, <1>3, <1>4 DEF Distinct
<1>6. \A t : t \in Range(f \o threadBuffers) <=> Listed(t)
  BY <1>1, <1>3, <1>4 DEF Listed
<1>7. \A t : Listed(t) => t \in Threads
  BY <1>1, NodesType DEF Listed, n
<1>8. Range(f \o threadBuffers) = {t \in Threads : life[t] \in {"live", "ended"}} <=> Complete
  BY <1>6, <1>7 DEF Complete
<1> QED
  BY <1>5, <1>8 DEF NodesLive, HeadersInv, f


LEMMA HeaderFacts ==
  ASSUME TypeOK, NEW i \in 1 .. Len(bgThreadBuffers), NEW h \in Message \cup {None},
         NEW b, b = [bgThreadBuffers EXCEPT ![i].header = h]
  PROVE  /\ b \in Seq(Node) /\ Len(b) = Len(bgThreadBuffers) /\ DOMAIN b = DOMAIN bgThreadBuffers
         /\ \A j \in DOMAIN b : /\ b[j].tb = bgThreadBuffers[j].tb
                                /\ b[j].header = IF j = i THEN h ELSE bgThreadBuffers[j].header
<1>1. PICK x : x = [bgThreadBuffers[i] EXCEPT !.header = h]
  OBVIOUS
<1>2. x \in Node /\ x.tb = bgThreadBuffers[i].tb /\ x.header = h
  BY <1>1, NodesType DEF Node
<1>3. b = [bgThreadBuffers EXCEPT ![i] = x]
  BY <1>1
<1>4. /\ b \in Seq(Node) /\ Len(b) = Len(bgThreadBuffers)
      /\ \A j \in 1 .. Len(bgThreadBuffers) : b[j] = IF j = i THEN x ELSE bgThreadBuffers[j]
  BY <1>2, <1>3, NodesType, UpdateFacts
<1>5. DOMAIN b = 1 .. Len(b) /\ DOMAIN bgThreadBuffers = 1 .. Len(bgThreadBuffers)
  BY <1>4, NodesType, ElementFacts
<1> QED
  BY <1>2, <1>4, <1>5

LEMMA SameNodes ==
  ASSUME Distinct, Complete, threadBuffers' = threadBuffers,
         DOMAIN bgThreadBuffers' = DOMAIN bgThreadBuffers,
         \A i \in DOMAIN bgThreadBuffers : bgThreadBuffers'[i].tb = bgThreadBuffers[i].tb,
         \A t \in Threads : life'[t] \in {"live", "ended"} <=> life[t] \in {"live", "ended"}
  PROVE  Distinct' /\ Complete'
<1>1. Distinct'
  BY DEF Distinct
<1>2. \A t : Listed(t)' <=> Listed(t)
  BY DEF Listed
<1> QED
  BY <1>1, <1>2 DEF Complete

LEMMA SameHeaders ==
  ASSUME HeadersInv, UNCHANGED <<bgThreadBuffers, varq>>, poller' = poller \/ poller # "next"
  PROVE  HeadersInv'
BY DEF HeadersInv

LEMMA PreallocateNodes ==
  ASSUME TypeOK, Distinct, Complete, HeadersInv, NEW t \in Threads, Preallocate(t)
  PROVE  Distinct' /\ Complete' /\ HeadersInv'
<1> USE DEF pollVars, infoVars, threadVars, outVars, mainVars
<1> DEFINE m == Len(threadBuffers)
<1>1. /\ life[t] = "none" /\ life' = [life EXCEPT ![t] = "live"]
      /\ threadBuffers' = Append(threadBuffers, t) /\ bgThreadBuffers' = bgThreadBuffers
      /\ UNCHANGED <<varq, poller>>
  BY DEF Preallocate
<1>2. /\ threadBuffers \in Seq(Threads) /\ m \in Nat /\ DOMAIN threadBuffers = 1 .. m
      /\ life \in [Threads -> {"none", "live", "ended", "deleted"}]
  BY ElementFacts DEF TypeOK
<1>3. /\ threadBuffers' \in Seq(Threads) /\ Len(threadBuffers') = m + 1
      /\ \A i \in 1 .. m : threadBuffers'[i] = threadBuffers[i]
      /\ threadBuffers'[m + 1] = t
  BY <1>1, <1>2, AppendFacts
<1>4. DOMAIN threadBuffers' = 1 .. m + 1
  BY <1>3, ElementFacts
<1>5. ~Listed(t)
  BY <1>1, <1>2 DEF Complete
<1> HIDE DEF m
<1>6. \A i \in 1 .. m + 1 : i \in 1 .. m \/ i = m + 1
  BY <1>2
<1>7. \A i \in 1 .. m : i \in 1 .. m + 1 /\ i # m + 1
  BY <1>2
<1>8. m + 1 \in 1 .. m + 1
  BY <1>2
<1>9. Distinct'
  <2>1. \A i, j \in 1 .. m + 1 : threadBuffers'[i] = threadBuffers'[j] => i = j
    BY <1>2, <1>3, <1>5, <1>6 DEF Distinct, Listed
  <2>2. \A i \in DOMAIN bgThreadBuffers : \A j \in 1 .. m + 1 :
          bgThreadBuffers[i].tb # threadBuffers'[j]
    BY <1>2, <1>3, <1>5, <1>6 DEF Distinct, Listed
  <2> QED
    BY <1>1, <1>4, <2>1, <2>2 DEF Distinct
<1>10. \A u : Listed(u)' <=> Listed(u) \/ u = t
  BY <1>1, <1>2, <1>3, <1>4, <1>6, <1>7, <1>8 DEF Listed
<1>11. Complete'
  BY <1>1, <1>2, <1>10 DEF Complete
<1> QED
  BY <1>1, <1>9, <1>11, SameHeaders

LEMMA MoveNodes ==
  ASSUME TypeOK, Distinct, Complete, HeadersInv, MoveThreadBuffers
  PROVE  Distinct' /\ Complete' /\ HeadersInv'
<1> USE DEF pollVars, infoVars, threadVars, outVars, mainVars
<1> DEFINE more == [i \in DOMAIN threadBuffers |-> [tb |-> threadBuffers[i], header |-> None]]
           n == Len(bgThreadBuffers)
           m == Len(threadBuffers)
<1>1. /\ bgThreadBuffers' = bgThreadBuffers \o more /\ threadBuffers' = << >>
      /\ UNCHANGED <<life, varq>> /\ poller' = "front" /\ poller # "next"
  BY DEF MoveThreadBuffers, PollGoes
<1>2. /\ n \in Nat /\ m \in Nat /\ threadBuffers \in Seq(Threads)
      /\ DOMAIN bgThreadBuffers = 1 .. n /\ DOMAIN threadBuffers = 1 .. m
      /\ \A j \in 1 .. m : threadBuffers[j] \in Threads
  BY NodesType, ElementFacts DEF TypeOK
<1>3. more \in Seq(Node) /\ Len(more) = m
  <2>1. \A i \in 1 .. m : [tb |-> threadBuffers[i], header |-> None] \in Node
    BY <1>2 DEF Node
  <2>2. more \in [1 .. m -> Node]
    BY <1>2, <2>1
  <2> QED
    BY <1>2, <2>2, MapFacts
<1>4. \A i \in 1 .. m : more[i].tb = threadBuffers[i] /\ more[i].header = None
  BY <1>2
<1> HIDE DEF more
<1>5. /\ bgThreadBuffers' \in Seq(Node) /\ Len(bgThreadBuffers') = n + m
      /\ \A i \in 1 .. n : bgThreadBuffers'[i] = bgThreadBuffers[i]
      /\ \A i \in 1 .. m : bgThreadBuffers'[n + i] = more[i]
  BY <1>1, <1>3, NodesType, ConcatFacts
<1>6. DOMAIN bgThreadBuffers' = 1 .. n + m /\ DOMAIN threadBuffers' = {}
  BY <1>1, <1>5, ElementFacts
<1> HIDE DEF n, m
<1>7. /\ \A i \in 1 .. n + m : i \in 1 .. n \/ \E k \in 1 .. m : i = n + k
      /\ \A i \in 1 .. n : i \in 1 .. n + m
      /\ \A k \in 1 .. m : n + k \in 1 .. n + m
  BY <1>2, SplitIndex
<1>8. Distinct'
  <2>1. ASSUME NEW i \in 1 .. n + m, NEW j \in 1 .. n + m,
               bgThreadBuffers'[i].tb = bgThreadBuffers'[j].tb
        PROVE  i = j
    <3>1. CASE i \in 1 .. n /\ j \in 1 .. n
      BY <1>2, <1>5, <2>1, <3>1 DEF Distinct
    <3>2. ASSUME NEW k \in 1 .. m, NEW l \in 1 .. m, i = n + k, j = n + l PROVE i = j
      <4>1. threadBuffers[k] = threadBuffers[l]
        BY <1>4, <1>5, <2>1, <3>2, Zenon
      <4> QED
        BY <1>2, <3>2, <4>1 DEF Distinct
    <3>3. ASSUME NEW k \in 1 .. n, NEW l \in 1 .. m
          PROVE  bgThreadBuffers'[k].tb # bgThreadBuffers'[n + l].tb
      <4>1. /\ bgThreadBuffers'[k].tb = bgThreadBuffers[k].tb
            /\ bgThreadBuffers'[n + l].tb = threadBuffers[l]
        BY <1>4, <1>5, Zenon
      <4> QED
        BY <1>2, <4>1 DEF Distinct
    <3> QED
      BY <1>7, <2>1, <3>1, <3>2, <3>3, Zenon
  <2> QED
    BY <1>6, <2>1 DEF Distinct
<1>9. ASSUME NEW t PROVE Listed(t)' <=> Listed(t)
  <2>1. ASSUME NEW i \in 1 .. n, bgThreadBuffers[i].tb = t PROVE Listed(t)'
    BY <1>5, <1>6, <1>7, <2>1 DEF Listed
  <2>2. ASSUME NEW i \in 1 .. m, threadBuffers[i] = t PROVE Listed(t)'
    <3>1. bgThreadBuffers'[n + i].tb = t /\ n + i \in 1 .. n + m
      BY <1>4, <1>5, <1>7, <2>2, Zenon
    <3> QED
      BY <1>6, <3>1 DEF Listed
  <2>3. ASSUME NEW i \in 1 .. n + m, bgThreadBuffers'[i].tb = t PROVE Listed(t)
    <3>1. CASE i \in 1 .. n
      BY <1>2, <1>5, <2>3, <3>1 DEF Listed
    <3>2. ASSUME NEW k \in 1 .. m, i = n + k PROVE Listed(t)
      <4>1. threadBuffers[k] = t
        BY <1>4, <1>5, <2>3, <3>2, Zenon
      <4> QED
        BY <1>2, <4>1 DEF Listed
    <3> QED
      BY <1>7, <3>1, <3>2
  <2> QED
    BY <1>2, <1>6, <2>1, <2>2, <2>3 DEF Listed
<1>10. Complete'
  BY <1>1, <1>9 DEF Complete
<1>11. HeadersInv'
  <2>1. ASSUME NEW i \in 1 .. n + m, bgThreadBuffers'[i].header # None
        PROVE  i \in 1 .. n
    <3>1. ASSUME NEW k \in 1 .. m, i = n + k PROVE FALSE
      BY <1>4, <1>5, <2>1, <3>1, Zenon
    <3> QED
      BY <1>7, <3>1
  <2> QED
    BY <1>1, <1>2, <1>5, <1>6, <2>1 DEF HeadersInv
<1> QED
  BY <1>8, <1>10, <1>11


LEMMA ReadNodes ==
  ASSUME TypeOK, PollerInv, Distinct, Complete, HeadersInv, ReadFront
  PROVE  Distinct' /\ Complete' /\ HeadersInv'
<1> USE DEF pollVars, infoVars, threadVars, bufVars, outVars, mainVars, PollGoes
<1>1. /\ node \in 1 .. Len(bgThreadBuffers) /\ poller # "next" /\ poller' # "next"
      /\ UNCHANGED <<threadBuffers, life, varq>>
  BY DEF ReadFront, PollerInv, TypeOK
<1>2. PICK h : h = FrontOf(bgThreadBuffers[node].tb)
  OBVIOUS
<1>3. h \in Message \cup {None}
  BY <1>1, <1>2, NodesType, FrontOfType
<1>4. \/ bgThreadBuffers' = bgThreadBuffers
      \/ bgThreadBuffers' = [bgThreadBuffers EXCEPT ![node].header = h]
  BY <1>2 DEF ReadFront
<1>5. /\ DOMAIN bgThreadBuffers' = DOMAIN bgThreadBuffers
      /\ \A i \in DOMAIN bgThreadBuffers :
           /\ bgThreadBuffers'[i].tb = bgThreadBuffers[i].tb
           /\ \/ bgThreadBuffers'[i].header = bgThreadBuffers[i].header
              \/ i = node /\ bgThreadBuffers'[i].header = h
  BY <1>1, <1>3, <1>4, HeaderFacts
<1>6. h # None => varq[bgThreadBuffers[node].tb] # << >> /\ h = Head(varq[bgThreadBuffers[node].tb])
  BY <1>2 DEF FrontOf
<1>7. HeadersInv'
  BY <1>1, <1>5, <1>6 DEF HeadersInv
<1> QED
  BY <1>1, <1>5, <1>7, SameNodes

LEMMA NextHeaderNodes ==
  ASSUME TypeOK, PollerInv, Distinct, Complete, HeadersInv, NextHeader
  PROVE  Distinct' /\ Complete' /\ HeadersInv'
<1> USE DEF pollVars, infoVars, threadVars, bufVars, outVars, mainVars, PollGoes
<1>1. /\ 1 \in 1 .. Len(bgThreadBuffers) /\ poller = "next" /\ poller' # "next"
      /\ UNCHANGED <<threadBuffers, life, varq>>
  BY NodesType DEF NextHeader, PollerInv
<1>2. PICK h : h = FrontOf(bgThreadBuffers[1].tb)
  OBVIOUS
<1>3. h \in Message \cup {None}
  BY <1>1, <1>2, NodesType, FrontOfType
<1>4. bgThreadBuffers' = [bgThreadBuffers EXCEPT ![1].header = h]
  BY <1>2 DEF NextHeader
<1>5. /\ DOMAIN bgThreadBuffers' = DOMAIN bgThreadBuffers
      /\ \A i \in DOMAIN bgThreadBuffers :
           /\ bgThreadBuffers'[i].tb = bgThreadBuffers[i].tb
           /\ bgThreadBuffers'[i].header = IF i = 1 THEN h ELSE bgThreadBuffers[i].header
  BY <1>1, <1>3, <1>4, HeaderFacts
<1>6. h # None => varq[bgThreadBuffers[1].tb] # << >> /\ h = Head(varq[bgThreadBuffers[1].tb])
  BY <1>2 DEF FrontOf
<1>7. HeadersInv'
  BY <1>1, <1>5, <1>6 DEF HeadersInv
<1> QED
  BY <1>1, <1>5, <1>7, SameNodes

\* The queue of node 1 only is changed, and its header is read again.
LEMMA HandleNodes ==
  ASSUME TypeOK, PollerInv, Distinct, Complete, HeadersInv, Handle
  PROVE  Distinct' /\ Complete' /\ HeadersInv'
<1> USE DEF pollVars, infoVars, threadVars, bufVars, outVars, mainVars, PollGoes
<1>1. PICK t : t = bgThreadBuffers[1].tb
  OBVIOUS
<1>2. /\ 1 \in DOMAIN bgThreadBuffers /\ poller = "handle" /\ poller' = "next"
      /\ varq' = [varq EXCEPT ![t] = Tail(@)]
      /\ UNCHANGED <<threadBuffers, life, bgThreadBuffers>>
  BY <1>1, NodesType DEF Handle, PollerInv
<1>3. \A i \in DOMAIN bgThreadBuffers : i # 1 => bgThreadBuffers[i].tb # t
  BY <1>1, <1>2 DEF Distinct
<1>4. \A u \in Threads \ {t} : varq'[u] = varq[u]
  BY <1>2 DEF TypeOK
<1>5. HeadersInv'
  BY <1>2, <1>3, <1>4, NodesType DEF HeadersInv
<1> QED
  BY <1>2, <1>5, SameNodes

\* What is in front of a queue stays there when a message is pushed.
LEMMA PushNodes ==
  ASSUME TypeOK, Distinct, Complete, HeadersInv, NEW t \in Threads, Push(t)
  PROVE  Distinct' /\ Complete' /\ HeadersInv'
<1> USE DEF pollVars, infoVars, threadVars, bufVars, outVars, mainVars, PollGoes
<1>1. PICK m : m = msg[t]
  OBVIOUS
<1>2. /\ varq' = [varq EXCEPT ![t] = Append(@, m)] /\ pc[t] = "push"
      /\ UNCHANGED <<threadBuffers, life, bgThreadBuffers, poller>>
  BY <1>1 DEF Push, ThreadGoes
<1>3. m \in Message /\ varq \in [Threads -> Seq(Message)]
  BY <1>1, <1>2 DEF TypeOK
<1>4. ASSUME NEW u \in Threads, varq[u] # << >>
      PROVE  varq'[u] # << >> /\ Head(varq'[u]) = Head(varq[u])
  <2>1. CASE u # t
    BY <1>2, <1>3, <1>4, <2>1
  <2>2. CASE u = t
    <3>1. varq'[u] = Append(varq[u], m) /\ varq[u] \in Seq(Message)
      BY <1>2, <1>3, <2>2
    <3>2. Len(varq[u]) \in Nat /\ Len(varq[u]) # 0
      BY <1>4, <3>1, EmptyIsLenZero
    <3>3. /\ varq'[u] \in Seq(Message) /\ Len(varq'[u]) = Len(varq[u]) + 1
          /\ varq'[u][1] = varq[u][1]
      BY <1>3, <3>1, <3>2, AppendFacts
    <3>4. varq'[u] # << >>
      BY <3>2, <3>3, EmptyIsLenZero
    <3> QED
      BY <1>4, <3>1, <3>3, <3>4, TailFacts
  <2> QED
    BY <2>1, <2>2
<1>5. HeadersInv'
  BY <1>2, <1>4, NodesType DEF HeadersInv
<1> QED
  BY <1>2, <1>5, SameNodes

LEMMA NodesSwap ==
  ASSUME TypeOK, NEW i \in 1 .. Len(bgThreadBuffers), NEW j \in 1 .. Len(bgThreadBuffers),
         bgThreadBuffers' = Swap(bgThreadBuffers, i, j)
  PROVE  /\ bgThreadBuffers' \in Seq(Node) /\ Len(bgThreadBuffers') = Len(bgThreadBuffers)
         /\ \A k \in 1 .. Len(bgThreadBuffers) :
              bgThreadBuffers'[k] = IF k = j THEN bgThreadBuffers[i]
                                    ELSE IF k = i THEN bgThreadBuffers[j] ELSE bgThreadBuffers[k]
<1>1. PICK s \in Seq(Node) : s = bgThreadBuffers
  BY DEF TypeOK
<1>2. PICK a \in 1 .. Len(s) : a = i
  BY <1>1
<1>3. PICK b \in 1 .. Len(s) : b = j
  BY <1>1
<1>4. /\ Swap(s, a, b) \in Seq(Node) /\ Len(Swap(s, a, b)) = Len(s)
      /\ \A k \in 1 .. Len(s) :
           Swap(s, a, b)[k] = IF k = b THEN s[a] ELSE IF k = a THEN s[b] ELSE s[k]
  BY DEF Swap
<1> QED
  BY <1>1, <1>2, <1>3, <1>4

LEMMA AdjustNodes ==
  ASSUME TypeOK, PollerInv, Distinct, Complete, HeadersInv, AdjustHeap
  PROVE  Distinct' /\ Complete' /\ HeadersInv'
<1> USE DEF pollVars, infoVars, threadVars, bufVars, outVars, mainVars, PollGoes
<1> DEFINE n == Len(bgThreadBuffers)
<1>1. /\ UNCHANGED <<threadBuffers, life, varq>> /\ poller = "adjust" /\ poller' # "next"
      /\ node \in 1 .. n /\ root \in Nat \ {0}
  BY DEF AdjustHeap, PollerInv, TypeOK
<1>2. PICK min \in 1 .. n : min = Least(bgThreadBuffers, node)
  BY <1>1, NodesType, LeastFacts
<1>3. CASE bgThreadBuffers' = bgThreadBuffers
  BY <1>1, <1>3, SameNodes, SameHeaders
<1>4. CASE bgThreadBuffers' = Swap(bgThreadBuffers, node, min)
  <2> DEFINE p(k) == IF k = min THEN node ELSE IF k = node THEN min ELSE k
  <2>1. /\ bgThreadBuffers' \in Seq(Node) /\ Len(bgThreadBuffers') = n
        /\ \A k \in 1 .. n : bgThreadBuffers'[k] = bgThreadBuffers[p(k)]
    <3>1. /\ bgThreadBuffers' \in Seq(Node) /\ Len(bgThreadBuffers') = n
          /\ \A k \in 1 .. n :
               bgThreadBuffers'[k] = IF k = min THEN bgThreadBuffers[node]
                                     ELSE IF k = node THEN bgThreadBuffers[min] ELSE bgThreadBuffers[k]
      BY <1>1, <1>2, <1>4, NodesSwap
    <3> QED
      BY <3>1
  <2>2. DOMAIN bgThreadBuffers' = 1 .. n /\ DOMAIN bgThreadBuffers = 1 .. n
    BY <2>1, NodesType, ElementFacts
  <2>3. \A k \in 1 .. n : p(k) \in 1 .. n /\ p(p(k)) = k
    BY <1>1, <1>2
  <2> HIDE DEF p, n
  <2>4. Distinct'
    <3>1. ASSUME NEW i \in 1 .. n, NEW j \in 1 .. n, bgThreadBuffers'[i].tb = bgThreadBuffers'[j].tb
          PROVE  i = j
      <4>1. p(i) = p(j)
        BY <2>1, <2>2, <2>3, <3>1 DEF Distinct
      <4> QED
        BY <2>3, <4>1
    <3> QED
      BY <1>1, <2>1, <2>2, <2>3, <3>1 DEF Distinct
  <2>5. \A t : Listed(t)' <=> Listed(t)
    BY <1>1, <2>1, <2>2, <2>3 DEF Listed
  <2>6. Complete'
    BY <1>1, <2>5 DEF Complete
  <2>7. HeadersInv'
    BY <1>1, <2>1, <2>2, <2>3 DEF HeadersInv
  <2> QED
    BY <2>4, <2>6, <2>7
<1> QED
  BY <1>2, <1>3, <1>4 DEF AdjustHeap

\* The node whose buffer is deleted goes, the last one takes its place.
LEMMA DeleteNodes ==
  ASSUME TypeOK, PollerInv, Distinct, Complete, HeadersInv, DeleteEnded
  PROVE  Distinct' /\ Complete' /\ HeadersInv'
<1> USE DEF pollVars, infoVars, threadVars, bufVars, outVars, mainVars, PollGoes
<1> DEFINE n == Len(bgThreadBuffers)
<1>1. /\ UNCHANGED <<threadBuffers, varq>> /\ poller = "ended" /\ poller' # "next"
      /\ node \in 1 .. n /\ n \in Nat /\ n >= 1
  BY NodesType DEF DeleteEnded, PollerInv
<1>2. PICK tb : tb = bgThreadBuffers[node].tb
  OBVIOUS
<1>3. CASE UNCHANGED <<life, bgThreadBuffers>>
  BY <1>1, <1>3, SameNodes, SameHeaders
<1>4. CASE /\ life[tb] = "ended" /\ life' = [life EXCEPT ![tb] = "deleted"]
           /\ bgThreadBuffers' = Front([bgThreadBuffers EXCEPT ![node] = Last(bgThreadBuffers)])
  <2> DEFINE p(k) == IF k = node THEN n ELSE k
  <2>1. /\ bgThreadBuffers' \in Seq(Node) /\ Len(bgThreadBuffers') = n - 1
        /\ \A k \in 1 .. n - 1 : bgThreadBuffers'[k] = bgThreadBuffers[p(k)]
    <3>1. PICK w : w = Front([bgThreadBuffers EXCEPT ![node] = Last(bgThreadBuffers)])
      OBVIOUS
    <3>2. /\ w \in Seq(Node) /\ Len(w) = n - 1
          /\ \A j \in 1 .. Len(w) :
               w[j] = IF j = node THEN bgThreadBuffers[n] ELSE bgThreadBuffers[j]
      BY <1>1, <3>1, NodesType, FrontFacts
    <3>3. bgThreadBuffers' = w
      BY <1>4, <3>1
    <3> QED
      BY <3>2, <3>3
  <2>2. DOMAIN bgThreadBuffers' = 1 .. n - 1 /\ DOMAIN bgThreadBuffers = 1 .. n
    BY <2>1, NodesType, ElementFacts
  <2>3. /\ \A k \in 1 .. n - 1 : p(k) \in 1 .. n /\ p(k) # node
        /\ \A k, l \in 1 .. n - 1 : p(k) = p(l) => k = l
        /\ \A k \in 1 .. n : k # node => \E l \in 1 .. n - 1 : p(l) = k
    <3>1. ASSUME NEW k \in 1 .. n, k # node PROVE \E l \in 1 .. n - 1 : p(l) = k
      <4>1. CASE k = n
        <5>1. node \in 1 .. n - 1 /\ p(node) = k
          BY <1>1, <3>1, <4>1
        <5> QED
          BY <5>1
      <4>2. CASE k # n
        <5>1. k \in 1 .. n - 1 /\ p(k) = k
          BY <1>1, <3>1, <4>2
        <5> QED
          BY <5>1
      <4> QED
        BY <4>1, <4>2
    <3> QED
      BY <1>1, <3>1
  <2> HIDE DEF p, n
  <2>4. Distinct'
    <3>1. ASSUME NEW i \in 1 .. n - 1, NEW j \in 1 .. n - 1,
                 bgThreadBuffers'[i].tb = bgThreadBuffers'[j].tb
          PROVE  i = j
      <4>1. p(i) = p(j)
        BY <2>1, <2>2, <2>3, <3>1 DEF Distinct
      <4> QED
        BY <2>3, <4>1
    <3> QED
      BY <1>1, <2>1, <2>2, <2>3, <3>1 DEF Distinct
  <2>5. ASSUME NEW t PROVE Listed(t)' <=> Listed(t) /\ t # tb
    <3>1. ASSUME NEW i \in 1 .. n - 1, bgThreadBuffers'[i].tb = t PROVE Listed(t) /\ t # tb
      <4>1. bgThreadBuffers[p(i)].tb = t /\ p(i) \in 1 .. n /\ p(i) # node
        BY <2>1, <2>3, <3>1
      <4>2. bgThreadBuffers[p(i)].tb # bgThreadBuffers[node].tb
        BY <1>1, <2>2, <4>1 DEF Distinct
      <4> QED
        BY <1>2, <2>2, <4>1, <4>2 DEF Listed
    <3>2. ASSUME NEW i \in 1 .. n, bgThreadBuffers[i].tb = t, t # tb PROVE Listed(t)'
      <4>1. PICK l \in 1 .. n - 1 : p(l) = i
        BY <1>2, <2>3, <3>2
      <4>2. bgThreadBuffers'[l].tb = t
        BY <2>1, <3>2, <4>1
      <4> QED
        BY <2>2, <4>2 DEF Listed
    <3>3. ASSUME NEW j \in DOMAIN threadBuffers, threadBuffers[j] = t
          PROVE  t # tb /\ Listed(t) /\ Listed(t)'
      BY <1>1, <1>2, <2>2, <3>3 DEF Distinct, Listed
    <3> QED
      BY <1>1, <2>2, <3>1, <3>2, <3>3 DEF Listed
  <2>6. life' = [life EXCEPT ![tb] = "deleted"]
        /\ life \in [Threads -> {"none", "live", "ended", "deleted"}]
    BY <1>4 DEF TypeOK
  <2>7. Complete'
    BY <2>5, <2>6 DEF Complete
  <2>8. HeadersInv'
    BY <1>1, <2>1, <2>2, <2>3 DEF HeadersInv
  <2> QED
    BY <2>4, <2>7, <2>8
<1> QED
  BY <1>2, <1>3, <1>4 DEF DeleteEnded

LEMMA NodesStep == ASSUME IInv, [Next]_vars, TypeOK' PROVE NodesLive'
<1> USE DEF infoVars, threadVars, bufVars, mainVars, outVars, pollVars
<1>0. TypeOK /\ PollerInv /\ Distinct /\ Complete /\ HeadersInv
  BY NodesParts DEF IInv
<1>1. (NodesLive <=> Distinct /\ Complete /\ HeadersInv)'
  <2>1. TypeOK => (NodesLive <=> Distinct /\ Complete /\ HeadersInv)
    BY NodesParts
  <2> QED
    BY NodesParts, PTL
<1>2. ASSUME UNCHANGED <<bgThreadBuffers, threadBuffers, life, varq>>,
             poller' = poller \/ poller # "next"
      PROVE  Distinct' /\ Complete' /\ HeadersInv'
  BY <1>0, <1>2, SameNodes, SameHeaders
<1>3. ASSUME NEW t \in Threads, Thread(t) PROVE Distinct' /\ Complete' /\ HeadersInv'
  <2>1. CASE End(t)
    <3>1. /\ life[t] = "live" /\ life' = [life EXCEPT ![t] = "ended"]
          /\ UNCHANGED <<bgThreadBuffers, threadBuffers, varq, poller>>
      BY <2>1 DEF End
    <3>2. \A u \in Threads : life'[u] \in {"live", "ended"} <=> life[u] \in {"live", "ended"}
      BY <1>0, <3>1 DEF TypeOK
    <3> QED
      BY <1>0, <3>1, <3>2, SameNodes, SameHeaders
  <2> QED
    BY <1>0, <1>2, <1>3, <2>1, PreallocateNodes, PushNodes
    DEF Thread, Log, Register, EmplaceInfo, Discard
<1>4. ASSUME Poll PROVE Distinct' /\ Complete' /\ HeadersInv'
  BY <1>0, <1>2, <1>4, MoveNodes, ReadNodes, DeleteNodes, AdjustNodes, HandleNodes, NextHeaderNodes
  DEF Poll, PollGoes, ReadClock, MoveLogInfos, MakeHeap, EndPoll
<1>5. ASSUME PollAgain \/ Main \/ UNCHANGED vars PROVE Distinct' /\ Complete' /\ HeadersInv'
  BY <1>2, <1>5 DEF PollAgain, PollGoes, PollEnded, Main, Stop, Restart, Destroy, Close, vars
<1> QED
  BY <1>1, <1>3, <1>4, <1>5 DEF Next


-----------------------------------------------------------------------------
(* The heap *)

LEMMA EarlierFacts ==
  ASSUME NEW x \in Node, NEW y \in Node, NEW z \in Node
  PROVE  /\ ~Earlier(x, x)
         /\ Earlier(x, y) => ~Earlier(y, x)
         /\ Earlier(x, y) /\ Earlier(y, z) => Earlier(x, z)
         /\ ~Earlier(x, y) /\ ~Earlier(y, z) => ~Earlier(x, z)
<1>1. \A m \in Message : m.tsc \in Int
  BY ParametersAssumption DEF Message
<1>2. /\ x.header \in Message \/ x.header = None
      /\ y.header \in Message \/ y.header = None
      /\ z.header \in Message \/ z.header = None
  BY DEF Node
<1> QED
  BY <1>1, <1>2 DEF Earlier

\* The least of a node and its children goes before the others.
LEMMA LeastGoesFirst ==
  ASSUME NEW h \in Seq(Node), NEW i \in 1 .. Len(h)
  PROVE  /\ \A c \in 1 .. Len(h) : c \in {2 * i, 2 * i + 1} => ~Earlier(h[c], h[Least(h, i)])
         /\ Least(h, i) # i => Earlier(h[Least(h, i)], h[i])
<1> DEFINE first == IF 2 * i <= Len(h) /\ Earlier(h[2 * i], h[i]) THEN 2 * i ELSE i
<1>1. Least(h, i) = IF 2 * i + 1 <= Len(h) /\ Earlier(h[2 * i + 1], h[first]) THEN 2 * i + 1 ELSE first
  BY DEF Least
<1>2. \A k \in 1 .. Len(h) : h[k] \in Node
  BY ElementFacts
<1>3. first \in 1 .. Len(h) /\ Len(h) \in Nat /\ first \in {i, 2 * i}
  BY ElementFacts
<1>4. /\ first # i => Earlier(h[first], h[i])
      /\ 2 * i <= Len(h) => ~Earlier(h[2 * i], h[first])
  <2>1. 2 * i <= Len(h) => 2 * i \in 1 .. Len(h)
    OBVIOUS
  <2> QED
    BY <1>2, <2>1, EarlierFacts
<1> HIDE DEF first
<1>5. CASE 2 * i + 1 <= Len(h) /\ Earlier(h[2 * i + 1], h[first])
  <2>1. Least(h, i) = 2 * i + 1 /\ 2 * i + 1 \in 1 .. Len(h) /\ 2 * i \in 1 .. Len(h)
    BY <1>1, <1>3, <1>5
  <2>2. PICK a \in Node : a = h[2 * i]
    BY <1>2, <2>1
  <2>3. PICK b \in Node : b = h[2 * i + 1]
    BY <1>2, <2>1
  <2>4. PICK f \in Node : f = h[first]
    BY <1>2, <1>3
  <2>5. PICK r \in Node : r = h[i]
    BY <1>2
  <2>6. ~Earlier(a, f) /\ Earlier(b, f) /\ (f = r \/ Earlier(f, r))
    BY <1>3, <1>4, <1>5, <2>1, <2>2, <2>3, <2>4, <2>5
  <2>7. ~Earlier(a, b) /\ ~Earlier(b, b) /\ Earlier(b, r)
    BY <2>6, EarlierFacts
  <2> QED
    BY <2>1, <2>2, <2>3, <2>5, <2>7
<1>6. CASE ~(2 * i + 1 <= Len(h) /\ Earlier(h[2 * i + 1], h[first]))
  <2>1. Least(h, i) = first
    BY <1>1, <1>6
  <2> QED
    BY <1>3, <1>4, <1>6, <2>1
<1> QED
  BY <1>5, <1>6

LEMMA HalfFacts ==
  ASSUME NEW j \in Nat
  PROVE  /\ j \div 2 \in Nat /\ (j >= 1 => j \div 2 < j) /\ (j >= 2 => j \div 2 >= 1)
         /\ \A k \in Nat : j \div 2 = k <=> j \in {2 * k, 2 * k + 1}
         /\ \A k \in Nat : j <= k => j \div 2 <= k \div 2
OBVIOUS

\* A node that goes down leaves the heap in order above it.
LEMMA AdjustHeaped ==
  ASSUME NEW h \in Seq(Node), NEW i \in 1 .. Len(h), NEW r \in 1 .. i,
         NEW c \in 1 .. Len(h), c \in {2 * i, 2 * i + 1}, Earlier(h[c], h[i]),
         \A d \in 1 .. Len(h) : d \in {2 * i, 2 * i + 1} => ~Earlier(h[d], h[c]),
         \A j \in 2 .. Len(h) :
           /\ j \div 2 >= r /\ j \div 2 # i => ~Earlier(h[j], h[j \div 2])
           /\ j \div 2 = i /\ i \div 2 >= r => ~Earlier(h[j], h[i \div 2]),
         NEW g, \A k \in 1 .. Len(h) : g[k] = IF k = c THEN h[i] ELSE IF k = i THEN h[c] ELSE h[k]
  PROVE  \A j \in 2 .. Len(h) :
           /\ j \div 2 >= r /\ j \div 2 # c => ~Earlier(g[j], g[j \div 2])
           /\ j \div 2 = c /\ c \div 2 >= r => ~Earlier(g[j], g[c \div 2])
<1>1. /\ Len(h) \in Nat /\ i \in Nat /\ c \in Nat /\ c # i /\ c \div 2 = i /\ c >= 2 /\ i >= 1 /\ i >= r
      /\ r \in Nat /\ r >= 1
  BY ElementFacts, HalfFacts
<1> SUFFICES ASSUME NEW j \in 2 .. Len(h)
             PROVE  /\ j \div 2 >= r /\ j \div 2 # c => ~Earlier(g[j], g[j \div 2])
                    /\ j \div 2 = c /\ c \div 2 >= r => ~Earlier(g[j], g[c \div 2])
  OBVIOUS
<1>2. PICK p : p = j \div 2
  OBVIOUS
<1>3. /\ p \in 1 .. Len(h) /\ p < j /\ j \in 1 .. Len(h)
      /\ j \in {2 * p, 2 * p + 1}
  BY <1>1, <1>2, HalfFacts
<1>4. ASSUME p >= r, p # c PROVE ~Earlier(g[j], g[p])
  <2>1. CASE p = i /\ j = c
    <3>1. g[j] = h[i] /\ g[p] = h[c] /\ h[i] \in Node /\ h[c] \in Node
      BY <1>1, <1>3, <2>1, ElementFacts
    <3> QED
      BY <3>1, EarlierFacts
  <2>2. CASE p = i /\ j # c
    <3>1. g[j] = h[j] /\ g[p] = h[c]
      BY <1>1, <1>3, <2>2
    <3> QED
      BY <1>3, <2>2, <3>1
  <2>3. CASE p # i /\ j = i
    <3>1. g[j] = h[c] /\ g[p] = h[p] /\ p = i \div 2 /\ c \in 2 .. Len(h)
      BY <1>1, <1>2, <1>3, <1>4, <2>3
    <3> QED
      BY <1>1, <1>4, <3>1
  <2>4. CASE p # i /\ j # i
    <3>1. g[j] = h[j] /\ g[p] = h[p]
      BY <1>1, <1>2, <1>3, <1>4, <2>4
    <3> QED
      BY <1>2, <1>4, <2>4, <3>1
  <2> QED
    BY <2>1, <2>2, <2>3, <2>4
<1>5. ASSUME p = c PROVE ~Earlier(g[j], g[i])
  <2>1. g[j] = h[j] /\ g[i] = h[c] /\ c >= r
    BY <1>1, <1>2, <1>3, <1>5
  <2> QED
    BY <1>1, <1>2, <1>5, <2>1
<1> QED
  BY <1>1, <1>2, <1>4, <1>5


LEMMA InitHeap == Init => HeapInv
BY DEF Init, HeapInv

LEMMA AdjustHeapStep ==
  ASSUME TypeOK, PollerInv, HeapInv, AdjustHeap
  PROVE  HeapInv'
<1> DEFINE n == Len(bgThreadBuffers)
<1>1. /\ poller = "adjust" /\ node \in 1 .. n /\ root \in 1 .. node /\ n \in Nat /\ node \in Nat
      /\ bgThreadBuffers \in Seq(Node)
  BY NodesType DEF AdjustHeap, PollerInv, TypeOK
<1>2. PICK min \in 1 .. n : min = Least(bgThreadBuffers, node)
  BY <1>1, LeastFacts
<1>3. /\ min \in {node, 2 * node, 2 * node + 1}
      /\ \A c \in 1 .. n : c \in {2 * node, 2 * node + 1} => ~Earlier(bgThreadBuffers[c], bgThreadBuffers[min])
      /\ min # node => Earlier(bgThreadBuffers[min], bgThreadBuffers[node])
  BY <1>1, <1>2, LeastFacts, LeastGoesFirst
<1>4. \A j \in 2 .. n :
        /\ j \div 2 >= root /\ j \div 2 # node =>
             ~Earlier(bgThreadBuffers[j], bgThreadBuffers[j \div 2])
        /\ j \div 2 = node /\ node \div 2 >= root =>
             ~Earlier(bgThreadBuffers[j], bgThreadBuffers[node \div 2])
  BY <1>1 DEF HeapInv
<1>5. CASE min # node
  <2>1. /\ bgThreadBuffers' = Swap(bgThreadBuffers, node, min) /\ node' = min
        /\ root' = root /\ poller' = poller
    BY <1>2, <1>5 DEF AdjustHeap
  <2>2. PICK g : g = bgThreadBuffers'
    OBVIOUS
  <2>3. /\ Len(g) = n
        /\ \A k \in 1 .. n : g[k] = IF k = min THEN bgThreadBuffers[node]
                                    ELSE IF k = node THEN bgThreadBuffers[min] ELSE bgThreadBuffers[k]
    <3>1. /\ Len(bgThreadBuffers') = n
          /\ \A k \in 1 .. n :
               bgThreadBuffers'[k] = IF k = min THEN bgThreadBuffers[node]
                                     ELSE IF k = node THEN bgThreadBuffers[min] ELSE bgThreadBuffers[k]
      BY <1>1, <2>1, NodesSwap
    <3> QED
      BY <2>2, <3>1
  <2>4. PICK h \in Seq(Node) : h = bgThreadBuffers
    BY <1>1
  <2>5. PICK i \in 1 .. Len(h) : i = node
    BY <1>1, <2>4
  <2>6. PICK c \in 1 .. Len(h) : c = min
    BY <2>4
  <2>7. PICK r \in 1 .. i : r = root
    BY <1>1, <2>5
  <2>8. \A j \in 2 .. Len(h) :
           /\ j \div 2 >= r /\ j \div 2 # c => ~Earlier(g[j], g[j \div 2])
           /\ j \div 2 = c /\ c \div 2 >= r => ~Earlier(g[j], g[c \div 2])
    <3>1. c \in {2 * i, 2 * i + 1} /\ Earlier(h[c], h[i])
      BY <1>3, <1>5, <2>4, <2>5, <2>6
    <3>2. \A d \in 1 .. Len(h) : d \in {2 * i, 2 * i + 1} => ~Earlier(h[d], h[c])
      BY <1>3, <2>4, <2>5, <2>6
    <3>3. \A j \in 2 .. Len(h) :
             /\ j \div 2 >= r /\ j \div 2 # i => ~Earlier(h[j], h[j \div 2])
             /\ j \div 2 = i /\ i \div 2 >= r => ~Earlier(h[j], h[i \div 2])
      BY <1>4, <2>4, <2>5, <2>7
    <3>4. \A k \in 1 .. Len(h) : g[k] = IF k = c THEN h[i] ELSE IF k = i THEN h[c] ELSE h[k]
      BY <2>3, <2>4, <2>5, <2>6
    <3> QED
      BY <3>1, <3>2, <3>3, <3>4, AdjustHeaped
  <2> QED
    BY <1>1, <2>1, <2>2, <2>3, <2>4, <2>6, <2>7, <2>8 DEF HeapInv
<1>6. CASE min = node
  <2>1. /\ poller' = IF root = 1 THEN "handle" ELSE "adjust"
        /\ root' = root - 1 /\ node' = root' /\ bgThreadBuffers' = bgThreadBuffers
    BY <1>2, <1>6 DEF AdjustHeap
  <2>2. ASSUME NEW j \in 2 .. n, j \div 2 >= root
        PROVE  ~Earlier(bgThreadBuffers[j], bgThreadBuffers[j \div 2])
    <3>1. CASE j \div 2 = node
      <4>1. j \in {2 * node, 2 * node + 1} /\ j \in 1 .. n
        BY <1>1, <3>1, HalfFacts
      <4> QED
        BY <1>3, <1>6, <3>1, <4>1
    <3>2. CASE j \div 2 # node
      BY <1>4, <2>2, <3>2
    <3> QED
      BY <3>1, <3>2
  <2>3. CASE root = 1
    <3>1. \A j \in 2 .. n : j \div 2 >= root
      BY <1>1, <2>3, HalfFacts
    <3> QED
      BY <2>1, <2>2, <2>3, <3>1 DEF HeapInv
  <2>4. CASE root # 1
    <3>1. PICK r : r = root - 1
      OBVIOUS
    <3>2. r \in Nat /\ r >= 1 /\ r \div 2 < r /\ r \div 2 \in Nat
      BY <1>1, <2>4, <3>1, HalfFacts
    <3>3. \A j \in 2 .. n : j \div 2 \in Nat /\ (j \div 2 >= r /\ j \div 2 # r => j \div 2 >= root)
      BY <1>1, <3>1, HalfFacts
    <3>4. ~(r \div 2 >= r)
      BY <3>2
    <3> QED
      BY <2>1, <2>2, <2>4, <3>1, <3>3, <3>4 DEF HeapInv
  <2> QED
    BY <2>3, <2>4
<1> QED
  BY <1>5, <1>6

LEMMA HeapStep == ASSUME IInv, [Next]_vars PROVE HeapInv'
<1> USE DEF infoVars, threadVars, bufVars, mainVars, outVars, pollVars, PollGoes
<1>0. TypeOK /\ PollerInv /\ HeapInv
  BY DEF IInv
<1>1. CASE UNCHANGED <<poller, node, root, bgThreadBuffers>>
  BY <1>0, <1>1 DEF HeapInv
<1>2. CASE poller' \notin {"adjust", "handle", "next"}
  BY <1>2 DEF HeapInv
<1>3. CASE MakeHeap
  <2>1. CASE poller' = "adjust"
    <3>1. /\ root' = Len(bgThreadBuffers) \div 2 + 1 /\ node' = root'
          /\ bgThreadBuffers' = bgThreadBuffers
      BY <1>3, <2>1 DEF MakeHeap
    <3>2. PICK n : n = Len(bgThreadBuffers)
      OBVIOUS
    <3>3. n \in Nat
      BY <1>0, <3>2, NodesType
    <3>4. PICK r : r = n \div 2 + 1
      OBVIOUS
    <3>5. \A j \in 2 .. n : j \div 2 < r /\ j \div 2 \in Nat
      <4>1. n \div 2 \in Nat /\ r \in Nat /\ n \div 2 < r
        BY <3>3, <3>4, HalfFacts
      <4>2. \A j \in 2 .. n : j \in Nat /\ j <= n
        OBVIOUS
      <4>3. ASSUME NEW j \in 2 .. n PROVE j \div 2 < r /\ j \div 2 \in Nat
        <5>1. j \div 2 \in Nat /\ j \div 2 <= n \div 2
          BY <3>3, <4>2, HalfFacts
        <5> QED
          BY <4>1, <5>1
      <4> QED
        BY <4>3
    <3>6. r \in Nat /\ r \div 2 < r /\ r \div 2 \in Nat
      <4>1. r \in Nat /\ r >= 1
        BY <3>3, <3>4
      <4> QED
        BY <4>1, HalfFacts
    <3>7. /\ \A j \in 2 .. n : ~(j \div 2 >= r)
          /\ ~(r \div 2 >= r)
      BY <3>5, <3>6
    <3> QED
      BY <2>1, <3>1, <3>2, <3>4, <3>7 DEF HeapInv
  <2> QED
    BY <1>2, <1>3, <2>1 DEF MakeHeap
<1>4. CASE Handle
  BY <1>0, <1>4 DEF Handle, HeapInv
<1>5. CASE NextHeader
  <2>1. 1 \in 1 .. Len(bgThreadBuffers) /\ Len(bgThreadBuffers) \in Nat
    BY <1>0, <1>5, NodesType DEF NextHeader, PollerInv
  <2>2. PICK h : h = FrontOf(bgThreadBuffers[1].tb)
    OBVIOUS
  <2>3. /\ bgThreadBuffers' = [bgThreadBuffers EXCEPT ![1] = [bgThreadBuffers[1] EXCEPT !.header = h]]
        /\ root' = 1 /\ node' = 1 /\ poller' = "adjust" /\ poller = "next"
    BY <1>5, <2>2 DEF NextHeader
  <2>4. PICK x : x = [bgThreadBuffers[1] EXCEPT !.header = h]
    OBVIOUS
  <2>5. x \in Node
    BY <1>0, <2>1, <2>2, <2>4, NodesType, FrontOfType DEF Node
  <2>6. PICK b : b = [bgThreadBuffers EXCEPT ![1] = x]
    OBVIOUS
  <2>7. /\ Len(b) = Len(bgThreadBuffers)
        /\ \A j \in 1 .. Len(bgThreadBuffers) : b[j] = IF j = 1 THEN x ELSE bgThreadBuffers[j]
    BY <1>0, <2>1, <2>5, <2>6, NodesType, UpdateFacts
  <2>8. bgThreadBuffers' = b
    BY <2>3, <2>4, <2>6
  <2>9. ASSUME NEW j \in 2 .. Len(bgThreadBuffers), j \div 2 # 1
        PROVE  ~Earlier(b[j], b[j \div 2])
    <3>1. PICK p : p = j \div 2
      OBVIOUS
    <3>2. p \in 2 .. Len(bgThreadBuffers) /\ j # 1
      BY <2>1, <2>9, <3>1, HalfFacts
    <3>3. b[j] = bgThreadBuffers[j] /\ b[p] = bgThreadBuffers[p]
      BY <2>7, <3>2
    <3>4. ~Earlier(bgThreadBuffers[j], bgThreadBuffers[j \div 2])
      BY <1>0, <2>3 DEF HeapInv
    <3> QED
      BY <3>1, <3>3, <3>4
  <2>10. 1 \div 2 = 0
    OBVIOUS
  <2> QED
    BY <2>3, <2>7, <2>8, <2>9, <2>10 DEF HeapInv
<1>6. ASSUME NEW t \in Threads, Thread(t) PROVE HeapInv'
  BY <1>1, <1>6 DEF Thread, Log, Register, EmplaceInfo, Preallocate, Push, Discard, End
<1>7. ASSUME PollAgain \/ Main \/ UNCHANGED vars PROVE HeapInv'
  BY <1>1, <1>2, <1>7 DEF PollAgain, Main, Stop, Restart, Destroy, Close, vars
<1>8. ASSUME Poll PROVE HeapInv'
  BY <1>0, <1>2, <1>3, <1>4, <1>5, <1>8, AdjustHeapStep
  DEF Poll, ReadClock, MoveLogInfos, MoveThreadBuffers, ReadFront, DeleteEnded, EndPoll
<1> QED
  BY <1>6, <1>7, <1>8 DEF Next

\* Nothing in a heap goes before its root.
LEMMA RootGoesFirst ==
  ASSUME NEW h \in Seq(Node), \A j \in 2 .. Len(h) : ~Earlier(h[j], h[j \div 2])
  PROVE  \A j \in 1 .. Len(h) : ~Earlier(h[j], h[1])
<1> DEFINE B == {j \in 1 .. Len(h) : Earlier(h[j], h[1])}
<1> SUFFICES ASSUME B # {} PROVE FALSE
  OBVIOUS
<1>1. Len(h) \in Nat /\ \A j \in 1 .. Len(h) : h[j] \in Node
  BY ElementFacts
<1> DEFINE R == {ss \in Nat \X Nat : ss[1] < ss[2]}
<1>2. PICK j \in B : \A k \in B : <<k, j>> \notin R
  <2>1. IsWellFoundedOn(R, Nat)
    BY NatLessThanWellFounded DEF OpToRel
  <2>2. B \subseteq Nat
    BY <1>1
  <2> HIDE DEF B, R
  <2> QED
    BY <2>1, <2>2, WFMin
<1>3. j \in 1 .. Len(h) /\ Earlier(h[j], h[1]) /\ 1 \in 1 .. Len(h)
  BY <1>1
<1>4. j \in 2 .. Len(h)
  BY <1>1, <1>3, EarlierFacts
<1>5. PICK p : p = j \div 2
  OBVIOUS
<1>6. p \in 1 .. Len(h) /\ p < j /\ p \in Nat /\ j \in Nat
  BY <1>1, <1>4, <1>5, HalfFacts
<1>7. ~Earlier(h[p], h[1])
  <2>1. <<p, j>> \in R
    BY <1>6
  <2> QED
    BY <1>2, <1>6, <2>1
<1>8. ~Earlier(h[j], h[p])
  BY <1>4, <1>5
<1> QED
  BY <1>1, <1>3, <1>6, <1>7, <1>8, EarlierFacts


-----------------------------------------------------------------------------
(* The messages of a thread *)

LEMMA QueueType ==
  ASSUME TypeOK
  PROVE  /\ \A t \in Threads : /\ varq[t] \in Seq(Message) /\ Len(varq[t]) \in Nat
                               /\ DOMAIN varq[t] = 1 .. Len(varq[t])
                               /\ \A i \in 1 .. Len(varq[t]) : varq[t][i] \in Message
         /\ \A m \in Message : m.tsc \in Nat /\ m.tsc >= 1 /\ m.from \in Threads
         /\ Handled \in Seq(Message) /\ Len(Handled) \in Nat /\ DOMAIN Handled = 1 .. Len(Handled)
         /\ \A k \in 1 .. Len(Handled) : Handled[k] \in Message
         /\ clock \in Nat
<1>1. \A t \in Threads : varq[t] \in Seq(Message)
  BY DEF TypeOK
<1>2. \A m \in Message : m.tsc \in Nat /\ m.tsc >= 1 /\ m.from \in Threads
  BY ParametersAssumption DEF Message
<1>3. clock \in Nat
  BY ParametersAssumption DEF TypeOK
<1>4. Handled \in Seq(Message)
  BY HandledType
<1>5. /\ Len(Handled) \in Nat /\ DOMAIN Handled = 1 .. Len(Handled)
      /\ \A k \in 1 .. Len(Handled) : Handled[k] \in Message
  BY <1>4, ElementFacts
<1>6. \A t \in Threads : /\ Len(varq[t]) \in Nat /\ DOMAIN varq[t] = 1 .. Len(varq[t])
                         /\ \A i \in 1 .. Len(varq[t]) : varq[t][i] \in Message
  BY <1>1, ElementFacts
<1> QED
  BY <1>1, <1>2, <1>3, <1>4, <1>5, <1>6

\* The effects of a step on the messages: a message is pushed...
LEMMA PushEffect ==
  ASSUME TypeOK, NEW t \in Threads, Push(t)
  PROVE  /\ msg[t] \in Message /\ Waiting(t) /\ ~Waiting(t)'
         /\ Len(varq'[t]) = Len(varq[t]) + 1 /\ DOMAIN varq'[t] = 1 .. Len(varq[t]) + 1
         /\ \A i \in 1 .. Len(varq[t]) : varq'[t][i] = varq[t][i]
         /\ varq'[t][Len(varq[t]) + 1] = msg[t]
         /\ \A u \in Threads \ {t} : /\ varq'[u] = varq[u] /\ msg'[u] = msg[u]
                                     /\ Waiting(u)' <=> Waiting(u)
         /\ clock' = clock /\ Handled' = Handled
<1>1. PICK m : m = msg[t]
  OBVIOUS
<1>2. /\ pc[t] = "push" /\ pc' = [pc EXCEPT ![t] = "idle"]
      /\ varq' = [varq EXCEPT ![t] = Append(@, m)] /\ msg' = [msg EXCEPT ![t] = None]
      /\ clock' = clock /\ UNCHANGED <<file, membuf>>
  BY <1>1 DEF Push, ThreadGoes, outVars
<1>3. m \in Message
  BY <1>1, <1>2 DEF TypeOK
<1>4. /\ pc \in [Threads -> {"idle", "register", "emplace", "push", "ended"}]
      /\ msg \in [Threads -> Message \cup {None}] /\ varq \in [Threads -> Seq(Message)]
  BY DEF TypeOK
<1>5. varq'[t] = Append(varq[t], m) /\ varq[t] \in Seq(Message)
  BY <1>2, <1>4
<1>6. /\ varq'[t] \in Seq(Message) /\ Len(varq'[t]) = Len(varq[t]) + 1
      /\ \A i \in 1 .. Len(varq[t]) : varq'[t][i] = varq[t][i]
      /\ varq'[t][Len(varq[t]) + 1] = m
  BY <1>3, <1>5, AppendFacts
<1>7. DOMAIN varq'[t] = 1 .. Len(varq[t]) + 1
  BY <1>6, ElementFacts
<1>8. pc'[t] = "idle" /\ \A u \in Threads \ {t} : pc'[u] = pc[u]
  BY <1>2, <1>4
<1>9. /\ Waiting(t) /\ ~Waiting(t)' /\ \A u \in Threads \ {t} : Waiting(u)' <=> Waiting(u)
  BY <1>2, <1>8 DEF Waiting
<1>10. \A u \in Threads \ {t} : varq'[u] = varq[u] /\ msg'[u] = msg[u]
  BY <1>2, <1>4
<1> QED
  BY <1>1, <1>2, <1>3, <1>6, <1>7, <1>9, <1>10 DEF Handled

\* ... or discarded, when the queue has no room for it, ...
LEMMA DiscardEffect ==
  ASSUME TypeOK, NEW t \in Threads, Discard(t)
  PROVE  /\ msg[t] \in Message /\ Waiting(t) /\ ~Waiting(t)'
         /\ \A u \in Threads \ {t} : msg'[u] = msg[u] /\ (Waiting(u)' <=> Waiting(u))
         /\ clock' = clock /\ varq' = varq /\ Handled' = Handled
         /\ discarded' = discarded \cup {msg[t].tsc}
<1>1. /\ pc[t] = "push" /\ pc' = [pc EXCEPT ![t] = "idle"]
      /\ msg' = [msg EXCEPT ![t] = None]
      /\ clock' = clock /\ varq' = varq /\ UNCHANGED <<file, membuf>>
      /\ discarded' = discarded \cup {msg[t].tsc}
  BY DEF Discard, ThreadGoes, outVars, bufVars
<1>2. /\ pc \in [Threads -> {"idle", "register", "emplace", "push", "ended"}]
      /\ msg \in [Threads -> Message \cup {None}] /\ msg[t] \in Message
  BY <1>1 DEF TypeOK
<1>3. pc'[t] = "idle" /\ \A u \in Threads \ {t} : pc'[u] = pc[u] /\ msg'[u] = msg[u]
  BY <1>1, <1>2
<1> QED
  BY <1>1, <1>2, <1>3 DEF Waiting, Handled

\* ... or handled, and taken from its queue.
LEMMA HandleEffect ==
  ASSUME TypeOK, PollerInv, NodesLive, Handle
  PROVE  LET t == bgThreadBuffers[1].tb
         IN  /\ t \in Threads /\ Candidate \in Message /\ Len(varq[t]) \in Nat \ {0}
             /\ Candidate = varq[t][1]
             /\ DOMAIN varq'[t] = 1 .. Len(varq[t]) - 1
             /\ \A i \in 1 .. Len(varq[t]) - 1 : varq'[t][i] = varq[t][i + 1]
             /\ \A u \in Threads \ {t} : varq'[u] = varq[u]
             /\ Len(Handled') = Len(Handled) + 1 /\ DOMAIN Handled' = 1 .. Len(Handled) + 1
             /\ \A k \in 1 .. Len(Handled) : Handled'[k] = Handled[k]
             /\ Handled'[Len(Handled) + 1] = Candidate
             /\ UNCHANGED <<clock, pc, msg>>
<1>1. PICK t : t = bgThreadBuffers[1].tb
  OBVIOUS
<1>2. PICK c : c = Candidate
  OBVIOUS
<1>3. /\ c \in Message /\ t \in Threads /\ varq[t] # << >> /\ c = Head(varq[t])
  BY <1>1, <1>2, CandidateType, HeaderInFront DEF Handle, PollGoes, PollerInv
<1>4. /\ varq' = [varq EXCEPT ![t] = Tail(@)] /\ varq \in [Threads -> Seq(Message)]
      /\ UNCHANGED <<clock, pc, msg>>
  BY <1>1 DEF Handle, TypeOK, threadVars
<1>5. /\ varq'[t] = Tail(varq[t]) /\ varq[t] \in Seq(Message)
      /\ \A u \in Threads \ {t} : varq'[u] = varq[u]
  BY <1>3, <1>4
<1>6. /\ Len(varq[t]) \in Nat \ {0} /\ c = varq[t][1] /\ varq'[t] \in Seq(Message)
      /\ Len(varq'[t]) = Len(varq[t]) - 1
      /\ \A i \in 1 .. Len(varq'[t]) : varq'[t][i] = varq[t][i + 1]
  BY <1>3, <1>5, TailFacts
<1>7. DOMAIN varq'[t] = 1 .. Len(varq'[t])
  BY <1>6, ElementFacts
<1>8. Handled' = Append(Handled, c) /\ Handled \in Seq(Message)
  BY <1>2, HandleHandled, HandledType
<1>9. /\ Handled' \in Seq(Message) /\ Len(Handled') = Len(Handled) + 1
      /\ \A k \in 1 .. Len(Handled) : Handled'[k] = Handled[k]
      /\ Handled'[Len(Handled) + 1] = c
  BY <1>3, <1>8, AppendFacts
<1>10. DOMAIN Handled' = 1 .. Len(Handled')
  BY <1>9, ElementFacts
<1> QED
  BY <1>1, <1>2, <1>3, <1>4, <1>5, <1>6, <1>7, <1>9, <1>10

\* A log statement is begun.
LEMMA LogEffect ==
  ASSUME TypeOK, NEW t \in Threads, NEW site \in Sites \cup {Once}, Log(t, site)
  PROVE  /\ ~Waiting(t) /\ msg'[t].from = t /\ msg'[t].tsc = clock + 1 /\ Waiting(t)'
         /\ clock' = clock + 1 /\ varq' = varq /\ Handled' = Handled
         /\ \A u \in Threads \ {t} : msg'[u] = msg[u] /\ (Waiting(u)' <=> Waiting(u))
<1>1. PICK id : id = IF site = Once THEN 0 ELSE logId[site]
  OBVIOUS
<1>2. PICK s \in {"register", "push"} : pc' = [pc EXCEPT ![t] = s] /\ pc[t] = "idle"
  BY DEF Log, ThreadGoes
<1>3. PICK m : m = [from |-> t, site |-> site, tsc |-> clock + 1, logId |-> id]
  OBVIOUS
<1>4. msg' = [msg EXCEPT ![t] = m] /\ clock' = clock + 1 /\ varq' = varq /\ Handled' = Handled
  BY <1>1, <1>3 DEF Log, bufVars, outVars, Handled
<1>5. /\ pc \in [Threads -> {"idle", "register", "emplace", "push", "ended"}]
      /\ msg \in [Threads -> Message \cup {None}]
  BY DEF TypeOK
<1>6. /\ pc'[t] = s /\ msg'[t] = m /\ \A u \in Threads \ {t} : msg'[u] = msg[u] /\ pc'[u] = pc[u]
  BY <1>2, <1>4, <1>5
<1>7. m.from = t /\ m.tsc = clock + 1
  BY <1>3
<1> QED
  BY <1>2, <1>4, <1>6, <1>7 DEF Waiting

\* No other step changes what the messages of a thread are.
MessagesKept ==
  /\ clock' = clock /\ varq' = varq /\ Handled' = Handled
  /\ \A t \in Threads : /\ Waiting(t)' <=> Waiting(t)
                        /\ Waiting(t) => msg'[t].from = msg[t].from /\ msg'[t].tsc = msg[t].tsc

LEMMA OtherEffect ==
  ASSUME TypeOK, [Next]_vars, ~Handle, \A t \in Threads : ~Push(t) /\ ~Discard(t),
         \A t \in Threads : \A site \in Sites \cup {Once} : ~Log(t, site)
  PROVE  MessagesKept
<1> USE DEF infoVars, threadVars, bufVars, mainVars, outVars, pollVars
<1>1. Handled' = Handled
  BY HandledKept
<1>2. CASE UNCHANGED <<clock, varq, pc, msg>>
  BY <1>1, <1>2 DEF MessagesKept, Waiting
<1>a. pc \in [Threads -> {"idle", "register", "emplace", "push", "ended"}]
      /\ msg \in [Threads -> Message \cup {None}]
  BY DEF TypeOK
<1>3. ASSUME NEW t \in Threads, Thread(t) PROVE MessagesKept
  <2>1. CASE Register(t)
    <3>1. PICK n : n = logId'[msg[t].site]
      OBVIOUS
    <3>2. PICK s \in {"emplace", "push"} : pc' = [pc EXCEPT ![t] = s] /\ pc[t] = "register"
      BY <2>1 DEF Register, ThreadGoes
    <3>3. /\ msg' = [msg EXCEPT ![t].logId = n] /\ clock' = clock /\ varq' = varq
      BY <2>1, <3>1 DEF Register, WithId
    <3>4. msg[t] \in Message
      BY <3>2 DEF TypeOK
    <3>5. msg'[t].from = msg[t].from /\ msg'[t].tsc = msg[t].tsc
      BY <1>a, <3>3, <3>4 DEF Message
    <3>6. /\ pc'[t] = s /\ \A u \in Threads \ {t} : pc'[u] = pc[u] /\ msg'[u] = msg[u]
      BY <1>a, <3>2, <3>3
    <3> QED
      BY <1>1, <3>2, <3>3, <3>5, <3>6 DEF MessagesKept, Waiting
  <2>2. CASE EmplaceInfo(t)
    BY <1>1, <1>a, <2>2 DEF EmplaceInfo, ThreadGoes, MessagesKept, Waiting
  <2>3. CASE Preallocate(t)
    BY <1>2, <2>3 DEF Preallocate
  <2>4. CASE End(t)
    BY <1>1, <1>a, <2>4 DEF End, ThreadGoes, MessagesKept, Waiting
  <2> QED
    BY <1>3, <2>1, <2>2, <2>3, <2>4 DEF Thread
<1>4. ASSUME PollAgain \/ Main \/ UNCHANGED vars PROVE MessagesKept
  BY <1>2, <1>4 DEF PollAgain, Main, Stop, Restart, Destroy, Close, vars
<1>5. ASSUME Poll PROVE MessagesKept
  BY <1>2, <1>5 DEF Poll, ReadClock, MoveLogInfos, MoveThreadBuffers, ReadFront, DeleteEnded,
     MakeHeap, AdjustHeap, NextHeader, EndPoll
<1> QED
  BY <1>3, <1>4, <1>5 DEF Next


LEMMA InitOrder == Init => OrderInv /\ TakenInv
<1> SUFFICES ASSUME Init PROVE OrderInv /\ TakenInv
  OBVIOUS
<1>1. Handled = << >> /\ \A t \in Threads : varq[t] = << >> /\ ~Waiting(t)
  BY DEF Init, Handled, Waiting
<1>2. DOMAIN Handled = {} /\ \A t \in Threads : DOMAIN varq[t] = {}
  BY <1>1
<1> QED
  BY <1>1, <1>2 DEF OrderInv, ThreadOrder, TakenInv, Init

\* The parts of OrderInv
LEMMA OrderParts ==
  ASSUME OrderInv
  PROVE  /\ \A t \in Threads : Waiting(t) => msg[t].from = t /\ msg[t].tsc <= clock
         /\ \A t \in Threads : \A i \in DOMAIN varq[t] :
              /\ varq[t][i].from = t /\ varq[t][i].tsc <= clock
              /\ \A j \in DOMAIN varq[t] : i < j => varq[t][i].tsc < varq[t][j].tsc
              /\ Waiting(t) => varq[t][i].tsc < msg[t].tsc
         /\ \A k \in DOMAIN Handled :
              /\ Handled[k].tsc <= clock
              /\ \A i \in DOMAIN varq[Handled[k].from] : Handled[k].tsc < varq[Handled[k].from][i].tsc
              /\ Waiting(Handled[k].from) => Handled[k].tsc < msg[Handled[k].from].tsc
         /\ \A i, j \in DOMAIN Handled :
              i < j /\ Handled[i].from = Handled[j].from => Handled[i].tsc < Handled[j].tsc
BY DEF OrderInv, ThreadOrder

LEMMA PushOrder ==
  ASSUME TypeOK, OrderInv, NEW t \in Threads, Push(t)
  PROVE  OrderInv'
<1> DEFINE n == Len(varq[t])
<1>1. /\ msg[t] \in Message /\ Waiting(t) /\ ~Waiting(t)'
      /\ Len(varq'[t]) = n + 1 /\ DOMAIN varq'[t] = 1 .. n + 1
      /\ \A i \in 1 .. n : varq'[t][i] = varq[t][i]
      /\ varq'[t][n + 1] = msg[t]
      /\ \A u \in Threads \ {t} : /\ varq'[u] = varq[u] /\ msg'[u] = msg[u]
                                  /\ Waiting(u)' <=> Waiting(u)
      /\ clock' = clock /\ Handled' = Handled
  BY PushEffect
<1>2. n \in Nat /\ DOMAIN varq[t] = 1 .. n /\ \A k \in DOMAIN Handled : Handled[k].from \in Threads
  BY QueueType
<1> HIDE DEF n
<1>3. \A i \in 1 .. n + 1 : i \in 1 .. n \/ i = n + 1
  BY <1>2
<1>4. \A i \in 1 .. n : ~(n + 1 < i) /\ ~(n + 1 < n + 1)
  BY <1>2
<1>5. \A u \in Threads : Waiting(u)' => u # t /\ msg'[u].from = u /\ msg'[u].tsc <= clock'
  BY <1>1, OrderParts
<1>6. ASSUME NEW u \in Threads, NEW i \in DOMAIN varq'[u]
      PROVE  /\ varq'[u][i].from = u /\ varq'[u][i].tsc <= clock'
             /\ \A j \in DOMAIN varq'[u] : i < j => varq'[u][i].tsc < varq'[u][j].tsc
             /\ Waiting(u)' => varq'[u][i].tsc < msg'[u].tsc
  <2>1. CASE u # t
    BY <1>1, <1>6, <2>1, OrderParts
  <2>2. CASE u = t /\ i \in 1 .. n
    <3>1. /\ varq'[t][i] = varq[t][i] /\ i \in DOMAIN varq[t] /\ ~Waiting(t)'
          /\ varq[t][i].from = t /\ varq[t][i].tsc <= clock
          /\ varq[t][i].tsc < msg[t].tsc
      BY <1>1, <1>2, <2>2, OrderParts
    <3>2. ASSUME NEW j \in DOMAIN varq'[t], i < j PROVE varq'[t][i].tsc < varq'[t][j].tsc
      <4>1. CASE j = n + 1
        BY <1>1, <3>1, <4>1
      <4>2. CASE j \in 1 .. n
        BY <1>1, <1>2, <3>1, <3>2, <4>2, OrderParts
      <4> QED
        BY <1>1, <1>3, <4>1, <4>2
    <3> QED
      BY <1>1, <2>2, <3>1, <3>2
  <2>3. CASE u = t /\ i = n + 1
    BY <1>1, <1>2, <1>3, <1>4, <1>6, <2>3, OrderParts
  <2> QED
    BY <1>1, <1>3, <1>6, <2>1, <2>2, <2>3
<1>7. ASSUME NEW k \in DOMAIN Handled, NEW u \in Threads, u = Handled[k].from
      PROVE  /\ Handled[k].tsc <= clock
             /\ \A i \in DOMAIN varq'[u] : Handled[k].tsc < varq'[u][i].tsc
             /\ Waiting(u)' => Handled[k].tsc < msg'[u].tsc
  <2>1. CASE u # t
    BY <1>1, <1>7, <2>1, OrderParts
  <2>2. CASE u = t
    <3>1. /\ Handled[k].tsc <= clock /\ Handled[k].tsc < msg[t].tsc
          /\ \A i \in 1 .. n : Handled[k].tsc < varq[t][i].tsc
      <4>1. /\ Handled[k].tsc <= clock
            /\ \A i \in DOMAIN varq[Handled[k].from] : Handled[k].tsc < varq[Handled[k].from][i].tsc
            /\ Waiting(Handled[k].from) => Handled[k].tsc < msg[Handled[k].from].tsc
        BY OrderParts
      <4>2. Handled[k].from = t
        BY <1>7, <2>2
      <4> QED
        BY <1>1, <1>2, <4>1, <4>2
    <3>2. \A i \in 1 .. n + 1 : Handled[k].tsc < varq'[t][i].tsc
      BY <1>1, <1>3, <3>1
    <3> QED
      BY <1>1, <2>2, <3>1, <3>2
  <2> QED
    BY <2>1, <2>2
<1>8. \A k \in DOMAIN Handled' : Handled'[k].from \in Threads
  BY <1>1, <1>2
<1>9. ThreadOrder'
  BY <1>1, OrderParts DEF ThreadOrder
<1>10. (\A k \in DOMAIN Handled : LET u == Handled[k].from IN
          /\ Handled[k].tsc <= clock
          /\ \A i \in DOMAIN varq[u] : Handled[k].tsc < varq[u][i].tsc
          /\ Waiting(u) => Handled[k].tsc < msg[u].tsc)'
  <2>1. clock' = clock /\ Handled' = Handled
    BY <1>1
  <2> QED
    BY <1>7, <1>8, <2>1
<1> QED
  BY <1>5, <1>6, <1>9, <1>10 DEF OrderInv

LEMMA DiscardOrder ==
  ASSUME TypeOK, OrderInv, NEW t \in Threads, Discard(t)
  PROVE  OrderInv'
<1>1. /\ ~Waiting(t)' /\ clock' = clock /\ varq' = varq /\ Handled' = Handled
      /\ \A u \in Threads \ {t} : msg'[u] = msg[u] /\ (Waiting(u)' <=> Waiting(u))
  BY DiscardEffect
<1>2. \A k \in DOMAIN Handled : Handled[k].from \in Threads
  BY QueueType
<1>3. \A u \in Threads : Waiting(u)' => Waiting(u) /\ msg'[u] = msg[u]
  BY <1>1
<1>4. ThreadOrder'
  BY <1>1, OrderParts DEF ThreadOrder
<1> QED
  BY <1>1, <1>2, <1>3, <1>4, OrderParts DEF OrderInv

LEMMA HandleOrder ==
  ASSUME TypeOK, PollerInv, NodesLive, OrderInv, Handle
  PROVE  OrderInv'
<1>1. PICK t \in Threads : t = bgThreadBuffers[1].tb
  BY HandleEffect
<1>2. PICK c \in Message : c = Candidate
  BY HandleEffect
<1> DEFINE n == Len(varq[t])
           m == Len(Handled)
<1>3. /\ n \in Nat /\ n >= 1 /\ c = varq[t][1]
      /\ DOMAIN varq'[t] = 1 .. n - 1
      /\ \A i \in 1 .. n - 1 : varq'[t][i] = varq[t][i + 1]
      /\ \A u \in Threads \ {t} : varq'[u] = varq[u]
      /\ Len(Handled') = m + 1 /\ DOMAIN Handled' = 1 .. m + 1
      /\ \A k \in 1 .. m : Handled'[k] = Handled[k]
      /\ Handled'[m + 1] = c
      /\ UNCHANGED <<clock, pc, msg>>
  BY <1>1, <1>2, HandleEffect
<1>4. /\ DOMAIN varq[t] = 1 .. n /\ DOMAIN Handled = 1 .. m /\ m \in Nat
      /\ \A k \in 1 .. m : Handled[k].from \in Threads
  BY QueueType
<1> HIDE DEF n, m
<1>5. /\ \A i \in 1 .. m + 1 : i \in 1 .. m \/ i = m + 1
      /\ \A i \in 1 .. m : ~(m + 1 < i) /\ ~(m + 1 < m + 1)
      /\ \A i \in 1 .. n - 1 : i + 1 \in 1 .. n /\ 1 < i + 1 /\ i < i + 1
      /\ \A i, j \in 1 .. n - 1 : i < j => i + 1 < j + 1
      /\ 1 \in 1 .. n
  BY <1>3, <1>4
<1>6. \A u \in Threads : Waiting(u)' <=> Waiting(u)
  BY <1>3 DEF Waiting
<1>7. /\ \A i \in 1 .. n :
           /\ varq[t][i].from = t /\ varq[t][i].tsc <= clock
           /\ \A j \in 1 .. n : i < j => varq[t][i].tsc < varq[t][j].tsc
           /\ Waiting(t) => varq[t][i].tsc < msg[t].tsc
      /\ c.from = t /\ c.tsc <= clock
  <2>1. \A i \in 1 .. n :
           /\ varq[t][i].from = t /\ varq[t][i].tsc <= clock
           /\ \A j \in 1 .. n : i < j => varq[t][i].tsc < varq[t][j].tsc
           /\ Waiting(t) => varq[t][i].tsc < msg[t].tsc
    BY <1>4, OrderParts
  <2> QED
    BY <1>3, <1>5, <2>1
<1>a. \A k \in 1 .. m : \A u \in Threads : Handled[k].from = u =>
        /\ Handled[k].tsc <= clock
        /\ \A i \in DOMAIN varq[u] : Handled[k].tsc < varq[u][i].tsc
        /\ Waiting(u) => Handled[k].tsc < msg[u].tsc
  <2>1. \A k \in 1 .. m : k \in DOMAIN Handled
    BY <1>4
  <2> QED
    BY <2>1, OrderParts
<1>8. ASSUME NEW u \in Threads, NEW i \in DOMAIN varq'[u]
      PROVE  /\ varq'[u][i].from = u /\ varq'[u][i].tsc <= clock'
             /\ \A j \in DOMAIN varq'[u] : i < j => varq'[u][i].tsc < varq'[u][j].tsc
             /\ Waiting(u)' => varq'[u][i].tsc < msg'[u].tsc
  <2>1. CASE u # t
    BY <1>3, <1>6, <1>8, <2>1, OrderParts
  <2>2. CASE u = t
    <3>1. i \in 1 .. n - 1 /\ i + 1 \in 1 .. n /\ varq'[t][i] = varq[t][i + 1]
      BY <1>3, <1>5, <1>8, <2>2
    <3>2. /\ varq'[t][i].from = t /\ varq'[t][i].tsc <= clock
          /\ Waiting(t) => varq'[t][i].tsc < msg[t].tsc
      BY <1>7, <3>1
    <3>3. ASSUME NEW j \in 1 .. n - 1, i < j PROVE varq'[t][i].tsc < varq'[t][j].tsc
      <4>1. j + 1 \in 1 .. n /\ i + 1 < j + 1 /\ varq'[t][j] = varq[t][j + 1]
        BY <1>3, <1>5, <3>1, <3>3
      <4> QED
        BY <1>7, <3>1, <4>1
    <3> QED
      BY <1>3, <1>6, <2>2, <3>2, <3>3
  <2> QED
    BY <2>1, <2>2
<1>9. ASSUME NEW k \in 1 .. m + 1, NEW u \in Threads, u = Handled'[k].from
      PROVE  /\ Handled'[k].tsc <= clock'
             /\ \A i \in DOMAIN varq'[u] : Handled'[k].tsc < varq'[u][i].tsc
             /\ Waiting(u)' => Handled'[k].tsc < msg'[u].tsc
  <2>1. CASE k \in 1 .. m /\ u # t
    <3>1. /\ Handled'[k] = Handled[k] /\ Handled[k].from = u
          /\ varq'[u] = varq[u] /\ msg' = msg /\ clock' = clock
      BY <1>3, <1>9, <2>1
    <3>2. /\ Handled[k].tsc <= clock
          /\ \A i \in DOMAIN varq[u] : Handled[k].tsc < varq[u][i].tsc
          /\ Waiting(u) => Handled[k].tsc < msg[u].tsc
      BY <1>a, <2>1, <3>1
    <3> QED
      BY <1>6, <3>1, <3>2
  <2>2. CASE k \in 1 .. m /\ u = t
    <3>1. /\ Handled'[k] = Handled[k] /\ Handled[k].tsc <= clock
          /\ \A i \in 1 .. n : Handled[k].tsc < varq[t][i].tsc
          /\ Waiting(t) => Handled[k].tsc < msg[t].tsc
      BY <1>3, <1>4, <1>9, <1>a, <2>2
    <3>2. \A i \in 1 .. n - 1 : Handled[k].tsc < varq'[t][i].tsc
      BY <1>3, <1>5, <3>1
    <3> QED
      BY <1>3, <1>6, <2>2, <3>1, <3>2
  <2>3. CASE k = m + 1
    <3>1. u = t /\ Handled'[k] = c
      BY <1>3, <1>7, <1>9, <2>3
    <3>2. \A i \in 1 .. n - 1 : c.tsc < varq'[t][i].tsc
      BY <1>3, <1>5, <1>7
    <3>3. Waiting(t) => c.tsc < msg[t].tsc
      BY <1>3, <1>5, <1>7
    <3> QED
      BY <1>3, <1>6, <1>7, <3>1, <3>2, <3>3
  <2> QED
    BY <1>5, <2>1, <2>2, <2>3
<1>10. \A k \in 1 .. m + 1 : Handled'[k].from \in Threads
  BY <1>3, <1>4, <1>5, <1>7
<1>11. ASSUME NEW i \in 1 .. m + 1, NEW j \in 1 .. m + 1, i < j, Handled'[i].from = Handled'[j].from
       PROVE  Handled'[i].tsc < Handled'[j].tsc
  <2>1. i \in 1 .. m
    BY <1>4, <1>11
  <2>2. CASE j \in 1 .. m
    BY <1>3, <1>4, <1>11, <2>1, <2>2, OrderParts
  <2>3. CASE j = m + 1
    <3>1. Handled'[j] = varq[t][1] /\ Handled'[i] = Handled[i] /\ Handled[i].from = t
      BY <1>3, <1>7, <1>11, <2>1, <2>3
    <3> QED
      BY <1>4, <1>5, <1>a, <2>1, <3>1
  <2> QED
    BY <1>5, <2>2, <2>3
<1> QED
  BY <1>3, <1>6, <1>8, <1>9, <1>10, <1>11, OrderParts DEF OrderInv, ThreadOrder

LEMMA OrderStep == ASSUME IInv, [Next]_vars PROVE OrderInv'
<1>0. TypeOK /\ PollerInv /\ NodesLive /\ OrderInv
  BY DEF IInv
<1>1. ASSUME NEW t \in Threads, NEW site \in Sites \cup {Once}, Log(t, site) PROVE OrderInv'
  <2>1. /\ ~Waiting(t) /\ msg'[t].from = t /\ msg'[t].tsc = clock + 1 /\ Waiting(t)'
        /\ clock' = clock + 1 /\ varq' = varq /\ Handled' = Handled
        /\ \A u \in Threads \ {t} : msg'[u] = msg[u] /\ (Waiting(u)' <=> Waiting(u))
    BY <1>0, <1>1, LogEffect
  <2>2. /\ clock \in Nat /\ \A u \in Threads : \A i \in DOMAIN varq[u] : varq[u][i].tsc \in Nat
        /\ \A k \in DOMAIN Handled : Handled[k].tsc \in Nat /\ Handled[k].from \in Threads
    BY <1>0, QueueType
  <2>3. \A u \in Threads : Waiting(u) => msg[u].tsc \in Nat
    <3>1. \A u \in Threads : Waiting(u) => msg[u] \in Message
      BY <1>0 DEF TypeOK, Waiting
    <3> QED
      BY <1>0, <3>1, QueueType
  <2>4. \A u \in Threads : Waiting(u)' => msg'[u].from = u /\ msg'[u].tsc <= clock'
    BY <1>0, <2>1, <2>2, <2>3, OrderParts
  <2>5. \A u \in Threads : \A i \in DOMAIN varq[u] :
              /\ varq[u][i].from = u /\ varq[u][i].tsc <= clock + 1
              /\ \A j \in DOMAIN varq[u] : i < j => varq[u][i].tsc < varq[u][j].tsc
              /\ Waiting(u)' => varq[u][i].tsc < msg'[u].tsc
    BY <1>0, <2>1, <2>2, OrderParts
  <2>6. \A k \in DOMAIN Handled :
              /\ Handled[k].tsc <= clock + 1
              /\ \A i \in DOMAIN varq[Handled[k].from] : Handled[k].tsc < varq[Handled[k].from][i].tsc
              /\ Waiting(Handled[k].from)' => Handled[k].tsc < msg'[Handled[k].from].tsc
    BY <1>0, <2>1, <2>2, OrderParts
  <2>7. ThreadOrder'
    BY <1>0, <2>1, OrderParts DEF ThreadOrder
  <2> QED
    BY <2>1, <2>4, <2>5, <2>6, <2>7 DEF OrderInv
<1>2. CASE MessagesKept
  <2>1. \A k \in DOMAIN Handled : Handled[k].from \in Threads
    BY <1>0, QueueType
  <2>2. ThreadOrder'
    BY <1>0, <1>2, OrderParts DEF ThreadOrder, MessagesKept
  <2> QED
    BY <1>0, <1>2, <2>1, <2>2, OrderParts DEF OrderInv, MessagesKept
<1> QED
  BY <1>0, <1>1, <1>2, PushOrder, DiscardOrder, HandleOrder, OtherEffect

LEMMA DiscardedKept ==
  ASSUME [Next]_vars, \A t \in Threads : ~Discard(t)
  PROVE  discarded' = discarded
<1> USE DEF infoVars, threadVars, bufVars, mainVars, outVars, pollVars
<1>1. ASSUME NEW t \in Threads, Thread(t) PROVE discarded' = discarded
  BY <1>1 DEF Thread, Log, Register, EmplaceInfo, Preallocate, Push, End
<1>2. ASSUME Poll PROVE discarded' = discarded
  BY <1>2 DEF Poll, ReadClock, MoveLogInfos, MoveThreadBuffers, ReadFront, DeleteEnded,
     MakeHeap, AdjustHeap, Handle, NextHeader, EndPoll
<1>3. ASSUME PollAgain \/ Main \/ UNCHANGED vars PROVE discarded' = discarded
  BY <1>3 DEF PollAgain, Main, Stop, Restart, Destroy, Close, vars
<1> QED
  BY <1>1, <1>2, <1>3 DEF Next

\* The time stamp of a discarded message was its thread's alone, and is no more.
LEMMA DiscardTaken ==
  ASSUME TypeOK, OrderInv, TakenInv, NEW t \in Threads, Discard(t)
  PROVE  TakenInv'
<1>1. PICK n : n = msg[t].tsc
  OBVIOUS
<1>2. /\ Waiting(t) /\ ~Waiting(t)' /\ clock' = clock /\ varq' = varq /\ Handled' = Handled
      /\ \A u \in Threads \ {t} : msg'[u] = msg[u] /\ (Waiting(u)' <=> Waiting(u))
      /\ discarded' = discarded \cup {n} /\ msg[t] \in Message
  BY <1>1, DiscardEffect
<1>3. n \in 1 .. clock
  BY <1>1, <1>2, OrderParts DEF Message, TypeOK
<1>4. \A u \in Threads \ {t} : \A k : Took(u, k)' <=> Took(u, k)
  BY <1>2 DEF Took
<1>5. \A k : k # n => (Took(t, k)' <=> Took(t, k))
  BY <1>1, <1>2 DEF Took
<1>6. Took(t, n)
  BY <1>1, <1>2 DEF Took
<1>7. ~Took(t, n)'
  <2>1. ~(n < n)
    BY <1>3
  <2> QED
    BY <1>1, <1>2, <2>1, OrderParts DEF Took
<1>8. \A u \in Threads : ~Took(u, n)'
  BY <1>3, <1>4, <1>6, <1>7 DEF TakenInv
<1>9. ASSUME NEW k \in 1 .. clock, k # n
      PROVE  /\ k \in discarded' <=> k \in discarded
             /\ \A u \in Threads : Took(u, k)' <=> Took(u, k)
  BY <1>2, <1>4, <1>5, <1>9
<1> QED
  BY <1>2, <1>3, <1>8, <1>9 DEF TakenInv

LEMMA TakenStep == ASSUME IInv, [Next]_vars PROVE TakenInv'
<1>0. TypeOK /\ PollerInv /\ NodesLive /\ OrderInv /\ TakenInv
  BY DEF IInv
<1>d. ASSUME NEW t \in Threads, Discard(t) PROVE TakenInv'
  BY <1>0, <1>d, DiscardTaken
<1>k. ASSUME \A t \in Threads : ~Discard(t) PROVE discarded' = discarded
  BY <1>k, DiscardedKept
<1>1. ASSUME clock' = clock, \A t \in Threads : \A n : Took(t, n)' <=> Took(t, n),
             \A t \in Threads : ~Discard(t)
      PROVE  TakenInv'
  BY <1>0, <1>k, <1>1 DEF TakenInv
<1>2. ASSUME NEW t \in Threads, Push(t), \A u \in Threads : ~Discard(u) PROVE TakenInv'
  <2> DEFINE n == Len(varq[t])
  <2>1. /\ msg[t] \in Message /\ Waiting(t) /\ ~Waiting(t)'
        /\ DOMAIN varq'[t] = 1 .. n + 1
        /\ \A i \in 1 .. n : varq'[t][i] = varq[t][i]
        /\ varq'[t][n + 1] = msg[t]
        /\ \A u \in Threads \ {t} : /\ varq'[u] = varq[u] /\ msg'[u] = msg[u]
                                    /\ Waiting(u)' <=> Waiting(u)
        /\ clock' = clock /\ Handled' = Handled
    BY <1>0, <1>2, PushEffect
  <2>2. n \in Nat /\ DOMAIN varq[t] = 1 .. n
    BY <1>0, QueueType
  <2> HIDE DEF n
  <2>3. /\ \A i \in 1 .. n + 1 : i \in 1 .. n \/ i = n + 1
        /\ \A i \in 1 .. n : i \in 1 .. n + 1
        /\ n + 1 \in 1 .. n + 1
    BY <2>2
  <2>4. \A k : Took(t, k)' <=> Took(t, k)
    <3>1. ASSUME NEW k PROVE (\E i \in DOMAIN varq'[t] : varq'[t][i].tsc = k) <=>
            (\E i \in DOMAIN varq[t] : varq[t][i].tsc = k) \/ msg[t].tsc = k
      BY <2>1, <2>2, <2>3
    <3> QED
      BY <2>1, <3>1 DEF Took
  <2>5. \A u \in Threads \ {t} : \A k : Took(u, k)' <=> Took(u, k)
    BY <2>1 DEF Took
  <2> QED
    BY <1>1, <1>2, <2>1, <2>4, <2>5
<1>3. ASSUME Handle, \A u \in Threads : ~Discard(u) PROVE TakenInv'
  <2>1. PICK t \in Threads : t = bgThreadBuffers[1].tb
    BY <1>0, <1>3, HandleEffect
  <2>2. PICK c \in Message : c = Candidate
    BY <1>0, <1>3, HandleEffect
  <2> DEFINE n == Len(varq[t])
             m == Len(Handled)
  <2>3. /\ n \in Nat /\ n >= 1 /\ c = varq[t][1]
        /\ DOMAIN varq'[t] = 1 .. n - 1
        /\ \A i \in 1 .. n - 1 : varq'[t][i] = varq[t][i + 1]
        /\ \A u \in Threads \ {t} : varq'[u] = varq[u]
        /\ Len(Handled') = m + 1 /\ DOMAIN Handled' = 1 .. m + 1
        /\ \A k \in 1 .. m : Handled'[k] = Handled[k]
        /\ Handled'[m + 1] = c
        /\ UNCHANGED <<clock, pc, msg>>
    BY <1>0, <1>3, <2>1, <2>2, HandleEffect
  <2>4. DOMAIN varq[t] = 1 .. n /\ DOMAIN Handled = 1 .. m /\ m \in Nat
    BY <1>0, QueueType
  <2> HIDE DEF n, m
  <2>5. c.from = t
    <3>1. 1 \in DOMAIN varq[t]
      BY <2>3, <2>4
    <3> QED
      BY <1>0, <2>3, <3>1, OrderParts
  <2>6. ASSUME NEW k PROVE (\E i \in DOMAIN varq[t] : varq[t][i].tsc = k) <=>
          (\E i \in DOMAIN varq'[t] : varq'[t][i].tsc = k) \/ c.tsc = k
    <3>1. ASSUME NEW i \in 1 .. n, varq[t][i].tsc = k, i # 1
          PROVE  \E j \in 1 .. n - 1 : varq'[t][j].tsc = k
      <4>1. PICK j : j = i - 1
        OBVIOUS
      <4>2. j \in 1 .. n - 1 /\ j + 1 = i
        BY <2>3, <3>1, <4>1
      <4> QED
        BY <2>3, <3>1, <4>2
    <3>2. ASSUME NEW j \in 1 .. n - 1, varq'[t][j].tsc = k
          PROVE  \E i \in 1 .. n : varq[t][i].tsc = k
      <4>1. j + 1 \in 1 .. n
        BY <2>3
      <4> QED
        BY <2>3, <3>2, <4>1
    <3>3. 1 \in 1 .. n
      BY <2>3
    <3> QED
      BY <2>3, <2>4, <3>1, <3>2, <3>3
  <2>7. ASSUME NEW u \in Threads, NEW k
        PROVE  (\E i \in DOMAIN Handled' : Handled'[i].from = u /\ Handled'[i].tsc = k) <=>
                 \/ \E i \in DOMAIN Handled : Handled[i].from = u /\ Handled[i].tsc = k
                 \/ u = t /\ c.tsc = k
    <3>1. /\ \A i \in 1 .. m + 1 : i \in 1 .. m \/ i = m + 1
          /\ \A i \in 1 .. m : i \in 1 .. m + 1
          /\ m + 1 \in 1 .. m + 1
      BY <2>4
    <3> QED
      BY <2>3, <2>4, <2>5, <3>1
  <2>8. ASSUME NEW u \in Threads, NEW k PROVE Took(u, k)' <=> Took(u, k)
    <3>1. Waiting(u)' <=> Waiting(u)
      BY <2>3 DEF Waiting
    <3>2. CASE u = t
      <4>1. (\E i \in DOMAIN varq[u] : varq[u][i].tsc = k) <=>
              (\E i \in DOMAIN varq'[u] : varq'[u][i].tsc = k) \/ c.tsc = k
        BY <2>6, <3>2, Zenon
      <4>2. (\E i \in DOMAIN Handled' : Handled'[i].from = u /\ Handled'[i].tsc = k) <=>
              \/ \E i \in DOMAIN Handled : Handled[i].from = u /\ Handled[i].tsc = k
              \/ c.tsc = k
        <5>1. (\E i \in DOMAIN Handled' : Handled'[i].from = u /\ Handled'[i].tsc = k) <=>
                \/ \E i \in DOMAIN Handled : Handled[i].from = u /\ Handled[i].tsc = k
                \/ u = t /\ c.tsc = k
          BY <2>7
        <5> QED
          BY <3>2, <5>1, Zenon
      <4>3. msg'[u] = msg[u]
        BY <2>3
      <4> QED
        BY <3>1, <4>1, <4>2, <4>3, Zenon DEF Took
    <3>3. CASE u # t
      <4>1. (\E i \in DOMAIN Handled' : Handled'[i].from = u /\ Handled'[i].tsc = k) <=>
              \E i \in DOMAIN Handled : Handled[i].from = u /\ Handled[i].tsc = k
        <5>1. (\E i \in DOMAIN Handled' : Handled'[i].from = u /\ Handled'[i].tsc = k) <=>
                \/ \E i \in DOMAIN Handled : Handled[i].from = u /\ Handled[i].tsc = k
                \/ u = t /\ c.tsc = k
          BY <2>7
        <5> QED
          BY <3>3, <5>1, Zenon
      <4>2. varq'[u] = varq[u] /\ msg'[u] = msg[u]
        BY <2>3, <3>3
      <4> QED
        BY <3>1, <4>1, <4>2, Zenon DEF Took
    <3> QED
      BY <3>2, <3>3
  <2> QED
    BY <1>1, <1>3, <2>3, <2>8
<1>4. ASSUME MessagesKept, \A u \in Threads : ~Discard(u) PROVE TakenInv'
  <2>1. \A u \in Threads : \A k : Took(u, k)' <=> Took(u, k)
    BY <1>4 DEF Took, MessagesKept
  <2> QED
    BY <1>1, <1>4, <2>1 DEF MessagesKept
<1>5. ASSUME NEW t \in Threads, NEW site \in Sites \cup {Once}, Log(t, site),
             \A u \in Threads : ~Discard(u)
      PROVE  TakenInv'
  <2>1. /\ ~Waiting(t) /\ msg'[t].from = t /\ msg'[t].tsc = clock + 1 /\ Waiting(t)'
        /\ clock' = clock + 1 /\ varq' = varq /\ Handled' = Handled
        /\ \A u \in Threads \ {t} : msg'[u] = msg[u] /\ (Waiting(u)' <=> Waiting(u))
    BY <1>0, <1>5, LogEffect
  <2>2. clock \in Nat
    BY <1>0, QueueType
  <2>3. \A u \in Threads : \A n : Took(u, n)' <=> Took(u, n) \/ (u = t /\ n = clock + 1)
    BY <2>1 DEF Took
  <2>4. \A u \in Threads : ~Took(u, clock + 1)
    <3>1. ~(clock + 1 <= clock)
      BY <2>2
    <3> QED
      BY <1>0, <3>1, OrderParts DEF Took
  <2>5. \A n \in 1 .. clock' : n \in 1 .. clock \/ n = clock + 1
    BY <2>1, <2>2
  <2>6. \A n \in 1 .. clock : n # clock + 1 /\ n \in 1 .. clock'
    BY <2>1, <2>2
  <2>7. discarded' = discarded /\ discarded \subseteq 1 .. clock' /\ clock + 1 \notin discarded
    BY <1>0, <1>5, <1>k, <2>2, <2>6 DEF TakenInv
  <2> QED
    BY <1>0, <2>3, <2>4, <2>5, <2>6, <2>7 DEF TakenInv
<1> QED
  BY <1>2, <1>3, <1>4, <1>5, <1>d, OtherEffect, <1>0


-----------------------------------------------------------------------------
(* The messages of a poll *)

LEMMA InitSorted == Init => SortedInv
<1> SUFFICES ASSUME Init PROVE SortedInv
  OBVIOUS
<1>1. Handled = << >>
  BY DEF Init, Handled
<1> QED
  BY <1>1 DEF Init, SortedInv, SortedInPoll

LEMMA SortedParts ==
  ASSUME SortedInv
  PROVE  /\ \A i, j \in DOMAIN Handled : pollAt < i /\ i < j => Handled[i].tsc < Handled[j].tsc
         /\ pollAt <= Len(Handled)
         /\ poller \in {"infos", "buffers", "front", "ended"} => pollAt = Len(Handled)
         /\ poller \in {"adjust", "handle"} \/ poller = "next" =>
              \A i \in DOMAIN bgThreadBuffers : \A k \in DOMAIN Handled :
                k > pollAt /\ bgThreadBuffers[i].header # None /\ (poller = "next" => i # 1) =>
                  Handled[k].tsc < bgThreadBuffers[i].header.tsc
         /\ poller = "next" =>
              pollAt < Len(Handled) /\ Handled[Len(Handled)].from = bgThreadBuffers[1].tb
BY DEF SortedInv, SortedInPoll

\* No two threads took the same time stamp: the headers are all different.
LEMMA HeadersDiffer ==
  ASSUME TypeOK, Distinct, HeadersInv, OrderInv, TakenInv, poller # "next",
         NEW i \in DOMAIN bgThreadBuffers, NEW j \in DOMAIN bgThreadBuffers, i # j,
         bgThreadBuffers[i].header # None, bgThreadBuffers[j].header # None
  PROVE  bgThreadBuffers[i].header.tsc # bgThreadBuffers[j].header.tsc
<1>1. ASSUME NEW k \in DOMAIN bgThreadBuffers, bgThreadBuffers[k].header # None
      PROVE  /\ bgThreadBuffers[k].tb \in Threads
             /\ Took(bgThreadBuffers[k].tb, bgThreadBuffers[k].header.tsc)
             /\ bgThreadBuffers[k].header.tsc \in 1 .. clock
  <2>1. PICK t \in Threads : t = bgThreadBuffers[k].tb
    BY NodesType
  <2>2. varq[t] # << >> /\ bgThreadBuffers[k].header = Head(varq[t]) /\ varq[t] \in Seq(Message)
    BY <1>1, <2>1, QueueType DEF HeadersInv
  <2>3. 1 \in DOMAIN varq[t] /\ Head(varq[t]) = varq[t][1] /\ varq[t][1] \in Message
    BY <2>2, TailFacts, ElementFacts
  <2>4. varq[t][1].tsc \in Nat /\ varq[t][1].tsc >= 1 /\ clock \in Nat /\ varq[t][1].tsc <= clock
    BY <2>3, QueueType, OrderParts
  <2> QED
    BY <2>1, <2>2, <2>3, <2>4 DEF Took
<1> SUFFICES ASSUME bgThreadBuffers[i].header.tsc = bgThreadBuffers[j].header.tsc PROVE FALSE
  OBVIOUS
<1>2. bgThreadBuffers[i].tb = bgThreadBuffers[j].tb
  BY <1>1 DEF TakenInv
<1> QED
  BY <1>2 DEF Distinct

LEMMA HandleSorted ==
  ASSUME TypeOK, PollerInv, NodesLive, HeapInv, OrderInv, TakenInv, SortedInv, Handle
  PROVE  SortedInv'
<1>1. PICK t \in Threads : t = bgThreadBuffers[1].tb
  BY HandleEffect
<1>2. PICK c \in Message : c = Candidate
  BY HandleEffect
<1> DEFINE m == Len(Handled)
           n == Len(bgThreadBuffers)
<1>3. /\ c = varq[t][1] /\ Len(varq[t]) \in Nat \ {0}
      /\ DOMAIN Handled' = 1 .. m + 1 /\ Len(Handled') = m + 1
      /\ \A k \in 1 .. m : Handled'[k] = Handled[k]
      /\ Handled'[m + 1] = c
  BY <1>1, <1>2, HandleEffect
<1>4. /\ DOMAIN Handled = 1 .. m /\ m \in Nat /\ DOMAIN varq[t] = 1 .. Len(varq[t]) /\ pollAt \in Nat
      /\ n \in Nat /\ DOMAIN bgThreadBuffers = 1 .. n
      /\ \A i \in 1 .. n : bgThreadBuffers[i] \in Node
  BY QueueType, NodesType DEF TypeOK
<1>5. /\ poller = "handle" /\ poller' = "next" /\ bgThreadBuffers' = bgThreadBuffers
      /\ pollAt' = pollAt /\ bgThreadBuffers[1].header = c /\ 1 \in 1 .. n /\ c # None
      /\ \A j \in 2 .. n : ~Earlier(bgThreadBuffers[j], bgThreadBuffers[j \div 2])
  <2>1. /\ poller = "handle" /\ poller' = "next" /\ bgThreadBuffers' = bgThreadBuffers
        /\ pollAt' = pollAt /\ Candidate # None
    BY DEF Handle, PollGoes
  <2>2. bgThreadBuffers # << >>
    BY <2>1 DEF PollerInv
  <2>3. bgThreadBuffers[1].header = c /\ 1 \in 1 .. n /\ c # None
    BY <1>2, <2>1, <2>2, CandidateType, NodesType
  <2> QED
    BY <2>1, <2>3 DEF HeapInv
<1> HIDE DEF m, n
<1>6. c.from = t
  <2>1. 1 \in DOMAIN varq[t]
    BY <1>3, <1>4
  <2> QED
    BY <1>3, <2>1, OrderParts
<1>7. \A k \in 1 .. m : \A i \in 1 .. n :
        k > pollAt /\ bgThreadBuffers[i].header # None =>
          Handled[k].tsc < bgThreadBuffers[i].header.tsc
  BY <1>4, <1>5, SortedParts
<1>8. ASSUME NEW i \in 1 .. n, i # 1, bgThreadBuffers[i].header # None
      PROVE  c.tsc < bgThreadBuffers[i].header.tsc
  <2>1. ~Earlier(bgThreadBuffers[i], bgThreadBuffers[1])
    BY <1>4, <1>5, <1>8, NodesType, RootGoesFirst DEF n
  <2>2. ~(bgThreadBuffers[i].header.tsc < c.tsc)
    BY <1>5, <1>8, <2>1 DEF Earlier
  <2>3. bgThreadBuffers[i].header.tsc # c.tsc
    BY <1>4, <1>5, <1>8, NodesParts, HeadersDiffer
  <2>4. bgThreadBuffers[i].header \in Message
    BY <1>4, <1>8 DEF Node
  <2>5. bgThreadBuffers[i].header.tsc \in Nat /\ c.tsc \in Nat
    BY <2>4, QueueType
  <2> QED
    BY <2>2, <2>3, <2>5
<1>9. \A k \in 1 .. m + 1 : k \in 1 .. m \/ k = m + 1
  BY <1>4
<1>10. ASSUME NEW i \in 1 .. m + 1, NEW j \in 1 .. m + 1, pollAt < i, i < j
       PROVE  Handled'[i].tsc < Handled'[j].tsc
  <2>1. i \in 1 .. m
    BY <1>4, <1>10
  <2>2. CASE j \in 1 .. m
    BY <1>3, <1>4, <1>10, <2>1, <2>2, SortedParts
  <2>3. CASE j = m + 1
    BY <1>3, <1>5, <1>7, <1>10, <2>1, <2>3
  <2> QED
    BY <1>9, <2>2, <2>3
<1>11. ASSUME NEW i \in 1 .. n, NEW k \in 1 .. m + 1, k > pollAt,
              bgThreadBuffers[i].header # None, i # 1
       PROVE  Handled'[k].tsc < bgThreadBuffers[i].header.tsc
  BY <1>3, <1>7, <1>8, <1>9, <1>11
<1>12. pollAt < m + 1 /\ pollAt <= m + 1
  BY <1>4, SortedParts DEF m
<1> QED
  BY <1>1, <1>3, <1>4, <1>5, <1>6, <1>10, <1>11, <1>12 DEF SortedInv, SortedInPoll

LEMMA NextHeaderSorted ==
  ASSUME TypeOK, PollerInv, NodesLive, OrderInv, SortedInv, NextHeader, Handled' = Handled
  PROVE  SortedInv'
<1>1. PICK t \in Threads : t = bgThreadBuffers[1].tb
  BY NodesType DEF NextHeader, PollGoes, PollerInv
<1> DEFINE m == Len(Handled)
           n == Len(bgThreadBuffers)
<1>2. /\ poller = "next" /\ poller' = "adjust" /\ pollAt' = pollAt
      /\ bgThreadBuffers' = [bgThreadBuffers EXCEPT ![1].header = FrontOf(t)]
  BY <1>1 DEF NextHeader, PollGoes, outVars
<1>3. /\ DOMAIN bgThreadBuffers = 1 .. n /\ n \in Nat /\ 1 \in 1 .. n
  BY <1>2, NodesType DEF PollerInv
<1>4. /\ DOMAIN Handled = 1 .. m /\ m \in Nat /\ pollAt \in Nat
  BY QueueType DEF TypeOK
<1>5. PICK h \in Message \cup {None} : h = FrontOf(t)
  BY FrontOfType
<1>6. /\ DOMAIN bgThreadBuffers' = DOMAIN bgThreadBuffers
      /\ \A i \in DOMAIN bgThreadBuffers :
           bgThreadBuffers'[i].header = IF i = 1 THEN h ELSE bgThreadBuffers[i].header
  BY <1>2, <1>3, <1>5, HeaderFacts
<1>7. /\ pollAt < m /\ Handled[m].from = t /\ m \in 1 .. m
  BY <1>1, <1>2, <1>4, SortedParts
<1>8. ASSUME h # None, NEW k \in 1 .. m, k > pollAt PROVE Handled[k].tsc < h.tsc
  <2>1. varq[t] # << >> /\ h = Head(varq[t]) /\ varq[t] \in Seq(Message)
    BY <1>5, <1>8, QueueType DEF FrontOf
  <2>2. 1 \in DOMAIN varq[t] /\ h = varq[t][1] /\ h \in Message
    BY <2>1, TailFacts, ElementFacts
  <2>3. Handled[m].tsc < h.tsc
    BY <1>4, <1>7, <2>2, OrderParts
  <2>4. k = m \/ Handled[k].tsc < Handled[m].tsc
    <3> HIDE DEF m, n
    <3>1. k = m \/ k < m
      BY <1>4, <1>8
    <3>2. k \in DOMAIN Handled /\ m \in DOMAIN Handled /\ pollAt < k
      BY <1>4, <1>7, <1>8
    <3> QED
      BY <3>1, <3>2, SortedParts
  <2>5. Handled[k].tsc \in Nat /\ Handled[m].tsc \in Nat /\ h.tsc \in Nat
    BY <1>7, <1>8, <2>2, QueueType
  <2> QED
    BY <2>3, <2>4, <2>5
<1> HIDE DEF m, n
<1>9. ASSUME NEW i \in DOMAIN bgThreadBuffers, NEW k \in 1 .. m,
             k > pollAt, bgThreadBuffers'[i].header # None
      PROVE  Handled[k].tsc < bgThreadBuffers'[i].header.tsc
  <2>1. CASE i = 1
    BY <1>6, <1>8, <1>9, <2>1
  <2>2. CASE i # 1
    BY <1>2, <1>4, <1>6, <1>9, <2>2, SortedParts
  <2> QED
    BY <2>1, <2>2
<1>10. SortedInPoll'
  BY <1>2, SortedParts DEF SortedInPoll
<1>11. pollAt' <= Len(Handled')
  BY <1>2, SortedParts
<1> QED
  BY <1>2, <1>4, <1>6, <1>9, <1>10, <1>11 DEF SortedInv

LEMMA AdjustSorted ==
  ASSUME TypeOK, PollerInv, SortedInv, AdjustHeap, Handled' = Handled
  PROVE  SortedInv'
<1> DEFINE n == Len(bgThreadBuffers)
<1>1. /\ poller = "adjust" /\ poller' \in {"adjust", "handle"} /\ pollAt' = pollAt
      /\ node \in 1 .. n /\ n \in Nat /\ DOMAIN bgThreadBuffers = 1 .. n
  BY NodesType DEF AdjustHeap, PollerInv, TypeOK, outVars
<1>2. PICK min \in 1 .. n : min = Least(bgThreadBuffers, node)
  BY <1>1, NodesType, LeastFacts
<1>3. DOMAIN bgThreadBuffers' = 1 .. n /\ \A i \in 1 .. n : \E j \in 1 .. n : bgThreadBuffers'[i] = bgThreadBuffers[j]
  <2>1. CASE bgThreadBuffers' = bgThreadBuffers
    BY <1>1, <2>1
  <2>2. CASE bgThreadBuffers' = Swap(bgThreadBuffers, node, min)
    <3>1. /\ bgThreadBuffers' \in Seq(Node) /\ Len(bgThreadBuffers') = n
          /\ \A k \in 1 .. n :
               bgThreadBuffers'[k] = IF k = min THEN bgThreadBuffers[node]
                                     ELSE IF k = node THEN bgThreadBuffers[min] ELSE bgThreadBuffers[k]
      BY <1>1, <2>2, NodesSwap
    <3>2. DOMAIN bgThreadBuffers' = 1 .. n
      BY <3>1, ElementFacts
    <3> QED
      BY <1>1, <3>1, <3>2
  <2> QED
    BY <1>2, <2>1, <2>2 DEF AdjustHeap
<1> HIDE DEF n
<1>4. \A i \in 1 .. n : \A k \in DOMAIN Handled :
        k > pollAt /\ bgThreadBuffers[i].header # None =>
          Handled[k].tsc < bgThreadBuffers[i].header.tsc
  BY <1>1, SortedParts
<1>5. \A i \in 1 .. n : \A k \in DOMAIN Handled :
        k > pollAt /\ bgThreadBuffers'[i].header # None =>
          Handled[k].tsc < bgThreadBuffers'[i].header.tsc
  BY <1>3, <1>4
<1>6. SortedInPoll' /\ pollAt' <= Len(Handled')
  BY <1>1, SortedParts DEF SortedInPoll
<1> QED
  BY <1>1, <1>3, <1>5, <1>6 DEF SortedInv

LEMMA SortedStep == ASSUME IInv, [Next]_vars PROVE SortedInv'
<1> USE DEF infoVars, threadVars, bufVars, mainVars, outVars, pollVars, PollGoes
<1>0. TypeOK /\ PollerInv /\ NodesLive /\ HeapInv /\ OrderInv /\ TakenInv /\ SortedInv
  BY DEF IInv
<1>1. CASE Handle
  BY <1>0, <1>1, HandleSorted
<1>2. ASSUME ~Handle PROVE Handled' = Handled
  BY <1>0, <1>2, HandledKept
<1>3. ASSUME Handled' = Handled, pollAt' = pollAt,
             \/ UNCHANGED <<poller, bgThreadBuffers>>
             \/ poller' \in {"top", "polled"}
             \/ poller' \in {"infos", "buffers", "front", "ended"} /\ pollAt = Len(Handled)
      PROVE  SortedInv'
  <2>1. SortedInPoll' /\ pollAt' <= Len(Handled')
    BY <1>0, <1>3, SortedParts DEF SortedInPoll
  <2>2. CASE UNCHANGED <<poller, bgThreadBuffers>>
    BY <1>0, <1>3, <2>2 DEF SortedInv, SortedInPoll
  <2>3. CASE poller' \in {"top", "polled"}
    BY <2>1, <2>3 DEF SortedInv
  <2>4. CASE poller' \in {"infos", "buffers", "front", "ended"} /\ pollAt = Len(Handled)
    BY <1>3, <2>1, <2>4 DEF SortedInv
  <2> QED
    BY <1>3, <2>2, <2>3, <2>4
<1>4. ASSUME ReadClock, ~Handle PROVE SortedInv'
  <2>1. poller' = "infos" /\ pollAt' = Len(Handled) /\ Handled' = Handled
    BY <1>2, <1>4 DEF ReadClock
  <2>2. DOMAIN Handled = 1 .. Len(Handled) /\ Len(Handled) \in Nat
    BY <1>0, QueueType
  <2>3. SortedInPoll'
    BY <2>1, <2>2 DEF SortedInPoll
  <2> QED
    BY <2>1, <2>2, <2>3 DEF SortedInv
<1>5. ASSUME MoveLogInfos \/ MoveThreadBuffers \/ ReadFront \/ DeleteEnded, ~Handle PROVE SortedInv'
  <2>1. /\ poller \in {"infos", "buffers", "front", "ended"}
        /\ poller' \in {"infos", "buffers", "front", "ended"} /\ pollAt' = pollAt
    BY <1>5 DEF MoveLogInfos, MoveThreadBuffers, ReadFront, DeleteEnded
  <2> QED
    BY <1>0, <1>2, <1>3, <1>5, <2>1, SortedParts
<1>6. ASSUME MakeHeap, ~Handle PROVE SortedInv'
  <2>1. poller = "front" /\ poller' \in {"polled", "adjust"} /\ pollAt' = pollAt /\ Handled' = Handled
    BY <1>2, <1>6 DEF MakeHeap
  <2>2. SortedInPoll' /\ pollAt' <= Len(Handled')
    BY <1>0, <2>1, SortedParts DEF SortedInPoll
  <2>3. \A k \in DOMAIN Handled : ~(k > pollAt)
    BY <1>0, <2>1, QueueType, SortedParts
  <2> QED
    BY <2>1, <2>2, <2>3 DEF SortedInv
<1>7. ASSUME EndPoll, ~Handle PROVE SortedInv'
  BY <1>2, <1>3, <1>7 DEF EndPoll
<1>8. ASSUME NEW t \in Threads, Thread(t), ~Handle PROVE SortedInv'
  BY <1>2, <1>3, <1>8 DEF Thread, Log, Register, EmplaceInfo, Preallocate, Push, Discard, End
<1>9. ASSUME PollAgain \/ Main \/ UNCHANGED vars, ~Handle PROVE SortedInv'
  BY <1>2, <1>3, <1>9 DEF PollAgain, Main, Stop, Restart, Destroy, Close, vars
<1>10. ASSUME AdjustHeap \/ NextHeader, ~Handle PROVE SortedInv'
  BY <1>0, <1>2, <1>10, AdjustSorted, NextHeaderSorted
<1> QED
  BY <1>1, <1>4, <1>5, <1>6, <1>7, <1>8, <1>9, <1>10 DEF Next, Poll


-----------------------------------------------------------------------------
(* The last poll, when nothing is logged any more *)

LEMMA InitFinal == Init => FinalInv
BY DEF Init, FinalInv

\* What the last poll has collected so far...
Collecting ==
  /\ poller # "top" => pollTsc = clock + 1
  /\ poller \notin {"top", "infos"} => logInfos = << >>
  /\ poller \notin {"top", "infos", "buffers"} => threadBuffers = << >>
  /\ \A i \in DOMAIN bgThreadBuffers :
       Collected(i) /\ bgThreadBuffers[i].header = None => varq[bgThreadBuffers[i].tb] = << >>

\* ... and what it leaves.
Emptied == \A t \in Threads : life[t] # "deleted" => varq[t] = << >>

LEMMA FinalParts ==
  FinalInv <=>
    /\ main \in {"exit", "destroy", "closed"} => \A t \in Threads : ~Waiting(t)
    /\ main \in {"destroy", "closed"} => forceFlush
    /\ main = "destroy" => Collecting
    /\ main = "closed" => poller = "polled" /\ membuf = << >>
    /\ main = "closed" \/ (main = "destroy" /\ poller = "polled") => Emptied
BY DEF FinalInv, Collecting, Emptied

\* A poll with an empty node for every buffer leaves nothing.
LEMMA AllEmptied ==
  ASSUME TypeOK, LifeInv, Complete, threadBuffers = << >>,
         \A i \in DOMAIN bgThreadBuffers : varq[bgThreadBuffers[i].tb] = << >>
  PROVE  Emptied
<1> SUFFICES ASSUME NEW t \in Threads, life[t] # "deleted" PROVE varq[t] = << >>
  BY DEF Emptied
<1>1. life[t] \in {"none", "live", "ended"}
  BY DEF TypeOK
<1>2. CASE life[t] = "none"
  BY <1>2 DEF LifeInv
<1>3. CASE life[t] \in {"live", "ended"}
  <2>1. Listed(t)
    BY <1>3 DEF Complete
  <2>2. DOMAIN threadBuffers = {}
    OBVIOUS
  <2> QED
    BY <2>1, <2>2 DEF Listed
<1> QED
  BY <1>1, <1>2, <1>3

\* When no log statement is running and logInfos is empty the poll knows every id.
LEMMA AllKnown ==
  ASSUME TypeOK, IdsInv, logInfos = << >>, \A t \in Threads : ~Waiting(t),
         NEW m \in Message, HasItsId(m)
  PROVE  Known(m.logId)
<1>1. /\ Len(Entries) = Len(bgLogInfos) + Len(logInfos) /\ Len(bgLogInfos) \in Nat
      /\ Len(logInfos) = 0
  BY EntriesType
<1>2. infoLock = None
  BY DEF IdsInv, TypeOK, Waiting
<1>3. CASE m.site = Once
  <2>1. m.logId = 0
    BY <1>3 DEF HasItsId
  <2>2. bgLogInfos # << >> /\ bgLogInfos \in Seq(Sites \cup {Once})
    BY DEF IdsInv, TypeOK
  <2>3. Len(bgLogInfos) # 0
    BY <2>2, EmptyIsLenZero
  <2> QED
    BY <1>1, <2>1, <2>3 DEF Known
<1>4. CASE m.site # Once
  <2>1. m.site \in Sites /\ m.logId = logId[m.site] /\ m.logId # 0
    BY <1>4 DEF HasItsId, Message
  <2>2. logId[m.site] < Len(Entries)
    BY <1>2, <2>1 DEF IdsInv
  <2> QED
    BY <1>1, <2>1, <2>2 DEF Known
<1> QED
  BY <1>3, <1>4

\* The last poll ends only when nothing is left.
LEMMA LastEndPoll ==
  ASSUME TypeOK, IdsInv, MessageIdsInv, LifeInv, PollerInv, NodesLive, HeapInv, OrderInv,
         Collecting, \A t \in Threads : ~Waiting(t), EndPoll
  PROVE  Emptied
<1> DEFINE n == Len(bgThreadBuffers)
<1>1. /\ poller = "handle" /\ Candidate = None /\ 1 \in 1 .. n /\ n \in Nat
      /\ DOMAIN bgThreadBuffers = 1 .. n /\ bgThreadBuffers \in Seq(Node)
      /\ bgThreadBuffers[1].header \in Message \cup {None} /\ bgThreadBuffers[1].tb \in Threads
      /\ \A i \in 1 .. n : bgThreadBuffers[i] \in Node
  BY NodesType DEF EndPoll, PollGoes, PollerInv
<1>2. pollTsc = clock + 1 /\ logInfos = << >> /\ threadBuffers = << >>
  BY <1>1 DEF Collecting
<1>3. ASSUME bgThreadBuffers[1].header # None PROVE FALSE
  <2>1. PICK t \in Threads : t = bgThreadBuffers[1].tb
    BY <1>1
  <2>2. PICK h \in Message : h = bgThreadBuffers[1].header
    BY <1>1, <1>3
  <2>3. varq[t] # << >> /\ h = Head(varq[t]) /\ varq[t] \in Seq(Message)
    BY <1>1, <1>3, <2>1, <2>2, NodesParts, QueueType DEF HeadersInv
  <2>4. 1 \in DOMAIN varq[t] /\ h = varq[t][1]
    BY <2>3, TailFacts, ElementFacts
  <2>5. HasItsId(h) /\ h.tsc <= clock
    BY <2>4, OrderParts DEF MessageIdsInv
  <2>6. Known(h.logId)
    BY <1>2, <2>5, AllKnown
  <2>7. ~(h.tsc >= pollTsc)
    BY <1>2, <2>5, QueueType
  <2>8. Candidate = h
    BY <1>3, <2>2, <2>6, <2>7 DEF Candidate
  <2> QED
    BY <1>1, <2>8, NamesAssumption
<1>4. \A j \in 1 .. n : ~Earlier(bgThreadBuffers[j], bgThreadBuffers[1])
  BY <1>1, RootGoesFirst DEF HeapInv
<1>5. \A j \in 1 .. n : bgThreadBuffers[j].header = None
  BY <1>3, <1>4 DEF Earlier
<1>6. \A i \in DOMAIN bgThreadBuffers : varq[bgThreadBuffers[i].tb] = << >>
  BY <1>1, <1>5 DEF Collecting, Collected
<1> QED
  BY <1>2, <1>6, NodesParts, AllEmptied

LEMMA FrontIsNone ==
  ASSUME TypeOK, NEW t \in Threads, FrontOf(t) = None
  PROVE  varq[t] = << >>
<1>1. varq[t] \in Seq(Message)
  BY QueueType
<1> QED
  BY <1>1, TailFacts, NamesAssumption DEF FrontOf

LEMMA LastReadFront ==
  ASSUME TypeOK, PollerInv, Collecting, ReadFront
  PROVE  Collecting' /\ poller' # "polled"
<1> USE DEF PollGoes, infoVars, bufVars
<1>1. /\ poller = "front" /\ node \in 1 .. Len(bgThreadBuffers) /\ node \in Nat
      /\ DOMAIN bgThreadBuffers = 1 .. Len(bgThreadBuffers)
      /\ UNCHANGED <<clock, pollTsc, logInfos, threadBuffers, varq>>
  BY NodesType DEF ReadFront, PollerInv, TypeOK
<1>2. PICK t \in Threads : t = bgThreadBuffers[node].tb
  BY <1>1, NodesType
<1>3. PICK h \in Message \cup {None} : h = FrontOf(t)
  BY FrontOfType
<1>4. CASE bgThreadBuffers[node].header # None
  <2>1. poller' = "front" /\ node' = node + 1 /\ bgThreadBuffers' = bgThreadBuffers
    BY <1>4 DEF ReadFront
  <2>2. \A i \in DOMAIN bgThreadBuffers : i < node + 1 => i < node \/ i = node
    BY <1>1
  <2> QED
    BY <1>1, <1>4, <2>1, <2>2 DEF Collecting, Collected
<1>5. CASE bgThreadBuffers[node].header = None
  <2>1. /\ bgThreadBuffers' = [bgThreadBuffers EXCEPT ![node].header = h]
        /\ \/ h = None /\ poller' = "ended" /\ node' = node
           \/ h # None /\ poller' = "front" /\ node' = node + 1
    BY <1>2, <1>3, <1>5 DEF ReadFront
  <2>2. /\ DOMAIN bgThreadBuffers' = DOMAIN bgThreadBuffers
        /\ \A i \in DOMAIN bgThreadBuffers :
             /\ bgThreadBuffers'[i].tb = bgThreadBuffers[i].tb
             /\ bgThreadBuffers'[i].header = IF i = node THEN h ELSE bgThreadBuffers[i].header
    BY <1>1, <2>1, HeaderFacts
  <2>3. \A i \in DOMAIN bgThreadBuffers : Collected(i)' => i < node \/ i = node
    <3>1. \A i \in DOMAIN bgThreadBuffers : i <= node \/ i < node + 1 => i < node \/ i = node
      BY <1>1
    <3> QED
      BY <2>1, <3>1 DEF Collected
  <2>4. h = None => varq[t] = << >>
    BY <1>3, FrontIsNone
  <2>5. \A i \in DOMAIN bgThreadBuffers :
          i < node /\ bgThreadBuffers[i].header = None => varq[bgThreadBuffers[i].tb] = << >>
    BY <1>1 DEF Collecting, Collected
  <2>6. \A i \in DOMAIN bgThreadBuffers' :
          Collected(i)' /\ bgThreadBuffers'[i].header = None => varq'[bgThreadBuffers'[i].tb] = << >>
    BY <1>1, <1>2, <2>2, <2>3, <2>4, <2>5
  <2> QED
    BY <1>1, <2>1, <2>6 DEF Collecting
<1> QED
  BY <1>4, <1>5

LEMMA LastDeleteEnded ==
  ASSUME TypeOK, PollerInv, Collecting, DeleteEnded
  PROVE  Collecting' /\ poller' # "polled"
<1> USE DEF PollGoes, infoVars, bufVars
<1> DEFINE n == Len(bgThreadBuffers)
<1>1. /\ poller = "ended" /\ poller' = "front" /\ node \in 1 .. n /\ n \in Nat /\ node \in Nat
      /\ DOMAIN bgThreadBuffers = 1 .. n /\ n >= 1
      /\ UNCHANGED <<clock, pollTsc, logInfos, threadBuffers, varq>>
  BY NodesType DEF DeleteEnded, PollerInv, TypeOK
<1>2. \A i \in 1 .. n : i <= node /\ bgThreadBuffers[i].header = None
                          => varq[bgThreadBuffers[i].tb] = << >>
  BY <1>1 DEF Collecting, Collected
<1>3. CASE node' = node + 1 /\ bgThreadBuffers' = bgThreadBuffers
  <2>1. \A i \in 1 .. n : i < node + 1 => i <= node
    BY <1>1
  <2> HIDE DEF n
  <2>2. \A i \in DOMAIN bgThreadBuffers' :
          Collected(i)' /\ bgThreadBuffers'[i].header = None => varq'[bgThreadBuffers'[i].tb] = << >>
    BY <1>1, <1>2, <1>3, <2>1 DEF Collected
  <2> QED
    BY <1>1, <2>2 DEF Collecting
<1>4. CASE /\ node' = node
           /\ bgThreadBuffers' = Front([bgThreadBuffers EXCEPT ![node] = Last(bgThreadBuffers)])
  <2>1. PICK w : w = Front([bgThreadBuffers EXCEPT ![node] = Last(bgThreadBuffers)])
    OBVIOUS
  <2>2. /\ w \in Seq(Node) /\ Len(w) = n - 1
        /\ \A j \in 1 .. Len(w) :
             w[j] = IF j = node THEN bgThreadBuffers[n] ELSE bgThreadBuffers[j]
    BY <1>1, <2>1, NodesType, FrontFacts
  <2>3. bgThreadBuffers' = w /\ DOMAIN w = 1 .. n - 1
    BY <1>4, <2>1, <2>2, ElementFacts
  <2>4. \A i \in 1 .. n - 1 : i < node => i \in 1 .. n /\ i <= node /\ w[i] = bgThreadBuffers[i]
    BY <1>1, <2>2
  <2> HIDE DEF n
  <2>5. \A i \in DOMAIN bgThreadBuffers' :
          Collected(i)' /\ bgThreadBuffers'[i].header = None => varq'[bgThreadBuffers'[i].tb] = << >>
    BY <1>1, <1>2, <1>4, <2>3, <2>4 DEF Collected
  <2> QED
    BY <1>1, <2>5 DEF Collecting
<1> QED
  BY <1>3, <1>4 DEF DeleteEnded

LEMMA LastAdjustHeap ==
  ASSUME TypeOK, PollerInv, Collecting, AdjustHeap
  PROVE  Collecting' /\ poller' # "polled"
<1> DEFINE n == Len(bgThreadBuffers)
<1>1. /\ poller = "adjust" /\ poller' \in {"adjust", "handle"}
      /\ node \in 1 .. n /\ n \in Nat /\ DOMAIN bgThreadBuffers = 1 .. n
      /\ UNCHANGED <<clock, pollTsc, logInfos, threadBuffers, varq>>
  BY NodesType DEF AdjustHeap, PollerInv, TypeOK, infoVars, bufVars
<1>2. PICK min \in 1 .. n : min = Least(bgThreadBuffers, node)
  BY <1>1, NodesType, LeastFacts
<1>3. DOMAIN bgThreadBuffers' = 1 .. n /\ \A i \in 1 .. n : \E j \in 1 .. n : bgThreadBuffers'[i] = bgThreadBuffers[j]
  <2>1. CASE bgThreadBuffers' = bgThreadBuffers
    BY <1>1, <2>1
  <2>2. CASE bgThreadBuffers' = Swap(bgThreadBuffers, node, min)
    <3>1. /\ bgThreadBuffers' \in Seq(Node) /\ Len(bgThreadBuffers') = n
          /\ \A k \in 1 .. n :
               bgThreadBuffers'[k] = IF k = min THEN bgThreadBuffers[node]
                                     ELSE IF k = node THEN bgThreadBuffers[min] ELSE bgThreadBuffers[k]
      BY <1>1, <2>2, NodesSwap
    <3>2. DOMAIN bgThreadBuffers' = 1 .. n
      BY <3>1, ElementFacts
    <3> QED
      BY <1>1, <3>1, <3>2
  <2> QED
    BY <1>2, <2>1, <2>2 DEF AdjustHeap
<1> HIDE DEF n
<1>4. \A i \in 1 .. n : bgThreadBuffers[i].header = None => varq[bgThreadBuffers[i].tb] = << >>
  BY <1>1 DEF Collecting, Collected
<1>5. ASSUME NEW i \in 1 .. n, bgThreadBuffers'[i].header = None
      PROVE  varq[bgThreadBuffers'[i].tb] = << >>
  <2>1. PICK j \in 1 .. n : bgThreadBuffers'[i] = bgThreadBuffers[j]
    BY <1>3
  <2> QED
    BY <1>4, <1>5, <2>1
<1> QED
  BY <1>1, <1>3, <1>5 DEF Collecting

LEMMA LastNextHeader ==
  ASSUME TypeOK, PollerInv, Collecting, NextHeader
  PROVE  Collecting' /\ poller' # "polled"
<1>1. PICK t \in Threads : t = bgThreadBuffers[1].tb
  BY NodesType DEF NextHeader, PollGoes, PollerInv
<1>2. PICK h \in Message \cup {None} : h = FrontOf(t)
  BY FrontOfType
<1>3. /\ poller = "next" /\ poller' = "adjust" /\ 1 \in 1 .. Len(bgThreadBuffers)
      /\ bgThreadBuffers' = [bgThreadBuffers EXCEPT ![1].header = h]
      /\ UNCHANGED <<clock, pollTsc, logInfos, threadBuffers, varq>>
  BY <1>1, <1>2, NodesType DEF NextHeader, PollGoes, PollerInv, infoVars, bufVars
<1>4. /\ DOMAIN bgThreadBuffers' = DOMAIN bgThreadBuffers
      /\ \A i \in DOMAIN bgThreadBuffers :
           /\ bgThreadBuffers'[i].tb = bgThreadBuffers[i].tb
           /\ bgThreadBuffers'[i].header = IF i = 1 THEN h ELSE bgThreadBuffers[i].header
  BY <1>3, HeaderFacts
<1>5. h = None => varq[t] = << >>
  BY <1>2, FrontIsNone
<1>6. \A i \in DOMAIN bgThreadBuffers :
        i # 1 /\ bgThreadBuffers[i].header = None => varq[bgThreadBuffers[i].tb] = << >>
  BY <1>3 DEF Collecting, Collected
<1>7. \A i \in DOMAIN bgThreadBuffers' :
        bgThreadBuffers'[i].header = None => varq'[bgThreadBuffers'[i].tb] = << >>
  BY <1>1, <1>3, <1>4, <1>5, <1>6
<1> QED
  BY <1>3, <1>7 DEF Collecting

LEMMA LastHandle ==
  ASSUME TypeOK, PollerInv, NodesLive, Collecting, Handle
  PROVE  Collecting' /\ poller' # "polled"
<1>1. PICK t \in Threads : t = bgThreadBuffers[1].tb
  BY HandleEffect
<1>2. /\ poller = "handle" /\ poller' = "next" /\ 1 \in DOMAIN bgThreadBuffers
      /\ UNCHANGED <<clock, pollTsc, logInfos, threadBuffers, bgThreadBuffers>>
      /\ \A u \in Threads \ {t} : varq'[u] = varq[u]
  <2>1. \A u \in Threads \ {t} : varq'[u] = varq[u]
    BY <1>1, HandleEffect
  <2> QED
    BY <2>1, NodesType DEF Handle, PollGoes, PollerInv, infoVars
<1>3. \A i \in DOMAIN bgThreadBuffers : i # 1 => bgThreadBuffers[i].tb \in Threads \ {t}
  BY <1>1, <1>2, NodesType, NodesParts DEF Distinct
<1>4. \A i \in DOMAIN bgThreadBuffers :
        bgThreadBuffers[i].header = None => varq[bgThreadBuffers[i].tb] = << >>
  BY <1>2 DEF Collecting, Collected
<1>5. \A i \in DOMAIN bgThreadBuffers :
        i # 1 /\ bgThreadBuffers[i].header = None => varq'[bgThreadBuffers[i].tb] = << >>
  BY <1>2, <1>3, <1>4
<1>6. \A i \in DOMAIN bgThreadBuffers' : Collected(i)' => i # 1
  BY <1>2 DEF Collected
<1> QED
  BY <1>2, <1>5, <1>6 DEF Collecting

LEMMA LastPoll ==
  ASSUME IInv, main = "destroy", Poll
  PROVE  Collecting' /\ (poller' = "polled" => Emptied')
<1> USE DEF PollGoes, infoVars, threadVars, bufVars, mainVars, outVars
<1>0. /\ TypeOK /\ IdsInv /\ MessageIdsInv /\ LifeInv /\ PollerInv /\ NodesLive /\ HeapInv
      /\ OrderInv /\ Collecting /\ \A t \in Threads : ~Waiting(t)
  BY FinalParts DEF IInv
<1>1. CASE ReadClock
  BY <1>1 DEF ReadClock, Collecting, Collected
<1>2. CASE MoveLogInfos
  BY <1>0, <1>2 DEF MoveLogInfos, Collecting, Collected
<1>3. CASE MoveThreadBuffers
  <2>1. /\ poller = "buffers" /\ poller' = "front" /\ node' = 1 /\ threadBuffers' = << >>
        /\ UNCHANGED <<clock, pollTsc, logInfos>>
    BY <1>3 DEF MoveThreadBuffers
  <2>2. bgThreadBuffers' \in Seq(Node)
    <3>1. TypeOK'
      BY <1>0, <1>3, PollType DEF Poll
    <3> QED
      BY <3>1 DEF TypeOK
  <2>3. \A i \in DOMAIN bgThreadBuffers' : ~(i < 1)
    BY <2>2, ElementFacts
  <2> QED
    BY <1>0, <2>1, <2>3 DEF Collecting, Collected
<1>4. CASE MakeHeap
  <2>1. /\ poller = "front" /\ node > Len(bgThreadBuffers)
        /\ UNCHANGED <<clock, pollTsc, logInfos, threadBuffers, varq, bgThreadBuffers, life>>
        /\ \/ bgThreadBuffers = << >> /\ poller' = "polled"
           \/ poller' = "adjust"
    BY <1>4 DEF MakeHeap
  <2>2. \A i \in DOMAIN bgThreadBuffers : i < node
    BY <1>0, <2>1, NodesType DEF TypeOK
  <2>3. \A i \in DOMAIN bgThreadBuffers :
          bgThreadBuffers[i].header = None => varq[bgThreadBuffers[i].tb] = << >>
    BY <1>0, <2>1, <2>2 DEF Collecting, Collected
  <2>4. Collecting'
    BY <1>0, <2>1, <2>3 DEF Collecting
  <2>5. ASSUME bgThreadBuffers = << >> PROVE Emptied
    <3>1. threadBuffers = << >> /\ DOMAIN bgThreadBuffers = {}
      BY <1>0, <2>1, <2>5 DEF Collecting
    <3> QED
      BY <1>0, <3>1, NodesParts, AllEmptied
  <2> QED
    BY <2>1, <2>4, <2>5 DEF Emptied
<1>5. CASE EndPoll
  <2>1. /\ poller = "handle" /\ poller' = "polled"
        /\ UNCHANGED <<clock, pollTsc, logInfos, threadBuffers, varq, bgThreadBuffers, life>>
    BY <1>5 DEF EndPoll
  <2>2. Emptied
    BY <1>0, <1>5, LastEndPoll
  <2>3. Collecting'
    BY <1>0, <2>1 DEF Collecting, Collected
  <2> QED
    BY <2>1, <2>2, <2>3 DEF Emptied
<1> QED
  BY <1>0, <1>1, <1>2, <1>3, <1>4, <1>5, LastReadFront, LastDeleteEnded, LastAdjustHeap,
     LastNextHeader, LastHandle DEF Poll

LEMMA FinalStep == ASSUME IInv, [Next]_vars PROVE FinalInv'
<1> USE DEF PollGoes, infoVars, threadVars, bufVars, mainVars, outVars, pollVars
<1>0. /\ TypeOK /\ LifeInv /\ PollerInv
      /\ main \in {"exit", "destroy", "closed"} => \A t \in Threads : ~Waiting(t)
      /\ main \in {"destroy", "closed"} => forceFlush
      /\ main = "destroy" => Collecting
      /\ main = "closed" => poller = "polled" /\ membuf = << >>
      /\ main = "closed" \/ (main = "destroy" /\ poller = "polled") => Emptied
  BY FinalParts DEF IInv
<1>a. main \in {"run", "restart", "exit", "destroy", "closed"}
  BY <1>0 DEF TypeOK
<1>1. ASSUME main' \in {"run", "restart"} PROVE FinalInv'
  BY <1>1 DEF FinalInv
<1>2. ASSUME NEW t \in Threads, Thread(t) PROVE FinalInv'
  <2>1. main' = main
    BY <1>2 DEF Thread, Log, Register, EmplaceInfo, Preallocate, Push, Discard, End
  <2>2. CASE main \in {"exit", "destroy", "closed"}
    <3>1. ~Waiting(t)
      BY <1>0, <2>2
    <3>2. End(t)
      BY <1>2, <2>2, <3>1 DEF Thread, Log, Register, EmplaceInfo, Preallocate, Push, Discard, ThreadGoes, Waiting
    <3>3. /\ pc' = [pc EXCEPT ![t] = "ended"] /\ life' = [life EXCEPT ![t] = "ended"] /\ life[t] = "live"
          /\ UNCHANGED <<varq, bgThreadBuffers, logInfos, threadBuffers, clock, pollTsc, node,
                         poller, forceFlush, membuf>>
      BY <3>2 DEF End, ThreadGoes
    <3>4. \A u \in Threads : ~Waiting(u)'
      BY <1>0, <2>2, <3>3 DEF Waiting, TypeOK
    <3>5. Emptied => Emptied'
      BY <1>0, <3>3 DEF Emptied, TypeOK
    <3>6. Collecting => Collecting'
      BY <3>3 DEF Collecting, Collected
    <3>7. /\ main' \in {"exit", "destroy", "closed"} => \A u \in Threads : ~Waiting(u)'
          /\ main' \in {"destroy", "closed"} => forceFlush'
          /\ main' = "destroy" => Collecting'
          /\ main' = "closed" => poller' = "polled" /\ membuf' = << >>
          /\ main' = "closed" \/ (main' = "destroy" /\ poller' = "polled") => Emptied'
      BY <1>0, <2>1, <3>3, <3>4, <3>5, <3>6
    <3> QED
      BY <3>7 DEF FinalInv, Collecting, Emptied
  <2> QED
    BY <1>1, <1>a, <2>1, <2>2
<1>3. ASSUME Poll PROVE FinalInv'
  <2>1. main' = main /\ forceFlush' = forceFlush /\ pc' = pc /\ poller # "polled"
    BY <1>3 DEF Poll, ReadClock, MoveLogInfos, MoveThreadBuffers, ReadFront, DeleteEnded,
       MakeHeap, AdjustHeap, Handle, NextHeader, EndPoll
  <2>2. main # "closed"
    BY <1>0, <2>1
  <2>3. main = "destroy" => Collecting' /\ (poller' = "polled" => Emptied')
    BY <1>3, LastPoll
  <2>4. /\ main' \in {"exit", "destroy", "closed"} => \A u \in Threads : ~Waiting(u)'
        /\ main' \in {"destroy", "closed"} => forceFlush'
        /\ main' = "destroy" => Collecting'
        /\ main' = "closed" => poller' = "polled" /\ membuf' = << >>
        /\ main' = "closed" \/ (main' = "destroy" /\ poller' = "polled") => Emptied'
    BY <1>0, <2>1, <2>2, <2>3 DEF Waiting
  <2> QED
    BY <2>4 DEF FinalInv, Collecting, Emptied
<1>4. CASE PollAgain
  <2>1. main' = main /\ ~forceFlush /\ pc' = pc
    BY <1>4 DEF PollAgain
  <2>2. main \notin {"destroy", "closed"}
    BY <1>0, <2>1
  <2> QED
    BY <1>0, <2>1, <2>2 DEF FinalInv, Waiting
<1>5. CASE Stop
  BY <1>1, <1>5 DEF Stop, FinalInv, Waiting
<1>6. CASE Restart
  BY <1>1, <1>6 DEF Restart
<1>7. CASE Destroy
  <2>1. /\ main = "exit" /\ forceFlush /\ main' = "destroy" /\ poller' = "top" /\ pc' = pc
        /\ forceFlush' = forceFlush
    BY <1>7 DEF Destroy, PollEnded
  <2> QED
    BY <1>0, <2>1 DEF FinalInv, Collected, Waiting
<1>8. CASE Close
  <2>1. /\ main = "destroy" /\ poller = "polled" /\ forceFlush /\ main' = "closed" /\ membuf' = << >>
        /\ UNCHANGED <<poller, forceFlush, pc, life, varq>>
    BY <1>8 DEF Close, PollEnded, Flush
  <2> QED
    BY <1>0, <2>1 DEF FinalInv, Emptied, Waiting
<1>9. CASE UNCHANGED vars
  BY <1>9 DEF IInv, FinalInv, Collected, Waiting, vars
<1> QED
  BY <1>2, <1>3, <1>4, <1>5, <1>6, <1>7, <1>8, <1>9 DEF Next, Main


-----------------------------------------------------------------------------
(* The theorems *)

LEMMA InitInv == Init => IInv
BY InitType, InitIds, InitNodes, InitHeap, InitOrder, InitSorted, InitFinal DEF IInv

LEMMA TypeStep == ASSUME IInv, [Next]_vars PROVE TypeOK'
<1>1. TypeOK /\ MessageIdsInv /\ PollerInv /\ NodesLive
  BY DEF IInv
<1>2. CASE UNCHANGED vars
  BY <1>1, <1>2 DEF TypeOK, vars, infoVars, threadVars, bufVars, mainVars, outVars, pollVars
<1> QED
  BY <1>1, <1>2, ThreadType, PollType, MainType DEF Next

LEMMA InvStep == IInv /\ [Next]_vars => IInv'
<1> SUFFICES ASSUME IInv, [Next]_vars PROVE IInv'
  OBVIOUS
<1>1. TypeOK' /\ IdsInv' /\ MessageIdsInv'
  BY TypeStep, IdsStep, MessageIdsStep
<1>2. SiteOfId' /\ NodesLive'
  BY <1>1, SiteStep, NodesStep
<1>3. LifeInv' /\ PollerInv' /\ HeapInv' /\ OrderInv' /\ TakenInv' /\ SortedInv' /\ FinalInv'
  BY LifeStep, PollerStep, HeapStep, OrderStep, TakenStep, SortedStep, FinalStep
<1> QED
  BY <1>1, <1>2, <1>3 DEF IInv

\* The inductive invariant holds in every behaviour.
THEOREM Invariance == Spec => []IInv
BY InitInv, InvStep, PTL DEF Spec

\* The variables keep their types.
THEOREM TypeCorrect == Spec => []TypeOK
<1>1. IInv => TypeOK
  BY DEF IInv
<1> QED
  BY <1>1, Invariance, PTL

\* A message is formatted by the entry of its own log statement (registerLogInfo,
\* poll, handleLog), whatever threads register meanwhile.
THEOREM SiteOfIdCorrect == Spec => []SiteOfId
<1>1. IInv => SiteOfId
  BY DEF IInv
<1> QED
  BY <1>1, Invariance, PTL

\* The poll has each buffer that exists once and no other, and its headers are in
\* front of their queues (poll, preallocate, adjustHeap).
THEOREM NodesLiveCorrect == Spec => []NodesLive
<1>1. IInv => NodesLive
  BY DEF IInv
<1> QED
  BY <1>1, Invariance, PTL

\* A poll writes its messages in the order of their time stamps (poll, adjustHeap).
THEOREM SortedInPollCorrect == Spec => []SortedInPoll
<1>1. IInv => SortedInPoll
  BY DEF IInv, SortedInv
<1> QED
  BY <1>1, Invariance, PTL

\* The messages of a thread are written in its order, over all polls.
THEOREM ThreadOrderCorrect == Spec => []ThreadOrder
<1>1. IInv => ThreadOrder
  BY DEF IInv, OrderInv
<1> QED
  BY <1>1, Invariance, PTL

LEMMA EntriesDiffer == ASSUME TypeOK, IdsInv PROVE RegisteredOnce
<1>1. /\ Entries \in Seq(Sites \cup {Once}) /\ Len(Entries) = Len(bgLogInfos) + Len(logInfos)
      /\ Len(bgLogInfos) \in Nat /\ Len(logInfos) \in Nat
      /\ \A k \in 1 .. Len(bgLogInfos) : Entries[k] = bgLogInfos[k]
  BY EntriesType
<1>2. DOMAIN Entries = 1 .. Len(Entries) /\ Len(Entries) \in Nat
  BY <1>1, ElementFacts
<1>3. Len(bgLogInfos) # 0
  <2>1. bgLogInfos # << >> /\ bgLogInfos \in Seq(Sites \cup {Once})
    BY DEF IdsInv, TypeOK
  <2> QED
    BY <2>1, EmptyIsLenZero
<1>4. Entries[1] = Once
  BY <1>1, <1>3 DEF IdsInv
<1>5. PICK e : e = Entries
  OBVIOUS
<1>6. \A k \in 2 .. Len(e) : e[k] \in Sites /\ logId[e[k]] = k - 1
  BY <1>5 DEF IdsInv
<1>7. ASSUME NEW i \in 1 .. Len(e), NEW j \in 1 .. Len(e), e[i] = e[j] PROVE i = j
  <2>1. CASE i = 1
    BY <1>4, <1>5, <1>6, <1>7, <2>1, NamesAssumption
  <2>2. CASE j = 1
    BY <1>4, <1>5, <1>6, <1>7, <2>2, NamesAssumption
  <2>3. CASE i # 1 /\ j # 1
    <3>1. i \in 2 .. Len(e) /\ j \in 2 .. Len(e)
      BY <2>3
    <3>2. i - 1 = j - 1
      BY <1>6, <1>7, <3>1
    <3> QED
      BY <3>1, <3>2
  <2> QED
    BY <2>1, <2>2, <2>3
<1>8. IsInjective(e)
  BY <1>2, <1>5, <1>7 DEF IsInjective
<1> QED
  BY <1>5, <1>8 DEF RegisteredOnce, Entries

\* A log statement is registered once (registerLogInfo).
THEOREM RegisteredOnceCorrect == Spec => []RegisteredOnce
<1>1. IInv => RegisteredOnce
  BY EntriesDiffer DEF IInv
<1> QED
  BY <1>1, Invariance, PTL

LEMMA ClosedWritten ==
  ASSUME IInv, main = "closed"
  PROVE  /\ IsInjective(file)
         /\ {file[i].tsc : i \in DOMAIN file} = (1 .. clock) \ (Lost \cup discarded)
<1>1. TypeOK /\ OrderInv /\ TakenInv /\ Emptied /\ membuf = << >> /\ \A t \in Threads : ~Waiting(t)
  BY FinalParts DEF IInv
<1>2. Handled = file
  BY <1>1, ConcatEmpty DEF Handled, TypeOK
<1> DEFINE m == Len(file)
<1>3. /\ DOMAIN file = 1 .. m /\ m \in Nat /\ clock \in Nat
      /\ \A k \in 1 .. m : /\ file[k].tsc \in Nat /\ file[k].tsc >= 1 /\ file[k].from \in Threads
                           /\ file[k].tsc <= clock
  BY <1>1, <1>2, QueueType, OrderParts
<1>4. \A i, j \in 1 .. m : i < j /\ file[i].from = file[j].from => file[i].tsc < file[j].tsc
  BY <1>1, <1>2, <1>3, OrderParts
<1> HIDE DEF m
<1>5. IsInjective(file)
  <2>1. ASSUME NEW i \in 1 .. m, NEW j \in 1 .. m, file[i] = file[j] PROVE i = j
    <3>1. ~(file[i].tsc < file[j].tsc) /\ ~(file[j].tsc < file[i].tsc)
      BY <1>3, <2>1
    <3>2. ~(i < j) /\ ~(j < i)
      BY <1>4, <2>1, <3>1
    <3> QED
      BY <3>2
  <2> QED
    BY <1>3, <2>1 DEF IsInjective
<1>6. \A n : n \in Lost <=>
        \E t \in Threads : life[t] = "deleted" /\ \E i \in DOMAIN varq[t] : varq[t][i].tsc = n
  BY DEF Lost
<1>7. ASSUME NEW k \in 1 .. m PROVE file[k].tsc \in (1 .. clock) \ (Lost \cup discarded)
  <2>1. PICK n : n = file[k].tsc
    OBVIOUS
  <2>2. PICK u \in Threads : u = file[k].from
    BY <1>3
  <2>3. n \in 1 .. clock
    BY <1>3, <2>1
  <2>4. Took(u, n)
    BY <1>2, <1>3, <2>1, <2>2 DEF Took
  <2>n. n \notin discarded
    BY <1>1, <2>3, <2>4 DEF TakenInv
  <2>5. ASSUME NEW t \in Threads, NEW i \in DOMAIN varq[t], varq[t][i].tsc = n PROVE FALSE
    <3>1. Took(t, n)
      BY <2>5 DEF Took
    <3>2. t = u
      BY <1>1, <2>3, <2>4, <2>n, <3>1 DEF TakenInv
    <3>3. file[k].tsc < varq[u][i].tsc
      BY <1>1, <1>2, <1>3, <2>2, <2>5, <3>2, OrderParts
    <3> QED
      BY <1>3, <2>1, <2>5, <3>2, <3>3
  <2> QED
    BY <1>6, <2>1, <2>3, <2>5, <2>n
<1>8. ASSUME NEW n \in 1 .. clock, n \notin Lost, n \notin discarded PROVE \E k \in 1 .. m : file[k].tsc = n
  <2>1. PICK t \in Threads : Took(t, n)
    BY <1>1, <1>8 DEF TakenInv
  <2>2. ~\E i \in DOMAIN varq[t] : varq[t][i].tsc = n
    <3>1. CASE life[t] = "deleted"
      BY <1>6, <1>8, <3>1
    <3>2. CASE life[t] # "deleted"
      <4>1. DOMAIN varq[t] = {}
        BY <1>1, <3>2 DEF Emptied
      <4> QED
        BY <4>1
    <3> QED
      BY <3>1, <3>2
  <2> QED
    BY <1>1, <1>2, <1>3, <2>1, <2>2 DEF Took
<1> QED
  BY <1>3, <1>5, <1>7, <1>8

\* When the log is closed every message is in the file, once, or found its queue
\* full, or was in a buffer that has been deleted (log, ~fmtlogDetailT, stopPollingThread, poll, closeLogFile).
THEOREM AllWrittenCorrect == Spec => []AllWritten
<1>1. IInv => AllWritten
  BY ClosedWritten DEF AllWritten
<1> QED
  BY <1>1, Invariance, PTL

================================================================================
