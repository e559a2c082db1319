-------------------------------- MODULE LogPoll --------------------------------
(***************************************************************************)
(* The log of fmtlog.h and fmtlog-inl.h: threads log messages into queues  *)
(* of their own, and one polling thread collects them, puts those of a     *)
(* poll in the order of their time stamps, and writes them.  LogQueue      *)
(* models a queue in detail and implements the first-in first-out queue    *)
(* that is used here, and finds no room for a message when it is full.     *)
(* Whether it is depends on the sizes of messages, which are left out: a   *)
(* message finds room or not.  A build with FMTLOG_BLOCK tries until it    *)
(* does; the default build discards it.                                    *)
(*                                                                         *)
(* A step of a thread or of the poll is one access to what others use too: *)
(* a time stamp, a log id, a vector under its mutex, a queue, the flag     *)
(* that a thread has ended.                                                *)
(***************************************************************************)
EXTENDS Integers, Sequences, SequencesExt

CONSTANTS
  Threads,      \* the threads that log
  Sites,        \* the log statements of the program, each with its static logId
  Once,         \* the entry of bgLogInfos for a message logged by logOnce
  None,         \* no header, no thread
  ManageFp,     \* the file was given to setLogFile to manage, and is buffered
  FlushBufSize, \* number of buffered messages that are written at once
  Blocking,     \* FMTLOG_BLOCK of this build
  Linger,       \* TRUE: the program keeps a thread until its messages were read
  MaxMsgs,      \* bound: number of time stamps, and so of messages
  MaxStarts     \* bound: calls of startPollingThread

Message == [from : Threads, site : Sites \cup {Once}, tsc : 1 .. MaxMsgs, logId : Nat]

ASSUME NamesAssumption == Once \notin Sites /\ None \notin Threads \cup Message
ASSUME ParametersAssumption ==
  /\ ManageFp \in BOOLEAN /\ Blocking \in BOOLEAN /\ Linger \in BOOLEAN
  /\ FlushBufSize \in Nat \ {0} /\ MaxMsgs \in Nat /\ MaxStarts \in Nat \ {0}

VARIABLES
  clock,           \* the last time stamp taken
  logId,           \* per log statement; 0 before it is registered
  logInfos, bgLogInfos,      \* log statements: registered; known to the poll
  infoLock,        \* logInfoMutex
  pc, msg,         \* per thread: the step it is at, the message it logs
  discarded,       \* history: the time stamps of messages that found no room
  varq,            \* per thread: its queue
  life,            \* per thread: its buffer is "none", "live", "ended" or "deleted"
  threadBuffers,   \* buffers of threads the poll does not know yet
  bgThreadBuffers, \* nodes: the thread of a buffer and the message in front
  threadRunning,   \* the polling thread is to go on
  main,            \* what the main thread does: runs, joins, polls at exit, is done
  starts,          \* number of calls of startPollingThread
  poller,          \* the step of poll
  forceFlush, pollTsc, node,   \* parameter and locals of poll
  root,            \* the node adjustHeap was called with
  membuf, file,    \* messages formatted; messages written to the file
  flushSet,        \* nextFlushTime is a time
  pollAt           \* number of messages that were handled before this poll

infoVars   == <<logId, logInfos, bgLogInfos, infoLock>>
threadVars == <<pc, msg, discarded>>
bufVars    == <<varq, life, threadBuffers>>
mainVars   == <<threadRunning, main, starts>>
outVars    == <<membuf, file, flushSet, pollAt>>
pollVars   == <<poller, forceFlush, pollTsc, node, root>>
vars == <<clock, infoVars, threadVars, bufVars, bgThreadBuffers, mainVars, outVars, pollVars>>

-----------------------------------------------------------------------------
(* Values *)

\* The entry of a log id, which counts from 0.
Known(id) == id < Len(bgLogInfos)
Info(id)  == bgLogInfos[id + 1]

\* A node of bgThreadBuffers.
Node == [tb : Threads, header : Message \cup {None}]

Handled == file \o membuf

Init ==
  /\ clock = 0
  /\ logId = [s \in Sites |-> 0]
  /\ logInfos = << >> /\ bgLogInfos = <<Once>> /\ infoLock = None
  /\ pc = [t \in Threads |-> "idle"] /\ msg = [t \in Threads |-> None]
  /\ discarded = {}
  /\ varq = [t \in Threads |-> << >>] /\ life = [t \in Threads |-> "none"]
  /\ threadBuffers = << >> /\ bgThreadBuffers = << >>
  /\ threadRunning = TRUE /\ main = "run" /\ starts = 1
  /\ poller = "polled" /\ forceFlush = FALSE /\ pollTsc = 0 /\ node = 0 /\ root = 0
  /\ membuf = << >> /\ file = << >> /\ flushSet = FALSE /\ pollAt = 0

-----------------------------------------------------------------------------
(* A thread: log, registerLogInfo, preallocate, push, and the end of the thread *)

ThreadGoes(t, from, to) == pc[t] = from /\ pc' = [pc EXCEPT ![t] = to]

\* A time stamp is taken at the log statement; log reads its logId.
Log(t, site) ==
  /\ main \in {"run", "restart"} /\ clock < MaxMsgs
  /\ ThreadGoes(t, "idle", IF site # Once /\ logId[site] = 0 THEN "register" ELSE "push")
  /\ clock' = clock + 1
  /\ msg' = [msg EXCEPT ![t] =
       [from |-> t, site |-> site, tsc |-> clock + 1,
        logId |-> IF site = Once THEN 0 ELSE logId[site]]]
  /\ UNCHANGED <<infoVars, discarded, bufVars, bgThreadBuffers, mainVars, outVars, pollVars>>

\* The header of the message has the id the log statement has after registering.
WithId(t) == msg' = [msg EXCEPT ![t].logId = logId'[msg[t].site]]

\* Mutants: the check under the lock is left out; the ids the poll knows are not
\* counted.
RegisterUnchecked(t) ==
  /\ ThreadGoes(t, "register", "emplace")
  /\ infoLock = None /\ infoLock' = t
  /\ logId' = [logId EXCEPT ![msg[t].site] = Len(logInfos) + Len(bgLogInfos)]
  /\ WithId(t)
  /\ UNCHANGED <<clock, logInfos, bgLogInfos, discarded, bufVars, bgThreadBuffers, mainVars,
                 outVars, pollVars>>

RegisterLocal(t) ==
  /\ pc[t] = "register" /\ infoLock = None
  /\ IF logId[msg[t].site] # 0
     THEN ThreadGoes(t, "register", "push") /\ UNCHANGED <<infoLock, logId>>
     ELSE /\ ThreadGoes(t, "register", "emplace") /\ infoLock' = t
          /\ logId' = [logId EXCEPT ![msg[t].site] = Len(logInfos) + 1]
  /\ WithId(t)
  /\ UNCHANGED <<clock, logInfos, bgLogInfos, discarded, bufVars, bgThreadBuffers, mainVars,
                 outVars, pollVars>>

\* registerLogInfo: unless another thread was first, the log statement gets its id...
Register(t) ==
  /\ pc[t] = "register" /\ infoLock = None
  /\ IF logId[msg[t].site] # 0
     THEN ThreadGoes(t, "register", "push") /\ UNCHANGED <<infoLock, logId>>
     ELSE /\ ThreadGoes(t, "register", "emplace") /\ infoLock' = t
          /\ logId' = [logId EXCEPT ![msg[t].site] = Len(logInfos) + Len(bgLogInfos)]
  /\ WithId(t)
  /\ UNCHANGED <<clock, logInfos, bgLogInfos, discarded, bufVars, bgThreadBuffers, mainVars,
                 outVars, pollVars>>

\* ...and then its entry in logInfos.
EmplaceInfo(t) ==
  /\ ThreadGoes(t, "emplace", "push")
  /\ logInfos' = Append(logInfos, msg[t].site)
  /\ infoLock' = None
  /\ UNCHANGED <<clock, logId, bgLogInfos, msg, discarded, bufVars, bgThreadBuffers, mainVars,
                 outVars, pollVars>>

\* preallocate: the first message of a thread makes its buffer.
Preallocate(t) ==
  /\ pc[t] = "push" /\ life[t] = "none"
  /\ life' = [life EXCEPT ![t] = "live"]
  /\ threadBuffers' = Append(threadBuffers, t)
  /\ UNCHANGED <<clock, infoVars, threadVars, varq, bgThreadBuffers, mainVars, outVars, pollVars>>

\* The queue has room for the message...
Push(t) ==
  /\ life[t] # "none"
  /\ ThreadGoes(t, "push", "idle")
  /\ varq' = [varq EXCEPT ![t] = Append(@, msg[t])]
  /\ msg' = [msg EXCEPT ![t] = None]
  /\ UNCHANGED <<clock, infoVars, discarded, life, threadBuffers, bgThreadBuffers, mainVars,
                 outVars, pollVars>>

\* ...or not: allocMsg returns nullptr, and log gives up unless FMTLOG_BLOCK is set.
\* The queue may be empty: one that cannot wrap around has less room than blocks.
Discard(t) ==
  /\ ~Blocking /\ life[t] # "none"
  /\ ThreadGoes(t, "push", "idle")
  /\ discarded' = discarded \cup {msg[t].tsc}
  /\ msg' = [msg EXCEPT ![t] = None]
  /\ UNCHANGED <<clock, infoVars, bufVars, bgThreadBuffers, mainVars, outVars, pollVars>>

\* The thread ends: ~ThreadBufferDestroyer.  (It does nothing for a thread that has
\* no buffer: that one is like a thread that never logs.)
End(t) ==
  /\ life[t] = "live"
  /\ Linger => varq[t] = << >>
  /\ ThreadGoes(t, "idle", "ended")
  /\ life' = [life EXCEPT ![t] = "ended"]
  /\ UNCHANGED <<clock, infoVars, msg, discarded, varq, threadBuffers, bgThreadBuffers, mainVars,
                 outVars, pollVars>>

Thread(t) ==
  \/ \E site \in Sites \cup {Once} : Log(t, site)
  \/ Register(t) \/ EmplaceInfo(t) \/ Preallocate(t) \/ Push(t) \/ Discard(t) \/ End(t)

-----------------------------------------------------------------------------
(* The heap of nodes: adjustHeap *)

\* The header of node x goes before that of node y.
Earlier(x, y) == x.header # None /\ (y.header = None \/ x.header.tsc < y.header.tsc)

\* Mutant: the right child is compared with its parent only.
LeastRight(h, i) ==
  IF 2 * i + 1 <= Len(h) /\ Earlier(h[2 * i + 1], h[i]) THEN 2 * i + 1
  ELSE IF 2 * i <= Len(h) /\ Earlier(h[2 * i], h[i]) THEN 2 * i ELSE i

\* The node of heap h, the child of node i included, that goes first; indices
\* count from 1.
Least(h, i) ==
  LET left == 2 * i
      min  == IF left <= Len(h) /\ Earlier(h[left], h[i]) THEN left ELSE i
  IN IF left + 1 <= Len(h) /\ Earlier(h[left + 1], h[min]) THEN left + 1 ELSE min

\* Heap h with nodes i and j exchanged.
Swap(h, i, j) == [h EXCEPT ![i] = h[j], ![j] = h[i]]

-----------------------------------------------------------------------------
(* poll *)

PollGoes(from, to) == poller = from /\ poller' = to

\* Mutant: the buffer keeps what was written.
FlushKeep == file' = Handled /\ flushSet' = FALSE /\ UNCHANGED membuf

\* flushLogFile
Flush == file' = Handled /\ membuf' = << >> /\ flushSet' = FALSE

\* What was logged before now can be handled by this poll.
ReadClock ==
  /\ PollGoes("top", "infos")
  /\ pollTsc' = clock + 1
  /\ pollAt' = Len(Handled)
  /\ UNCHANGED <<clock, infoVars, threadVars, bufVars, bgThreadBuffers, mainVars,
                 membuf, file, flushSet, forceFlush, node, root>>

\* Mutant: new entries go to the front.
MoveLogInfosFront ==
  /\ PollGoes("infos", "buffers")
  /\ logInfos # << >> => infoLock = None
  /\ bgLogInfos' = logInfos \o bgLogInfos /\ logInfos' = << >>
  /\ UNCHANGED <<clock, logId, infoLock, threadVars, bufVars, bgThreadBuffers, mainVars,
                 outVars, forceFlush, pollTsc, node, root>>

\* The lock is taken only if there is something in logInfos.
MoveLogInfos ==
  /\ PollGoes("infos", "buffers")
  /\ logInfos # << >> => infoLock = None
  /\ bgLogInfos' = bgLogInfos \o logInfos /\ logInfos' = << >>
  /\ UNCHANGED <<clock, logId, infoLock, threadVars, bufVars, bgThreadBuffers, mainVars,
                 outVars, forceFlush, pollTsc, node, root>>

MoveThreadBuffers ==
  /\ PollGoes("buffers", "front")
  /\ bgThreadBuffers' = bgThreadBuffers
       \o [i \in DOMAIN threadBuffers |-> [tb |-> threadBuffers[i], header |-> None]]
  /\ threadBuffers' = << >>
  /\ node' = 1
  /\ UNCHANGED <<clock, infoVars, threadVars, varq, life, mainVars, outVars, forceFlush, pollTsc, root>>

\* front() of the queue of a thread
FrontOf(t) == IF varq[t] = << >> THEN None ELSE Head(varq[t])

\* The loop over the nodes: what is in front of a queue that had nothing.
ReadFront ==
  /\ poller = "front" /\ node <= Len(bgThreadBuffers)
  /\ IF bgThreadBuffers[node].header # None
     THEN PollGoes("front", "front") /\ node' = node + 1 /\ UNCHANGED bgThreadBuffers
     ELSE LET h == FrontOf(bgThreadBuffers[node].tb) IN
          /\ bgThreadBuffers' = [bgThreadBuffers EXCEPT ![node].header = h]
          /\ IF h = None THEN PollGoes("front", "ended") /\ UNCHANGED node
             ELSE PollGoes("front", "front") /\ node' = node + 1
  /\ UNCHANGED <<clock, infoVars, threadVars, bufVars, mainVars, outVars, forceFlush, pollTsc, root>>

\* Mutant: the last node goes, whichever ended.
DeleteLast ==
  /\ PollGoes("ended", "front")
  /\ LET tb == bgThreadBuffers[node].tb IN
     IF life[tb] = "ended"
     THEN /\ life' = [life EXCEPT ![tb] = "deleted"]
          /\ bgThreadBuffers' = Front(bgThreadBuffers)
          /\ UNCHANGED node
     ELSE node' = node + 1 /\ UNCHANGED <<life, bgThreadBuffers>>
  /\ UNCHANGED <<clock, infoVars, threadVars, varq, threadBuffers, mainVars, outVars, forceFlush, pollTsc, root>>

\* If its thread has ended the buffer is deleted; the last node takes its place.
DeleteEnded ==
  /\ PollGoes("ended", "front")
  /\ LET tb == bgThreadBuffers[node].tb IN
     IF life[tb] = "ended"
     THEN /\ life' = [life EXCEPT ![tb] = "deleted"]
          /\ bgThreadBuffers' = Front([bgThreadBuffers EXCEPT ![node] = Last(bgThreadBuffers)])
          /\ UNCHANGED node
     ELSE node' = node + 1 /\ UNCHANGED <<life, bgThreadBuffers>>
  /\ UNCHANGED <<clock, infoVars, threadVars, varq, threadBuffers, mainVars, outVars, forceFlush, pollTsc, root>>

\* Without a node poll returns; otherwise the nodes become a heap, from the middle
\* to the first.
MakeHeap ==
  /\ node > Len(bgThreadBuffers)
  /\ IF bgThreadBuffers = << >>
     THEN PollGoes("front", "polled") /\ UNCHANGED <<node, root>>
     ELSE /\ PollGoes("front", "adjust")
          /\ root' = Len(bgThreadBuffers) \div 2 + 1 /\ node' = root'
  /\ UNCHANGED <<clock, infoVars, threadVars, bufVars, bgThreadBuffers, mainVars, outVars,
                 forceFlush, pollTsc>>

\* The loop of adjustHeap: a node goes down until it goes before its children.
\* Then it is the turn of the node before its root, if there is one.
AdjustHeap ==
  /\ poller = "adjust"
  /\ LET min == Least(bgThreadBuffers, node)
     IN IF min # node
        THEN /\ bgThreadBuffers' = Swap(bgThreadBuffers, node, min)
             /\ node' = min /\ UNCHANGED <<poller, root>>
        ELSE /\ poller' = IF root = 1 THEN "handle" ELSE "adjust"
             /\ root' = root - 1 /\ node' = root'
             /\ UNCHANGED bgThreadBuffers
  /\ UNCHANGED <<clock, infoVars, threadVars, bufVars, mainVars, outVars, forceFlush, pollTsc>>

\* Mutant: a message is handled before its log statement is known to the poll.
CandidateUnknown ==
  LET h == bgThreadBuffers[1].header
  IN IF h = None THEN None ELSE IF h.tsc >= pollTsc THEN None ELSE h

\* The message to handle next, None if it has to wait for a later poll.
Candidate ==
  LET h == bgThreadBuffers[1].header
  IN IF h = None THEN None ELSE IF ~Known(h.logId) \/ h.tsc >= pollTsc THEN None ELSE h

\* handleLog and pop.
Handle ==
  /\ PollGoes("handle", "next")
  /\ Candidate # None
  /\ IF Len(membuf) + 1 >= FlushBufSize
     THEN file' = Append(Handled, Candidate) /\ membuf' = << >> /\ flushSet' = FALSE
     ELSE membuf' = Append(membuf, Candidate) /\ UNCHANGED <<file, flushSet>>
  /\ varq' = [varq EXCEPT ![bgThreadBuffers[1].tb] = Tail(@)]
  /\ UNCHANGED <<clock, infoVars, threadVars, life, threadBuffers, bgThreadBuffers, mainVars,
                 pollAt, forceFlush, pollTsc, node, root>>

\* The next message of that thread; the heap has to be put in order again.
NextHeader ==
  /\ PollGoes("next", "adjust")
  /\ bgThreadBuffers' = [bgThreadBuffers EXCEPT ![1].header = FrontOf(bgThreadBuffers[1].tb)]
  /\ root' = 1 /\ node' = 1
  /\ UNCHANGED <<clock, infoVars, threadVars, bufVars, mainVars, outVars, forceFlush, pollTsc>>

\* The end of poll: write now, or later what can wait.
EndPoll ==
  /\ PollGoes("handle", "polled")
  /\ Candidate = None
  /\ \/ membuf = << >> /\ UNCHANGED <<membuf, file, flushSet>>
     \/ membuf # << >> /\ (~ManageFp \/ forceFlush \/ flushSet) /\ Flush
     \/ /\ membuf # << >> /\ ManageFp /\ ~forceFlush
        /\ flushSet' = TRUE /\ UNCHANGED <<membuf, file>>
  /\ UNCHANGED <<clock, infoVars, threadVars, bufVars, bgThreadBuffers, mainVars, pollAt,
                 forceFlush, pollTsc, node, root>>

Poll ==
  \/ ReadClock \/ MoveLogInfos \/ MoveThreadBuffers \/ ReadFront \/ DeleteEnded
  \/ MakeHeap \/ AdjustHeap \/ Handle \/ NextHeader \/ EndPoll

-----------------------------------------------------------------------------
(* The polling thread and the main thread *)

PollEnded == poller = "polled" /\ forceFlush

\* The loop of the polling thread: poll(false) while it is to go on, then poll(true).
PollAgain ==
  /\ ~forceFlush
  /\ PollGoes("polled", "top")
  /\ forceFlush' = ~threadRunning
  /\ UNCHANGED <<clock, infoVars, threadVars, bufVars, bgThreadBuffers, mainVars, outVars,
                 pollTsc, node, root>>

\* stopPollingThread: when startPollingThread is called again, and at exit. The
\* program exits only when no log statement is running.
Stop ==
  /\ main = "run"
  /\ threadRunning' = FALSE
  /\ \/ main' = "restart" /\ starts < MaxStarts
     \/ main' = "exit" /\ \A t \in Threads : pc[t] \in {"idle", "ended"}
  /\ UNCHANGED <<clock, infoVars, threadVars, bufVars, bgThreadBuffers, starts, outVars, pollVars>>

\* The polling thread is joined, and started again.
Restart ==
  /\ main = "restart" /\ PollEnded
  /\ main' = "run" /\ threadRunning' = TRUE /\ starts' = starts + 1
  /\ forceFlush' = FALSE
  /\ UNCHANGED <<clock, infoVars, threadVars, bufVars, bgThreadBuffers, outVars, poller, pollTsc, node, root>>

\* ~fmtlogDetailT: the polling thread is joined, and the main thread polls.
Destroy ==
  /\ main = "exit" /\ PollEnded
  /\ main' = "destroy" /\ poller' = "top"
  /\ UNCHANGED <<clock, infoVars, threadVars, bufVars, bgThreadBuffers, threadRunning, starts,
                 outVars, forceFlush, pollTsc, node, root>>

\* Mutant: the file is closed with messages in the buffer.
CloseOnly ==
  /\ main = "destroy" /\ PollEnded
  /\ main' = "closed"
  /\ UNCHANGED <<clock, infoVars, threadVars, bufVars, bgThreadBuffers, threadRunning, starts,
                 outVars, pollVars>>

\* closeLogFile
Close ==
  /\ main = "destroy" /\ PollEnded
  /\ main' = "closed"
  /\ IF membuf # << >> THEN Flush ELSE UNCHANGED <<membuf, file, flushSet>>
  /\ UNCHANGED <<clock, infoVars, threadVars, bufVars, bgThreadBuffers, threadRunning, starts,
                 pollAt, pollVars>>

Main == Stop \/ Restart \/ Destroy \/ Close

Next == Poll \/ PollAgain \/ Main \/ \E t \in Threads : Thread(t)

Spec == Init /\ [][Next]_vars

\* A log statement that was begun ends (see AllocSucceeds of LogQueue); the polling thread is scheduled; the main
\* thread, once it stops the polling thread, goes on.
FairSpec ==
  /\ Spec
  /\ \A t \in Threads :
       WF_vars(Register(t) \/ EmplaceInfo(t) \/ Preallocate(t) \/ Push(t) \/ Discard(t))
  /\ WF_vars(Poll \/ PollAgain)
  /\ WF_vars(Restart \/ Destroy \/ Close)

-----------------------------------------------------------------------------
(* Properties *)

TypeOK ==
  /\ clock \in 0 .. MaxMsgs
  /\ logId \in [Sites -> Nat]
  /\ logInfos \in Seq(Sites) /\ bgLogInfos \in Seq(Sites \cup {Once})
  /\ infoLock \in Threads \cup {None}
  /\ pc \in [Threads -> {"idle", "register", "emplace", "push", "ended"}]
  /\ msg \in [Threads -> Message \cup {None}]
  /\ \A t \in Threads : pc[t] \in {"idle", "ended"} \/ msg[t] # None
  /\ discarded \in SUBSET (1 .. MaxMsgs)
  /\ varq \in [Threads -> Seq(Message)]
  /\ life \in [Threads -> {"none", "live", "ended", "deleted"}]
  /\ threadBuffers \in Seq(Threads)
  /\ bgThreadBuffers \in Seq(Node)
  /\ threadRunning \in BOOLEAN
  /\ main \in {"run", "restart", "exit", "destroy", "closed"}
  /\ starts \in 1 .. MaxStarts /\ (main = "restart" => starts < MaxStarts)
  /\ poller \in {"top", "infos", "buffers", "front", "ended", "adjust", "handle", "next", "polled"}
  /\ forceFlush \in BOOLEAN /\ pollTsc \in 0 .. MaxMsgs + 1 /\ node \in Nat /\ root \in Nat
  /\ membuf \in Seq(Message) /\ file \in Seq(Message)
  /\ flushSet \in BOOLEAN /\ pollAt \in Nat

\* A log id names its log statement for good, also while the poll moves entries
\* from one vector to the other: a message that the poll may handle
\* is formatted by the entry of its own log statement.
SiteOfId ==
  /\ \A i \in DOMAIN Handled : Known(Handled[i].logId) /\ Info(Handled[i].logId) = Handled[i].site
  /\ \A t \in Threads : \A i \in DOMAIN varq[t] :
       Known(varq[t][i].logId) => Info(varq[t][i].logId) = varq[t][i].site

\* However many threads come to a log statement at once, it is registered once.
RegisteredOnce == IsInjective(bgLogInfos \o logInfos)

\* The messages of one poll are written in the order of their time stamps,
\* whatever is pushed meanwhile: the heap never lets a later one out first.
SortedInPoll ==
  \A i, j \in DOMAIN Handled : pollAt < i /\ i < j => Handled[i].tsc < Handled[j].tsc

\* The messages of one thread are written in its order, and once, over any
\* number of polls and restarts of the polling thread.
ThreadOrder ==
  \A i, j \in DOMAIN Handled :
    i < j /\ Handled[i].from = Handled[j].from => Handled[i].tsc < Handled[j].tsc

\* The poll has the buffers that exist and no other, each once: none that was
\* deleted is read, none is forgotten; and a header it keeps across polls is
\* still the one in front of its queue.
NodesLive ==
  LET tbs == [i \in DOMAIN bgThreadBuffers |-> bgThreadBuffers[i].tb] \o threadBuffers
  IN /\ IsInjective(tbs)
     /\ Range(tbs) = {t \in Threads : life[t] \in {"live", "ended"}}
     /\ \A i \in DOMAIN bgThreadBuffers : LET n == bgThreadBuffers[i] IN
          n.header # None /\ (poller = "next" => i # 1) =>
            varq[n.tb] # << >> /\ n.header = Head(varq[n.tb])

\* When the log is closed, every message whose log statement was run is in the
\* file, once, unless its queue had no room for it or it was in a buffer that has
\* been deleted (see CollectsAll); and those are not in the file.
Lost == UNION {{varq[t][i].tsc : i \in DOMAIN varq[t]} : t \in {u \in Threads : life[u] = "deleted"}}

AllWritten == main = "closed" =>
  IsInjective(file) /\ {file[i].tsc : i \in DOMAIN file} = (1 .. clock) \ (Lost \cup discarded)

\* A message that is in a queue is handled.
HandledOnceSent ==
  \A n \in 1 .. MaxMsgs : (\E t \in Threads : \E i \in DOMAIN varq[t] : varq[t][i].tsc = n)
                            ~> (\E i \in DOMAIN Handled : Handled[i].tsc = n)

\* What fmtlog.h:114 says of poll: it collects the messages of all threads, so a
\* buffer is not deleted with a message in it.
CollectsAll == \A t \in Threads : life[t] = "deleted" => varq[t] = << >>

\* What fmtlog.h:115 says of poll(true): the internal file buffer is flushed.
ForceFlushes == PollEnded => membuf = << >>

-----------------------------------------------------------------------------
(* The inductive invariant *)

Entries    == bgLogInfos \o logInfos
Waiting(t) == pc[t] \in {"register", "emplace", "push"}

\* The id of a log statement is the place of its entry, or will be when the
\* thread that has the lock has appended it.
IdsInv ==
  /\ \A t \in Threads : pc[t] = "emplace" <=> infoLock = t
  /\ bgLogInfos # << >> /\ bgLogInfos[1] = Once
  /\ \A k \in 2 .. Len(Entries) : Entries[k] \in Sites /\ logId[Entries[k]] = k - 1
  /\ \A s \in Sites : logId[s] # 0 =>
       \/ logId[s] < Len(Entries) /\ Entries[logId[s] + 1] = s
       \/ logId[s] = Len(Entries) /\ infoLock # None /\ msg[infoLock].site = s
  /\ infoLock # None => logId[msg[infoLock].site] = Len(Entries)

\* A message has the id of its log statement as soon as that has one.
HasItsId(m) ==
  IF m.site = Once THEN m.logId = 0 ELSE m.logId = logId[m.site] /\ m.logId # 0

MessageIdsInv ==
  /\ \A t \in Threads : pc[t] \in {"register", "emplace"} => msg[t].site \in Sites
  /\ \A t \in Threads : pc[t] \in {"emplace", "push"} => HasItsId(msg[t])
  /\ \A t \in Threads : \A i \in DOMAIN varq[t] : HasItsId(varq[t][i])

LifeInv ==
  /\ \A t \in Threads : pc[t] = "ended" <=> life[t] \in {"ended", "deleted"}
  /\ \A t \in Threads : life[t] = "none" => varq[t] = << >>

\* The poll is where its loops let it be.
PollerInv ==
  /\ poller = "front" => node >= 1
  /\ poller = "ended" => node \in DOMAIN bgThreadBuffers /\ bgThreadBuffers[node].header = None
  /\ poller \in {"adjust", "handle", "next"} => bgThreadBuffers # << >>
  /\ poller = "adjust" => root >= 1 /\ node \in root .. Len(bgThreadBuffers)

\* From its root on, the nodes are a heap, but for the node that is going down.
HeapInv ==
  /\ poller \in {"handle", "next"} =>
       \A j \in 2 .. Len(bgThreadBuffers) :
         ~Earlier(bgThreadBuffers[j], bgThreadBuffers[j \div 2])
  /\ poller = "adjust" =>
       \A j \in 2 .. Len(bgThreadBuffers) :
         /\ j \div 2 >= root /\ j \div 2 # node =>
              ~Earlier(bgThreadBuffers[j], bgThreadBuffers[j \div 2])
         /\ j \div 2 = node /\ node \div 2 >= root =>
              ~Earlier(bgThreadBuffers[j], bgThreadBuffers[node \div 2])

\* The messages of a thread: handled, then in its queue, then the one it logs.
OrderInv ==
  /\ \A t \in Threads : Waiting(t) => msg[t].from = t /\ msg[t].tsc <= clock
  /\ \A t \in Threads : \A i \in DOMAIN varq[t] :
       /\ varq[t][i].from = t /\ varq[t][i].tsc <= clock
       /\ \A j \in DOMAIN varq[t] : i < j => varq[t][i].tsc < varq[t][j].tsc
       /\ Waiting(t) => varq[t][i].tsc < msg[t].tsc
  /\ \A k \in DOMAIN Handled : LET t == Handled[k].from IN
       /\ Handled[k].tsc <= clock
       /\ \A i \in DOMAIN varq[t] : Handled[k].tsc < varq[t][i].tsc
       /\ Waiting(t) => Handled[k].tsc < msg[t].tsc
  /\ ThreadOrder

\* Thread t took time stamp n and has a message with it; every time stamp was taken
\* by one thread, or its message was discarded and is nowhere.
Took(t, n) ==
  \/ Waiting(t) /\ msg[t].tsc = n
  \/ \E i \in DOMAIN varq[t] : varq[t][i].tsc = n
  \/ \E k \in DOMAIN Handled : Handled[k].from = t /\ Handled[k].tsc = n

TakenInv ==
  /\ discarded \subseteq 1 .. clock
  /\ \A n \in 1 .. clock :
       IF n \in discarded
       THEN \A u \in Threads : ~Took(u, n)
       ELSE \E t \in Threads : Took(t, n) /\ \A u \in Threads : Took(u, n) => u = t

\* Nothing that this poll has handled is later than what it may still handle.
SortedInv ==
  /\ SortedInPoll
  /\ pollAt <= Len(Handled)
  /\ poller \in {"infos", "buffers", "front", "ended"} => pollAt = Len(Handled)
  /\ poller \in {"adjust", "handle", "next"} =>
       \A i \in DOMAIN bgThreadBuffers : \A k \in DOMAIN Handled :
         k > pollAt /\ bgThreadBuffers[i].header # None /\ (poller = "next" => i # 1) =>
           Handled[k].tsc < bgThreadBuffers[i].header.tsc
  /\ poller = "next" =>
       pollAt < Len(Handled) /\ Handled[Len(Handled)].from = bgThreadBuffers[1].tb

\* This poll has looked what is in front of the queue of node i.
Collected(i) ==
  \/ poller = "front" /\ i < node
  \/ poller = "ended" /\ i <= node
  \/ poller \in {"adjust", "handle"}
  \/ poller = "next" /\ i # 1

\* What the last poll has collected so far, when nothing is logged any more.
FinalInv ==
  /\ main \in {"exit", "destroy", "closed"} => \A t \in Threads : ~Waiting(t)
  /\ main \in {"destroy", "closed"} => forceFlush
  /\ main = "destroy" =>
       /\ poller # "top" => pollTsc = clock + 1
       /\ poller \notin {"top", "infos"} => logInfos = << >>
       /\ poller \notin {"top", "infos", "buffers"} => threadBuffers = << >>
       /\ \A i \in DOMAIN bgThreadBuffers :
            Collected(i) /\ bgThreadBuffers[i].header = None =>
              varq[bgThreadBuffers[i].tb] = << >>
  /\ main = "closed" => poller = "polled" /\ membuf = << >>
  /\ main = "closed" \/ (main = "destroy" /\ poller = "polled") =>
       \A t \in Threads : life[t] # "deleted" => varq[t] = << >>

IInv ==
  /\ TypeOK /\ IdsInv /\ MessageIdsInv /\ SiteOfId /\ LifeInv /\ PollerInv /\ NodesLive
  /\ HeapInv /\ OrderInv /\ TakenInv /\ SortedInv /\ FinalInv
=============================================================================
