-------------------------------- MODULE LogFile --------------------------------
(***************************************************************************)
(* The file of fmtlog-inl.h: messages are formatted one after the other in  *)
(* membuf, which flushLogFile writes to the file that is open.  A file that *)
(* setLogFile was given to manage is written when enough has come together, *)
(* when a message is urgent or when a while has passed; any other at the    *)
(* end of each poll.                                                        *)
(*                                                                         *)
(* These functions take no lock: the program changes the file while nothing *)
(* polls.  A callback calls no function of the log, every write succeeds,   *)
(* and an fopen that fails changes nothing.                                 *)
(***************************************************************************)
EXTENDS Integers

CONSTANTS
  Files,         \* what the program opens for the log
  NoFile,        \* outputFp is null
  Lengths,       \* lengths of a formatted message, with its end of line
  FlushBufSize,  \* setFlushBufSize
  FlushDelay,    \* setFlushDelay
  FlushFirst,    \* the program empties the buffer before it names another file
  MaxLogs,       \* bound: number of messages
  MaxTime        \* bound: time of the last poll

ASSUME FileAssumption ==
  /\ NoFile \notin Files /\ Lengths \subseteq Nat \ {0}
  /\ FlushBufSize \in Nat /\ FlushDelay \in Nat /\ FlushFirst \in BOOLEAN
  /\ MaxLogs \in Nat /\ MaxTime \in Nat

VARIABLES
  outputFp,
  manageFp,
  fpos,          \* position in the file of the first byte of membuf
  membuf,        \* the messages formatted, and where each begins
  bufSize,       \* membuf.size()
  nextFlushTime,
  contents,      \* per file, the messages in it, and where each begins
  length,        \* per file, its length in bytes
  polling,       \* poll is handling messages
  now,           \* the time poll has read, if it did not return early
  logs,          \* history: number of messages formatted
  due            \* history: those formatted while a file was open, and not cut off since

bufVars  == <<membuf, bufSize, nextFlushTime>>
diskVars == <<contents, length>>
fpVars   == <<outputFp, manageFp>>
histVars == <<logs, due>>
fileVars == <<fpVars, fpos, bufVars, diskVars, polling, now, histVars>>

-----------------------------------------------------------------------------
Untold == -1

\* numeric_limits<int64_t>::max()
Never == MaxTime + FlushDelay + 1

\* A message: its number, where it begins, its length, the position its callback
\* was told, the file that was open, whether it was managed, and the time.
Message ==
  [n : Nat, pos : Nat, len : Lengths, told : Nat \cup {Untold},
   to : Files \cup {NoFile}, managed : BOOLEAN, at : 0 .. MaxTime]

\* The constructor opens stdout, which it does not manage.
FileInit ==
  /\ outputFp \in Files /\ manageFp = FALSE /\ fpos = 0
  /\ membuf = {} /\ bufSize = 0 /\ nextFlushTime = Never
  /\ contents = [f \in Files |-> {}] /\ length = [f \in Files |-> 0]
  /\ polling = FALSE /\ now = 0 /\ logs = 0 /\ due = {}

-----------------------------------------------------------------------------
(* flushLogFile of a buffer of size bytes that holds msgs, to files of lengths lens *)

FilesAfter(files, lens, msgs) ==
  IF outputFp = NoFile THEN files
  ELSE [files EXCEPT ![outputFp] = @ \cup {[m EXCEPT !.pos = @ + lens[outputFp]] : m \in msgs}]

LengthsAfter(lens, size) ==
  IF outputFp = NoFile THEN lens ELSE [lens EXCEPT ![outputFp] = @ + size]

WriteOut(files, lens, msgs, size) ==
  contents' = FilesAfter(files, lens, msgs) /\ length' = LengthsAfter(lens, size)

\* Mutant: the position is not moved on.
PosAfterNot(start, size) == start

\* fpos after it, if it was start before.
PosAfter(start, size) == IF outputFp # NoFile /\ manageFp THEN start + size ELSE start

\* Mutant: the buffer is not cleared.
ClearBufNot == UNCHANGED <<membuf, bufSize>> /\ nextFlushTime' = Never

ClearBuf == membuf' = {} /\ bufSize' = 0 /\ nextFlushTime' = Never

-----------------------------------------------------------------------------
(* poll.  When no thread has a buffer left it returns before it looks at    *)
(* membuf (MakeHeap of LogPoll): such a poll changes nothing here.          *)

BeginPoll(t) ==
  /\ ~polling /\ polling' = TRUE
  /\ t \in now .. MaxTime /\ now' = t
  /\ UNCHANGED <<fpVars, fpos, bufVars, diskVars, histVars>>

Formatted(len, callBack) ==
  [n |-> logs + 1, pos |-> bufSize, len |-> len,
   told |-> IF callBack THEN fpos + bufSize ELSE Untold,
   to |-> outputFp, managed |-> manageFp, at |-> now]

\* handleLog.  callBack: there is a callback for messages of this level; urgent:
\* the level is one of flushOn.
HandleLog(len, callBack, urgent) ==
  /\ polling /\ logs < MaxLogs
  /\ logs' = logs + 1
  /\ due' = IF outputFp = NoFile THEN due ELSE due \cup {logs + 1}
  /\ LET size == bufSize + len
         msgs == membuf \cup {Formatted(len, callBack)}
     IN IF size >= FlushBufSize \/ urgent
        THEN WriteOut(contents, length, msgs, size) /\ fpos' = PosAfter(fpos, size) /\ ClearBuf
        ELSE /\ membuf' = msgs /\ bufSize' = size
             /\ UNCHANGED <<fpos, nextFlushTime, diskVars>>
  /\ UNCHANGED <<fpVars, polling, now>>

\* Mutant: each poll puts the time off.
EndPollPutOff(forceFlush) ==
  /\ polling /\ polling' = FALSE
  /\ IF bufSize # 0 /\ (~manageFp \/ forceFlush \/ now > nextFlushTime)
     THEN WriteOut(contents, length, membuf, bufSize) /\ fpos' = PosAfter(fpos, bufSize) /\ ClearBuf
     ELSE /\ nextFlushTime' = IF bufSize # 0 THEN now + FlushDelay ELSE nextFlushTime
          /\ UNCHANGED <<fpos, membuf, bufSize, diskVars>>
  /\ UNCHANGED <<fpVars, now, histVars>>

\* What poll does when it has handled the messages there are.
EndPoll(forceFlush) ==
  /\ polling /\ polling' = FALSE
  /\ IF bufSize # 0 /\ (~manageFp \/ forceFlush \/ now > nextFlushTime)
     THEN WriteOut(contents, length, membuf, bufSize) /\ fpos' = PosAfter(fpos, bufSize) /\ ClearBuf
     ELSE /\ nextFlushTime' = IF bufSize # 0 /\ nextFlushTime = Never
                              THEN now + FlushDelay ELSE nextFlushTime
          /\ UNCHANGED <<fpos, membuf, bufSize, diskVars>>
  /\ UNCHANGED <<fpVars, now, histVars>>

-----------------------------------------------------------------------------
(* Change of the file *)

\* Mutant: the buffer is kept, for whatever file comes next.
FlushOnCloseNot(files, lens) == contents' = files /\ length' = lens /\ UNCHANGED bufVars

\* What closeLogFile does but for the three variables its callers store.
FlushOnClose(files, lens) ==
  IF bufSize # 0 THEN WriteOut(files, lens, membuf, bufSize) /\ ClearBuf
  ELSE contents' = files /\ length' = lens /\ UNCHANGED bufVars

CloseLogFile ==
  /\ ~polling
  /\ FlushOnClose(contents, length)
  /\ fpos' = PosAfter(fpos, bufSize)
  /\ outputFp' = NoFile /\ manageFp' = FALSE
  /\ UNCHANGED <<polling, now, histVars>>

\* setLogFile with a name: opened to append to it.  The position is read before
\* the old file is written and closed.
SetLogFile(f) ==
  /\ ~polling /\ (FlushFirst => bufSize = 0)
  /\ FlushOnClose(contents, length)
  /\ fpos' = PosAfter(length[f], bufSize)
  /\ outputFp' = f /\ manageFp' = TRUE
  /\ UNCHANGED <<polling, now, histVars>>

\* setLogFile with a name, of a file that is not open, and to be truncated.
SetLogFileTruncated(f) ==
  /\ ~polling /\ (FlushFirst => bufSize = 0)
  /\ f # outputFp
  /\ FlushOnClose([contents EXCEPT ![f] = {}], [length EXCEPT ![f] = 0])
  /\ fpos' = PosAfter(0, bufSize)
  /\ outputFp' = f /\ manageFp' = TRUE
  /\ due' = due \ {m.n : m \in contents[f]}
  /\ UNCHANGED <<polling, now, logs>>

\* setLogFile with a FILE*, which must not be the one closeLogFile closes.
SetLogFp(f, manage) ==
  /\ ~polling /\ (manageFp => f # outputFp)
  /\ FlushOnClose(contents, length)
  /\ fpos' = IF manage THEN length'[f] ELSE 0
  /\ outputFp' = f /\ manageFp' = manage
  /\ UNCHANGED <<polling, now, histVars>>

-----------------------------------------------------------------------------
FileNext ==
  \/ \E t \in 0 .. MaxTime : BeginPoll(t)
  \/ \E len \in Lengths, callBack, urgent \in BOOLEAN : HandleLog(len, callBack, urgent)
  \/ \E forceFlush \in BOOLEAN : EndPoll(forceFlush)
  \/ CloseLogFile
  \/ \E f \in Files : SetLogFile(f) \/ SetLogFileTruncated(f)
  \/ \E f \in Files, manage \in BOOLEAN : SetLogFp(f, manage)

FileSpec == FileInit /\ [][FileNext]_fileVars

-----------------------------------------------------------------------------
(* Properties *)

FileTypeOK ==
  /\ outputFp \in Files \cup {NoFile} /\ manageFp \in BOOLEAN /\ fpos \in Nat
  /\ membuf \subseteq Message /\ bufSize \in Nat /\ nextFlushTime \in Nat
  /\ contents \in [Files -> SUBSET Message] /\ length \in [Files -> Nat]
  /\ polling \in BOOLEAN /\ now \in 0 .. MaxTime
  /\ logs \in 0 .. MaxLogs /\ due \subseteq 1 .. MaxLogs

\* fmtlog.h:137: the callback gets the position of its message in the log file, for
\* files the log manages.
PositionTold ==
  \A f \in Files : \A m \in contents[f] :
    m.managed /\ m.told # Untold => m.told = m.pos

\* Every message goes to the file that was open when it was formatted, however the
\* file is changed before it is written; none of them is lost.
InItsFile ==
  /\ \A f \in Files : \A m \in contents[f] : m.to = f
  /\ \A m \in membuf : m.to = outputFp
  /\ \A k \in due : \/ \E m \in membuf : m.n = k
                    \/ \E f \in Files : \E m \in contents[f] : m.n = k

\* The messages of msgs do not overlap and are in the order they were formatted in.
InOrder(msgs) ==
  \A l, m \in msgs : (l.n < m.n => l.pos + l.len <= m.pos) /\ (l.n = m.n => l = m)

\* In a file messages are whole and in order, and each is there once.
FilesInOrder == \A f \in Files : InOrder(contents[f])

\* After a poll that has not returned early, and whatever the program did to the file
\* since, the buffer holds nothing for a file that is not managed (fmtlog.h:110) and no
\* message that was put there more than the delay ago (fmtlog.h:120).
NotKept ==
  ~polling /\ bufSize # 0 =>
    manageFp /\ \A m \in membuf : now <= m.at + FlushDelay

-----------------------------------------------------------------------------
(* The inductive invariant *)

\* Messages msgs, the last of them the k-th, are in the buffer, size bytes long.
Buffered(msgs, size, k) ==
  /\ size = 0 => msgs = {}
  /\ \A m \in msgs : /\ m.pos + m.len <= size /\ m.n \in 1 .. k
                     /\ m.to = outputFp /\ m.managed = manageFp
  /\ InOrder(msgs)

\* What is in the files was formatted before msgs.
Written(files, lens, msgs, k) ==
  \A f \in Files :
    /\ InOrder(files[f])
    /\ \A m \in files[f] : /\ m.to = f /\ m.pos + m.len <= lens[f] /\ m.n \in 1 .. k
                           /\ \A b \in msgs : m.n < b.n

\* Each message of d is in a file, or in msgs while a file is open.
Somewhere(files, msgs, d) ==
  \A k \in d : \/ outputFp # NoFile /\ \E m \in msgs : m.n = k
              \/ \E f \in Files : \E m \in files[f] : m.n = k

\* What was buffered when a poll ended is written by a poll that reads a time after
\* nextFlushTime.
TimeInv ==
  /\ ~polling /\ bufSize # 0 => manageFp /\ now <= nextFlushTime
  /\ nextFlushTime = Never \/ nextFlushTime <= now + FlushDelay
  /\ \A m \in membuf : IF nextFlushTime = Never THEN polling /\ m.at = now
                       ELSE nextFlushTime <= m.at + FlushDelay

FileInv ==
  /\ FileTypeOK /\ (manageFp => outputFp # NoFile)
  /\ Buffered(membuf, bufSize, logs) /\ Written(contents, length, membuf, logs)
  /\ Somewhere(contents, membuf, due) /\ TimeInv

\* The positions told are those in the buffer added to that of the buffer.
Told(start, msgs) ==
  manageFp => /\ start = length[outputFp]
              /\ \A m \in msgs : m.told # Untold => m.told = start + m.pos

PositionInv == FileInv /\ Told(fpos, membuf) /\ PositionTold
=============================================================================
