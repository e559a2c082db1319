------------------------------ MODULE ClockParams ------------------------------
(***************************************************************************)
(* TSCNS of fmtlog.h: the three numbers that turn a time stamp into         *)
(* nanoseconds are replaced by one thread (calibrate, from poll) while      *)
(* others read them (tsc2ns) without a lock, under a sequence number.       *)
(*                                                                         *)
(* Only which calibration a number comes from matters, so each is modelled *)
(* by the count of calibrations.  Between the fences the compiler may order *)
(* the three loads, and the three stores, as it likes.                      *)
(***************************************************************************)
EXTENDS Integers

CONSTANTS
  Readers,    \* threads that call tsc2ns
  Fields,     \* base_tsc_, base_ns_, ns_per_tsc_
  SeqMod,     \* number of values of param_seq_, 2^32 in the code
  MaxSaves    \* bound: number of calibrations

ASSUME SeqAssumption ==
  /\ SeqMod \in Nat /\ MaxSaves \in Nat
  /\ 2 * MaxSaves < SeqMod   \* at one in three seconds, 200 years

VARIABLES
  param_seq,
  params,     \* per field, the calibration it comes from
  saves,      \* number of calibrations completed
  storing,    \* saveParam is between its two stores of param_seq_
  unstored,   \* the fields it has not stored yet
  pc,         \* per reader, the step of tsc2ns it is at
  before_seq, \* per reader
  unread,     \* per reader, the fields it has not loaded yet
  ns,         \* per reader, for each field the calibration of the value it loaded
  called      \* per reader, the calibrations completed when it called tsc2ns

writerVars == <<param_seq, params, saves, storing, unstored>>
readerVars == <<pc, before_seq, unread, ns, called>>
clockVars == <<writerVars, readerVars>>

-----------------------------------------------------------------------------
\* Mutant: counted twice.
NextSeqTwice(seq) == (seq + 2) % SeqMod

NextSeq(seq) == (seq + 1) % SeqMod

\* seq & ~1
Even(seq) == seq - (seq % 2)

ClockInit ==
  /\ param_seq = 0 /\ params = [f \in Fields |-> 0] /\ saves = 0
  /\ storing = FALSE /\ unstored = {}
  /\ pc = [r \in Readers |-> "idle"]
  /\ before_seq = [r \in Readers |-> 0]
  /\ unread = [r \in Readers |-> {}]
  /\ ns = [r \in Readers |-> [f \in Fields |-> 0]]
  /\ called = [r \in Readers |-> 0]

-----------------------------------------------------------------------------
(* saveParam *)

BeginSave ==
  /\ ~storing /\ saves < MaxSaves
  /\ param_seq' = NextSeq(param_seq)
  /\ storing' = TRUE /\ unstored' = Fields
  /\ UNCHANGED <<params, saves, readerVars>>

StoreField(f) ==
  /\ storing /\ f \in unstored
  /\ params' = [params EXCEPT ![f] = saves + 1]
  /\ unstored' = unstored \ {f}
  /\ UNCHANGED <<param_seq, saves, storing, readerVars>>

\* Mutants: the sequence number stays odd; the numbers become valid while some
\* are still to be stored.
EndSaveSilent ==
  /\ storing /\ unstored = {}
  /\ saves' = saves + 1 /\ storing' = FALSE
  /\ UNCHANGED <<param_seq, params, unstored, readerVars>>

EndSaveEarly ==
  /\ storing
  /\ param_seq' = NextSeq(param_seq)
  /\ saves' = saves + 1 /\ storing' = FALSE
  /\ UNCHANGED <<params, unstored, readerVars>>

EndSave ==
  /\ storing /\ unstored = {}
  /\ param_seq' = NextSeq(param_seq)
  /\ saves' = saves + 1 /\ storing' = FALSE
  /\ UNCHANGED <<params, unstored, readerVars>>

Save == BeginSave \/ EndSave \/ \E f \in Fields : StoreField(f)

-----------------------------------------------------------------------------
(* tsc2ns *)

Call(r) ==
  /\ pc[r] = "idle"
  /\ pc' = [pc EXCEPT ![r] = "begin"]
  /\ called' = [called EXCEPT ![r] = saves]
  /\ UNCHANGED <<writerVars, before_seq, unread, ns>>

\* Mutant: an odd sequence number is remembered as it is.
BeginReadOdd(r) ==
  /\ pc[r] = "begin"
  /\ pc' = [pc EXCEPT ![r] = "load"]
  /\ before_seq' = [before_seq EXCEPT ![r] = param_seq]
  /\ unread' = [unread EXCEPT ![r] = Fields]
  /\ UNCHANGED <<writerVars, ns, called>>

BeginRead(r) ==
  /\ pc[r] = "begin"
  /\ pc' = [pc EXCEPT ![r] = "load"]
  /\ before_seq' = [before_seq EXCEPT ![r] = Even(param_seq)]
  /\ unread' = [unread EXCEPT ![r] = Fields]
  /\ UNCHANGED <<writerVars, ns, called>>

LoadField(r, f) ==
  /\ pc[r] = "load" /\ f \in unread[r]
  /\ ns' = [ns EXCEPT ![r][f] = params[f]]
  /\ unread' = [unread EXCEPT ![r] = @ \ {f}]
  /\ UNCHANGED <<writerVars, pc, before_seq, called>>

\* Mutant: the number is not compared.
EndReadUnchecked(r) ==
  /\ pc[r] = "load" /\ unread[r] = {}
  /\ pc' = [pc EXCEPT ![r] = "done"]
  /\ UNCHANGED <<writerVars, before_seq, unread, ns, called>>

\* The result is returned if no save began or ended meanwhile; else once more.
EndRead(r) ==
  /\ pc[r] = "load" /\ unread[r] = {}
  /\ pc' = [pc EXCEPT ![r] = IF before_seq[r] = param_seq THEN "done" ELSE "begin"]
  /\ UNCHANGED <<writerVars, before_seq, unread, ns, called>>

Return(r) ==
  /\ pc[r] = "done"
  /\ pc' = [pc EXCEPT ![r] = "idle"]
  /\ UNCHANGED <<writerVars, before_seq, unread, ns, called>>

Read(r) == BeginRead(r) \/ EndRead(r) \/ Return(r) \/ \E f \in Fields : LoadField(r, f)

-----------------------------------------------------------------------------
ClockNext == Save \/ \E r \in Readers : Call(r) \/ Read(r)

ClockSpec == ClockInit /\ [][ClockNext]_clockVars

\* All threads are scheduled; there are finitely many calibrations, as it takes
\* three seconds from one to the next.
ClockFairSpec == ClockSpec /\ WF_clockVars(Save) /\ \A r \in Readers : WF_clockVars(Read(r))

-----------------------------------------------------------------------------
(* Properties *)

ClockTypeOK ==
  /\ param_seq \in 0 .. 2 * MaxSaves
  /\ params \in [Fields -> 0 .. MaxSaves] /\ saves \in 0 .. MaxSaves
  /\ storing \in BOOLEAN /\ unstored \in SUBSET Fields
  /\ pc \in [Readers -> {"idle", "begin", "load", "done"}]
  /\ before_seq \in [Readers -> 0 .. 2 * MaxSaves]
  /\ unread \in [Readers -> SUBSET Fields]
  /\ ns \in [Readers -> [Fields -> 0 .. MaxSaves]]
  /\ called \in [Readers -> 0 .. MaxSaves]

\* What tsc2ns returns is computed from the numbers of one calibration, whatever
\* was stored while it ran, and not of one replaced before it was called.
OneCalibration ==
  \A r \in Readers : pc[r] = "done" =>
    \E n \in called[r] .. saves : \A f \in Fields : ns[r][f] = n

\* The loop of tsc2ns ends.
ReadEnds == \A r \in Readers : pc[r] = "begin" ~> pc[r] = "idle"

-----------------------------------------------------------------------------
(* The inductive invariant *)

\* The sequence number counts two for each calibration completed, and one for
\* the one that is being stored.
SeqInv == param_seq = 2 * saves + (IF storing THEN 1 ELSE 0)

\* Between calibrations all numbers are of the last one, in one those that have
\* been stored are of it.
ParamsInv ==
  /\ storing => saves < MaxSaves
  /\ \A f \in Fields : IF ~storing THEN params[f] = saves
                        ELSE f \notin unstored => params[f] = saves + 1

\* While the sequence number is the one a reader began with, what it has loaded
\* is of the calibration that number stands for.
ReaderInv ==
  \A r \in Readers :
    /\ pc[r] \in {"begin", "load", "done"} => called[r] <= saves
    /\ pc[r] = "load" =>
         \E n \in called[r] .. saves :
           /\ before_seq[r] = 2 * n
           /\ param_seq = 2 * n => \A f \in Fields : f \notin unread[r] => ns[r][f] = n

ClockInv == ClockTypeOK /\ SeqInv /\ ParamsInv /\ ReaderInv /\ OneCalibration
=============================================================================
