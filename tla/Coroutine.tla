------------------------------- MODULE Coroutine -------------------------------
(***************************************************************************)
(* The coroutines of coroutine.h and coroutine.cc, switched by several     *)
(* threads.  Saved registers (coctx) are abstracted to the place they lead *)
(* to; a switch of stacks (coctx_swap) is one step.  What happens before   *)
(* it (t_cur_coroutine is already changed) and before and after a callback *)
(* (the running flag is not yet, or no longer, set) are steps of their     *)
(* own, between which other threads go on.                                 *)
(*                                                                         *)
(* A coroutine has no lock: the program that uses the library decides      *)
(* which thread may use it.  owner is that thread; it changes when the     *)
(* owner passes the coroutine on between two Resumes, directly or through  *)
(* the pool (backCoroutine, then getCoroutine by another thread).          *)
(***************************************************************************)
EXTENDS Integers

CONSTANTS
  Threads,
  Coroutines,
  Main,        \* the main coroutine (of whichever thread)
  MaxJobs,     \* bound: number of callbacks clients set, all coroutines together
  TrustFlag    \* TRUE: a thread also takes over a coroutine when it sees
               \* getCallBackRunningFlag() = false, without waiting for Resume

ASSUME MainAssumption == Main \notin Coroutines
ASSUME MaxJobsAssumption == MaxJobs \in Nat
ASSUME ClientAssumption == TrustFlag \in BOOLEAN

VARIABLES
  current,   \* per thread, t_cur_coroutine (nullptr counts as Main)
  stack,     \* per thread, the coroutine whose stack it runs on (%rsp)
  cor,       \* per thread, cor in Resume or in Yield
  pc,        \* per thread, the step it is at
  context,   \* per coroutine, where m_coctx leads
  running,   \* per coroutine, m_cbfunc_running_flag
  resume,    \* per coroutine, m_resume_flag
  callBack,  \* per coroutine, m_call_back: the number of the callback, 0 for none
  frame,     \* per coroutine, the callback that has begun and not ended on its stack
  jobs,      \* number of callbacks set so far
  ended,     \* the callbacks that have ended
  owner,     \* per coroutine, the thread that may use it
  since,     \* per coroutine, the value of jobs when it was last given back
  exited     \* exit(1) was called

vars == <<current, stack, cor, pc, context, running, resume, callBack, frame,
          jobs, ended, owner, since, exited>>

flagVars   == <<running, resume, callBack>>
threadVars == <<current, stack, cor, pc>>
clientVars == <<jobs, owner, since, exited>>

-----------------------------------------------------------------------------
(* Values *)

\* "main" and "body" run the program's code, on a main stack and in a callback.
Steps == {"main", "resume", "enter", "body", "finish", "yield", "finalYield",
          "astray"}

\* "zero": never set; "entry": first instruction of runCallBack; "yield": the
\* Yield in a callback; "final": the Yield that ends runCallBack.
Contexts == {"zero", "entry", "yield", "final"}

\* The process lives and thread t is at one of the steps S.
At(t, S) == ~ exited /\ pc[t] \in S

\* Thread t runs code of the program, not of the library.
UserCode(t) == At(t, {"main", "body"})

\* The owner of c can pass it on: as far as it sees, it is not inside it.
Free(t, c) == UserCode(t) /\ owner[c] = t /\ current[t] # c

\* The callback of c has been set and has not ended.
Pending(c) == callBack[c] # 0 /\ callBack[c] \notin ended

Init ==
  /\ current = [t \in Threads |-> Main]
  /\ stack = [t \in Threads |-> Main]
  /\ cor = [t \in Threads |-> Main]
  /\ pc = [t \in Threads |-> "main"]
  /\ context = [c \in Coroutines |-> "zero"]
  /\ running = [c \in Coroutines |-> FALSE]
  /\ resume = [c \in Coroutines |-> FALSE]
  /\ callBack = [c \in Coroutines |-> 0]
  /\ frame = [c \in Coroutines |-> 0]
  /\ jobs = 0
  /\ ended = {}
  /\ owner \in [Coroutines -> Threads]
  /\ since = [c \in Coroutines |-> 0]
  /\ exited = FALSE

-----------------------------------------------------------------------------
(* setCallBack; it returns false, and changes nothing, while running[c] *)

\* Mutants: the context is not prepared; the running flag is not looked at.
SetCallBackBare(t, c) ==
  /\ UserCode(t) /\ owner[c] = t
  /\ ~ running[c]
  /\ jobs < MaxJobs
  /\ jobs' = jobs + 1
  /\ callBack' = [callBack EXCEPT ![c] = jobs + 1]
  /\ resume' = [resume EXCEPT ![c] = TRUE]
  /\ UNCHANGED <<threadVars, context, running, frame, ended, owner, since, exited>>

SetCallBackAnyTime(t, c) ==
  /\ UserCode(t) /\ owner[c] = t
  /\ jobs < MaxJobs
  /\ jobs' = jobs + 1
  /\ callBack' = [callBack EXCEPT ![c] = jobs + 1]
  /\ context' = [context EXCEPT ![c] = "entry"]
  /\ resume' = [resume EXCEPT ![c] = TRUE]
  /\ UNCHANGED <<threadVars, running, frame, ended, owner, since, exited>>

SetCallBack(t, c) ==
  /\ UserCode(t) /\ owner[c] = t
  /\ ~ running[c]
  /\ jobs < MaxJobs
  /\ jobs' = jobs + 1
  /\ callBack' = [callBack EXCEPT ![c] = jobs + 1]
  /\ context' = [context EXCEPT ![c] = "entry"]
  /\ resume' = [resume EXCEPT ![c] = TRUE]
  /\ UNCHANGED <<threadVars, running, frame, ended, owner, since, exited>>

-----------------------------------------------------------------------------
(* Resume *)

\* Mutant: m_resume_flag is not looked at.
ResumeUnchecked(t, c) ==
  /\ At(t, {"main"}) /\ owner[c] = t
  /\ current[t] = Main
  /\ current' = [current EXCEPT ![t] = c]
  /\ cor' = [cor EXCEPT ![t] = c]
  /\ pc' = [pc EXCEPT ![t] = "resume"]
  /\ UNCHANGED <<stack, context, flagVars, frame, ended, clientVars>>

\* The checks pass, t_cur_coroutine = cor.
ResumeSet(t, c) ==
  /\ At(t, {"main"}) /\ owner[c] = t
  /\ current[t] = Main
  /\ resume[c]
  /\ current' = [current EXCEPT ![t] = c]
  /\ cor' = [cor EXCEPT ![t] = c]
  /\ pc' = [pc EXCEPT ![t] = "resume"]
  /\ UNCHANGED <<stack, context, flagVars, frame, ended, clientVars>>

\* Where the context of a coroutine leads.  Past the end of runCallBack the
\* stack holds no return address: control is lost, as it is at address 0, and
\* the thread does nothing of the library any more.
Landing(x) == CASE x = "entry" -> "enter"
                [] x = "yield" -> "body"
                [] OTHER       -> "astray"

\* coctx_swap(main, cor).
SwapIn(t) ==
  /\ At(t, {"resume"})
  /\ stack' = [stack EXCEPT ![t] = cor[t]]
  /\ pc' = [pc EXCEPT ![t] = Landing(context[cor[t]])]
  /\ UNCHANGED <<current, cor, context, flagVars, frame, ended, clientVars>>

-----------------------------------------------------------------------------
(* runCallBack, up to its last Yield *)

\* Mutant: the flag is not set.
BeginUnflagged(t) ==
  /\ At(t, {"enter"})
  /\ frame' = [frame EXCEPT ![stack[t]] = callBack[stack[t]]]
  /\ pc' = [pc EXCEPT ![t] = "body"]
  /\ UNCHANGED <<current, stack, cor, context, flagVars, ended, clientVars>>

\* Set the flag and call the callback.
Begin(t) ==
  /\ At(t, {"enter"})
  /\ running' = [running EXCEPT ![stack[t]] = TRUE]
  /\ frame' = [frame EXCEPT ![stack[t]] = callBack[stack[t]]]
  /\ pc' = [pc EXCEPT ![t] = "body"]
  /\ UNCHANGED <<current, stack, cor, context, resume, callBack, ended, clientVars>>

\* Mutant: the flag is not cleared.
FinishFlagged(t) ==
  /\ At(t, {"body"})
  /\ frame' = [frame EXCEPT ![stack[t]] = 0]
  /\ ended' = ended \cup {frame[stack[t]]}
  /\ pc' = [pc EXCEPT ![t] = "finish"]
  /\ UNCHANGED <<current, stack, cor, context, flagVars, clientVars>>

\* The callback returns, the flag is cleared.
Finish(t) ==
  /\ At(t, {"body"})
  /\ running' = [running EXCEPT ![stack[t]] = FALSE]
  /\ frame' = [frame EXCEPT ![stack[t]] = 0]
  /\ ended' = ended \cup {frame[stack[t]]}
  /\ pc' = [pc EXCEPT ![t] = "finish"]
  /\ UNCHANGED <<current, stack, cor, context, resume, callBack, clientVars>>

-----------------------------------------------------------------------------
(* Yield, called by a callback or at the end of runCallBack *)

\* Mutants: t_cur_coroutine is left alone; runCallBack does not end in a Yield.
YieldStill(t) ==
  /\ At(t, {"body", "finish"})
  /\ current[t] # Main
  /\ cor' = [cor EXCEPT ![t] = current[t]]
  /\ pc' = [pc EXCEPT ![t] = IF pc[t] = "body" THEN "yield" ELSE "finalYield"]
  /\ UNCHANGED <<current, stack, context, flagVars, frame, ended, clientVars>>

YieldInBody(t) ==
  /\ At(t, {"body"})
  /\ current[t] # Main
  /\ cor' = [cor EXCEPT ![t] = current[t]]
  /\ current' = [current EXCEPT ![t] = Main]
  /\ pc' = [pc EXCEPT ![t] = "yield"]
  /\ UNCHANGED <<stack, context, flagVars, frame, ended, clientVars>>

\* The check passes, t_cur_coroutine = the main coroutine of this thread.
YieldSet(t) ==
  /\ At(t, {"body", "finish"})
  /\ current[t] # Main
  /\ cor' = [cor EXCEPT ![t] = current[t]]
  /\ current' = [current EXCEPT ![t] = Main]
  /\ pc' = [pc EXCEPT ![t] = IF pc[t] = "body" THEN "yield" ELSE "finalYield"]
  /\ UNCHANGED <<stack, context, flagVars, frame, ended, clientVars>>

\* Mutants: the stack pointer is not restored; the context is not saved; the
\* place of the switch is saved instead of the place it returns to.
SwapOutSameStack(t) ==
  /\ At(t, {"yield", "finalYield"})
  /\ context' = [context EXCEPT ![cor[t]] = IF pc[t] = "yield" THEN "yield" ELSE "final"]
  /\ pc' = [pc EXCEPT ![t] = "main"]
  /\ UNCHANGED <<current, stack, cor, flagVars, frame, ended, clientVars>>

SwapOutUnsaved(t) ==
  /\ At(t, {"yield", "finalYield"})
  /\ stack' = [stack EXCEPT ![t] = Main]
  /\ pc' = [pc EXCEPT ![t] = "main"]
  /\ UNCHANGED <<current, cor, context, flagVars, frame, ended, clientVars>>

SwapOutHere(t) ==
  /\ At(t, {"yield", "finalYield"})
  /\ context' = [context EXCEPT ![cor[t]] = pc[t]]
  /\ stack' = [stack EXCEPT ![t] = Main]
  /\ pc' = [pc EXCEPT ![t] = "main"]
  /\ UNCHANGED <<current, cor, flagVars, frame, ended, clientVars>>

\* coctx_swap(cor, main): the Resume of this thread returns.
SwapOut(t) ==
  /\ At(t, {"yield", "finalYield"})
  /\ context' = [context EXCEPT ![cor[t]] = IF pc[t] = "yield" THEN "yield" ELSE "final"]
  /\ stack' = [stack EXCEPT ![t] = Main]
  /\ pc' = [pc EXCEPT ![t] = "main"]
  /\ UNCHANGED <<current, cor, flagVars, frame, ended, clientVars>>

-----------------------------------------------------------------------------
(* Calls the library answers with exit(1) *)

\* Yield in the main program; Resume in a coroutine; Resume without a callback.
Exit(t) ==
  /\ \/ At(t, {"main"}) /\ current[t] = Main
     \/ At(t, {"body"}) /\ current[t] # Main
     \/ At(t, {"main"}) /\ \E c \in Coroutines : ~ resume[c]
  /\ exited' = TRUE
  /\ UNCHANGED <<threadVars, context, flagVars, frame, ended, jobs, owner, since>>

-----------------------------------------------------------------------------
(* Passing a coroutine on *)

\* Between two Resumes, as it is.
HandOver(t, c) ==
  /\ Free(t, c)
  /\ \E u \in Threads : owner' = [owner EXCEPT ![c] = u]
  /\ UNCHANGED <<threadVars, context, flagVars, frame, ended, jobs, since, exited>>

\* Through the pool: backCoroutine clears both flags, whatever state the
\* coroutine is in, and getCoroutine gives it to some thread.
BackAndGet(t, c) ==
  /\ Free(t, c)
  /\ running' = [running EXCEPT ![c] = FALSE]
  /\ resume' = [resume EXCEPT ![c] = FALSE]
  /\ \E u \in Threads : owner' = [owner EXCEPT ![c] = u]
  /\ since' = [since EXCEPT ![c] = jobs]
  /\ UNCHANGED <<threadVars, context, callBack, frame, ended, jobs, exited>>

\* A thread sees that the running flag is false and takes the coroutine: a
\* cautious one only when the Resume of the owner has returned as well.
TakeOver(t, c) ==
  /\ UserCode(t) /\ ~ running[c]
  /\ TrustFlag \/ Free(owner[c], c)
  /\ owner' = [owner EXCEPT ![c] = t]
  /\ UNCHANGED <<threadVars, context, flagVars, frame, ended, jobs, since, exited>>

-----------------------------------------------------------------------------
Switch(t) == SwapIn(t) \/ Begin(t) \/ Finish(t) \/ YieldSet(t) \/ SwapOut(t)

Next ==
  \E t \in Threads :
    \/ Switch(t)
    \/ Exit(t)
    \/ \E c \in Coroutines :
         \/ SetCallBack(t, c) \/ ResumeSet(t, c)
         \/ HandOver(t, c) \/ BackAndGet(t, c) \/ TakeOver(t, c)

Spec == Init /\ [][Next]_vars

\* Threads are scheduled, and a callback that has control returns or yields.
FairSpec == Spec /\ \A t \in Threads : WF_vars(Switch(t))

-----------------------------------------------------------------------------
(* Properties *)

TypeOK ==
  /\ current \in [Threads -> Coroutines \cup {Main}]
  /\ stack \in [Threads -> Coroutines \cup {Main}]
  /\ cor \in [Threads -> Coroutines \cup {Main}]
  /\ pc \in [Threads -> Steps]
  /\ context \in [Coroutines -> Contexts]
  /\ running \in [Coroutines -> BOOLEAN]
  /\ resume \in [Coroutines -> BOOLEAN]
  /\ callBack \in [Coroutines -> 0 .. MaxJobs]
  /\ frame \in [Coroutines -> 0 .. MaxJobs]
  /\ jobs \in 0 .. MaxJobs
  /\ ended \subseteq 0 .. MaxJobs
  /\ owner \in [Coroutines -> Threads]
  /\ since \in [Coroutines -> 0 .. MaxJobs]
  /\ exited \in BOOLEAN

\* The program always sees itself right: GetCurrentCoroutine() names the
\* coroutine whose stack the caller runs on, on whichever thread it was first
\* resumed and whichever has resumed it now.
CurrentIsStack == \A t \in Threads : UserCode(t) => current[t] = stack[t]

\* A stack is never run by two threads at a time, wherever the coroutines are
\* passed between threads, when each is passed on by its owner only, or taken
\* once the owner's Resume has returned (TrustFlag FALSE).
OneRunner == \A t, u \in Threads : stack[t] = stack[u] /\ stack[t] # Main => t = u

\* One mistake only makes a Resume lose control, and the resume flag does not
\* stop it: to resume a coroutine whose last callback, set after the last
\* backCoroutine, has ended.  A coroutine that was never set, was given back (idle,
\* suspended or ended), or was set again since its callback ended, is resumed
\* into its code or not at all.
LostOnlyPastEnd ==
  \A t \in Threads : pc[t] = "astray" =>
    LET c == stack[t] IN callBack[c] \in ended /\ callBack[c] > since[c]

\* The running flag, on which setCallBack decides whether it may overwrite the
\* context, is set exactly while the coroutine has a callback to come back to:
\* begun, not ended, and not given up by a backCoroutine.
RunningFlagExact ==
  \A c \in Coroutines :
    running[c] <=> frame[c] # 0 /\ frame[c] = callBack[c] /\ resume[c]

\* Whoever gets a coroutine from the pool never runs on in what the previous
\* owner left there, a callback set or suspended: the callback that runs is the
\* last one set, and was set after the last backCoroutine.
RunsItsCallBack ==
  \A t \in Threads : pc[t] = "body" =>
    LET c == stack[t] IN frame[c] = callBack[c] /\ callBack[c] > since[c]

\* A callback that setCallBack has accepted is what the next Resume goes to,
\* begun or not, until it ends: nothing overwrites the context it set.
CallBackKept ==
  \A c \in Coroutines :
    Pending(c) /\ (\A t \in Threads : stack[t] # c) => context[c] \in {"entry", "yield"}

\* coroutine.h says of m_resume_flag: "true -> the coroutine can resume".
ResumableWhenFlagged ==
  \A c \in Coroutines :
    resume[c] /\ (\A t \in Threads : stack[t] # c) => context[c] \in {"entry", "yield"}

\* A callback begins at most once: neither a switch nor a migration between
\* threads restarts one that was suspended or has ended.
BeginsOnce ==
  [][\A t \in Threads : pc[t] = "enter" /\ pc'[t] = "body" =>
       LET c == stack[t] IN callBack[c] \notin ended /\ frame[c] # callBack[c]]_vars

\* A Resume in a coroutine whose callback is still to run, or suspended, returns
\* to the main program of the thread that called it.
ResumeReturns ==
  \A t \in Threads : \A c \in Coroutines :
    pc[t] = "resume" /\ cor[t] = c /\ Pending(c) ~> (pc[t] = "main" \/ exited)

-----------------------------------------------------------------------------
(* The inductive invariant behind them, when ~ TrustFlag *)

\* No thread is on the stack of c.
AtRest(c) == \A t \in Threads : stack[t] # c

\* Where each thread is: who it takes for current, whose stack it is on.
PlaceInv == \A t \in Threads :
  /\ pc[t] = "main" => current[t] = Main /\ stack[t] = Main
  /\ pc[t] = "resume" => current[t] = cor[t] /\ cor[t] # Main /\ stack[t] = Main
  /\ pc[t] \in {"enter", "body", "finish", "astray"} =>
       current[t] = stack[t] /\ stack[t] # Main
  /\ pc[t] \in {"yield", "finalYield"} =>
       current[t] = Main /\ cor[t] = stack[t] /\ stack[t] # Main

\* The coroutine a thread is in, or about to switch to: it owns it, and it may
\* resume it.
InsideInv == \A t \in Threads : \A c \in {stack[t], current[t]} \ {Main} :
  owner[c] = t /\ resume[c]

\* How far the callback has come, seen from the thread that runs it.
ProgressInv == \A t \in Threads :
  /\ pc[t] \in {"body", "yield"} => running[stack[t]]
  /\ pc[t] \in {"enter", "finish", "finalYield"} => ~ running[stack[t]]
  /\ pc[t] = "enter" => Pending(stack[t])
  /\ pc[t] \in {"finish", "finalYield"} => ~ Pending(stack[t])

\* The callback of a coroutine: numbered when set, pending while it runs.
CallBackInv == \A c \in Coroutines :
  /\ callBack[c] <= jobs /\ frame[c] <= jobs /\ since[c] <= jobs
  /\ resume[c] => callBack[c] > since[c]
  /\ running[c] => Pending(c)

\* The context of a coroutine nobody runs leads to its pending callback; into
\* it, rather than to its beginning, when it is running.  It leads nowhere when
\* the callback has ended.
ContextInv == \A c \in Coroutines : AtRest(c) =>
  /\ Pending(c) => context[c] \in {"entry", "yield"}
  /\ resume[c] => (running[c] <=> context[c] = "yield")
  /\ resume[c] /\ context[c] \in {"entry", "yield"} => Pending(c)

\* Callbacks are not shared, and none has ended before it was set.
JobsInv ==
  /\ ended \subseteq 1 .. jobs
  /\ \A c, d \in Coroutines : callBack[c] = callBack[d] /\ callBack[c] # 0 => c = d

\* The state is consistent after every single step of every thread.
IInv ==
  /\ TypeOK
  /\ PlaceInv
  /\ LostOnlyPastEnd
  /\ InsideInv
  /\ ProgressInv
  /\ RunningFlagExact
  /\ CallBackInv
  /\ ContextInv
  /\ JobsInv

-----------------------------------------------------------------------------
(* The promise of asymmetric coroutines *)

\* A thread was lost in c.
Astray(c) == \E t \in Threads : stack[t] = c /\ pc[t] = "astray"

Life == [c \in Coroutines |->
  IF Astray(c) THEN "lost" ELSE
  IF ~ AtRest(c) THEN "running" ELSE
  IF ~ resume[c] THEN "idle" ELSE
  CASE context[c] = "entry" -> "ready"
    [] context[c] = "yield" -> "suspended"
    [] OTHER                -> "done"]

Abstract == INSTANCE AsymmetricSwitch
              WITH Thread <- Threads, Task <- Coroutines, at <- stack, life <- Life

\* The switching code implements asymmetric coroutines, where only a Resume of
\* a coroutine that is done loses a thread.
AbstractSpec == Abstract!Spec
=============================================================================
