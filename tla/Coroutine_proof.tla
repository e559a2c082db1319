---------------------------- MODULE Coroutine_proof ----------------------------
(***************************************************************************)
(* Theorems about Coroutine, for every number of threads, coroutines and   *)
(* callbacks.                                                              *)
(***************************************************************************)
EXTENDS Coroutine, TLAPS

-----------------------------------------------------------------------------
(* Types and places, whatever the clients do *)

PlaceTyped == TypeOK /\ PlaceInv

LEMMA PlaceInit == Init => PlaceTyped
<1> SUFFICES ASSUME Init PROVE PlaceTyped
  OBVIOUS
<1>1. TypeOK
  <2>1. 0 \in 0 .. MaxJobs
    BY MaxJobsAssumption
  <2>2. /\ current \in [Threads -> Coroutines \cup {Main}]
        /\ stack \in [Threads -> Coroutines \cup {Main}]
        /\ cor \in [Threads -> Coroutines \cup {Main}]
        /\ pc \in [Threads -> Steps]
        /\ context \in [Coroutines -> Contexts]
    BY DEF Init, Steps, Contexts
  <2>3. running \in [Coroutines -> BOOLEAN] /\ resume \in [Coroutines -> BOOLEAN]
    BY DEF Init
  <2>4. /\ callBack \in [Coroutines -> 0 .. MaxJobs]
        /\ frame \in [Coroutines -> 0 .. MaxJobs]
        /\ since \in [Coroutines -> 0 .. MaxJobs]
        /\ jobs \in 0 .. MaxJobs /\ ended \subseteq 0 .. MaxJobs
    BY <2>1 DEF Init
  <2> QED
    BY <2>2, <2>3, <2>4 DEF Init, TypeOK
<1>2. PlaceInv
  BY DEF Init, PlaceInv
<1> QED
  BY <1>1, <1>2 DEF PlaceTyped

LEMMA PlaceStep == PlaceTyped /\ [Next]_vars => PlaceTyped'
<1> SUFFICES ASSUME PlaceTyped, [Next]_vars PROVE PlaceTyped'
  OBVIOUS
<1> USE MainAssumption, MaxJobsAssumption DEF PlaceTyped, TypeOK, PlaceInv, At, UserCode
<1>0. CASE UNCHANGED vars
  BY <1>0 DEF vars
<1>1. ASSUME NEW t \in Threads, NEW c \in Coroutines, SetCallBack(t, c)
      PROVE  PlaceTyped'
  BY <1>1 DEF SetCallBack, threadVars, Contexts
<1>2. ASSUME NEW t \in Threads, NEW c \in Coroutines, ResumeSet(t, c)
      PROVE  PlaceTyped'
  BY <1>2 DEF ResumeSet, flagVars, clientVars, Steps
<1>3. ASSUME NEW t \in Threads, SwapIn(t) PROVE PlaceTyped'
  <2>1. /\ pc[t] = "resume" /\ cor[t] \in Coroutines /\ current[t] = cor[t]
        /\ stack' = [stack EXCEPT ![t] = cor[t]]
        /\ UNCHANGED <<current, cor, context, flagVars, frame, ended, clientVars>>
    BY <1>3 DEF SwapIn
  <2>2. PICK s \in {"enter", "body", "astray"} : pc' = [pc EXCEPT ![t] = s]
    BY <1>3 DEF SwapIn, Landing
  <2>3. TypeOK'
    BY <2>1, <2>2 DEF flagVars, clientVars, Steps
  <2>4. PlaceInv'
    BY <2>1, <2>2
  <2> QED
    BY <2>3, <2>4
<1>4. ASSUME NEW t \in Threads, Begin(t) PROVE PlaceTyped'
  BY <1>4 DEF Begin, clientVars, Steps
<1>5. ASSUME NEW t \in Threads, Finish(t) PROVE PlaceTyped'
  <2>1. frame[stack[t]] \in 0 .. MaxJobs /\ 0 \in 0 .. MaxJobs
    BY <1>5 DEF Finish
  <2>2. ended' \subseteq 0 .. MaxJobs /\ frame' \in [Coroutines -> 0 .. MaxJobs]
    BY <1>5, <2>1 DEF Finish
  <2>3. running' \in [Coroutines -> BOOLEAN] /\ pc' \in [Threads -> Steps]
    BY <1>5 DEF Finish, Steps
  <2>4. PlaceInv'
    BY <1>5 DEF Finish
  <2> QED
    BY <1>5, <2>2, <2>3, <2>4 DEF Finish, clientVars
<1>6. ASSUME NEW t \in Threads, YieldSet(t) PROVE PlaceTyped'
  BY <1>6 DEF YieldSet, flagVars, clientVars, Steps
<1>7. ASSUME NEW t \in Threads, SwapOut(t) PROVE PlaceTyped'
  BY <1>7 DEF SwapOut, flagVars, clientVars, Steps, Contexts
<1>8. ASSUME NEW t \in Threads, Exit(t) PROVE PlaceTyped'
  BY <1>8 DEF Exit, threadVars, flagVars
<1>9. ASSUME NEW t \in Threads, NEW c \in Coroutines, HandOver(t, c)
      PROVE  PlaceTyped'
  BY <1>9 DEF HandOver, threadVars, flagVars
<1>10. ASSUME NEW t \in Threads, NEW c \in Coroutines, BackAndGet(t, c)
       PROVE  PlaceTyped'
  BY <1>10 DEF BackAndGet, threadVars
<1>11. ASSUME NEW t \in Threads, NEW c \in Coroutines, TakeOver(t, c)
       PROVE  PlaceTyped'
  BY <1>11 DEF TakeOver, threadVars, flagVars
<1> QED
  BY <1>0, <1>1, <1>2, <1>3, <1>4, <1>5, <1>6, <1>7, <1>8, <1>9, <1>10, <1>11
  DEF Next, Switch

\* Every reachable state is well typed, however the clients share coroutines.
THEOREM TypeCorrect == Spec => []TypeOK
<1>1. PlaceTyped => TypeOK
  BY DEF PlaceTyped
<1> QED
  BY PlaceInit, PlaceStep, <1>1, PTL DEF Spec

\* The program always sees itself right: GetCurrentCoroutine() is the coroutine
\* on whose stack its caller runs, after any number of switches and migrations.
THEOREM CurrentCorrect == Spec => []CurrentIsStack
<1>1. PlaceTyped => CurrentIsStack
  BY DEF PlaceTyped, PlaceInv, CurrentIsStack, UserCode, At
<1> QED
  BY PlaceInit, PlaceStep, <1>1, PTL DEF Spec

-----------------------------------------------------------------------------
(* The inductive invariant, when every thread waits for Resume to return    *)
(* before it passes a coroutine on, whatever it resumes                    *)

LEMMA InvInit == Init => IInv
<1> SUFFICES ASSUME Init PROVE IInv
  OBVIOUS
<1>1. TypeOK /\ PlaceInv
  BY PlaceInit DEF PlaceTyped
<1>2. InsideInv /\ LostOnlyPastEnd /\ ProgressInv /\ RunningFlagExact
  BY DEF Init, InsideInv, LostOnlyPastEnd, ProgressInv, RunningFlagExact
<1>3. CallBackInv /\ ContextInv /\ JobsInv
  BY DEF Init, CallBackInv, ContextInv, JobsInv, Pending
<1> QED
  BY <1>1, <1>2, <1>3 DEF IInv

\* A coroutine that a thread is in, or switching to, is no other thread's.
LEMMA InsideAlone ==
  ASSUME PlaceTyped, InsideInv, NEW t \in Threads, NEW u \in Threads, t # u,
         NEW c \in Coroutines, c \in {stack[t], current[t]}
  PROVE  c \notin {stack[u], current[u]}
BY MainAssumption DEF InsideInv

LEMMA InvStep ==
  ASSUME TrustFlag = FALSE
  PROVE  IInv /\ [Next]_vars => IInv'
<1> SUFFICES ASSUME IInv, [Next]_vars PROVE IInv'
  OBVIOUS
<1>a. PlaceTyped /\ PlaceTyped'
  BY PlaceStep DEF IInv, PlaceTyped
<1>b. /\ LostOnlyPastEnd /\ InsideInv /\ ProgressInv /\ RunningFlagExact
      /\ CallBackInv /\ ContextInv /\ JobsInv
  BY DEF IInv
<1>c. /\ LostOnlyPastEnd' /\ InsideInv' /\ ProgressInv' /\ RunningFlagExact'
      /\ CallBackInv' /\ ContextInv' /\ JobsInv'
      => IInv'
  BY <1>a DEF IInv, PlaceTyped
<1> USE MainAssumption, MaxJobsAssumption DEF PlaceTyped, TypeOK, PlaceInv, At, UserCode
<1>0. CASE UNCHANGED vars
  BY <1>0, <1>b, <1>c
  DEF vars, LostOnlyPastEnd, InsideInv, ProgressInv, RunningFlagExact, CallBackInv,
      ContextInv, JobsInv, Pending, AtRest
<1>1. ASSUME NEW t \in Threads, NEW c \in Coroutines, SetCallBack(t, c) PROVE IInv'
  <2>a. /\ jobs \in Nat /\ jobs' = jobs + 1 /\ ended' = ended /\ jobs + 1 \notin ended
        /\ \A d \in Coroutines : callBack[d] \in 0 .. jobs /\ frame[d] \in 0 .. jobs
        /\ \A d \in Coroutines : callBack'[d] = IF d = c THEN jobs + 1 ELSE callBack[d]
        /\ \A d \in Coroutines : resume'[d] = IF d = c THEN TRUE ELSE resume[d]
        /\ UNCHANGED <<running, frame, stack, cor, pc>> /\ ~ running[c]
    BY <1>1, <1>a, <1>b DEF SetCallBack, threadVars, CallBackInv, JobsInv
  <2>1. LostOnlyPastEnd'
    BY <1>1, <1>a, <1>b DEF SetCallBack, threadVars, LostOnlyPastEnd, InsideInv
  <2>2. InsideInv'
    BY <1>1, <1>a, <1>b DEF SetCallBack, threadVars, InsideInv
  <2>3. ProgressInv'
    BY <2>a, <1>1, <1>a, <1>b DEF SetCallBack, threadVars, ProgressInv, InsideInv, Pending
  <2>4. RunningFlagExact'
    <3>1. \A d \in Coroutines \ {c} :
            UNCHANGED <<running[d], frame[d], callBack[d], resume[d]>>
      BY <2>a
    <3>2. ~ running'[c] /\ frame'[c] # callBack'[c]
      BY <2>a
    <3> QED
      BY <3>1, <3>2, <1>b DEF RunningFlagExact
  <2>5. CallBackInv'
    BY <1>1, <1>a, <1>b DEF SetCallBack, threadVars, CallBackInv, Pending
  <2>6. ContextInv'
    <3>1. \A d \in Coroutines \ {c} :
            /\ AtRest(d)' <=> AtRest(d)
            /\ Pending(d)' <=> Pending(d)
            /\ UNCHANGED <<context[d], resume[d], running[d]>>
      BY <2>a, <1>1, <1>a DEF SetCallBack, AtRest, Pending
    <3>2. Pending(c)' /\ context'[c] = "entry" /\ ~ running'[c]
      BY <2>a, <1>1, <1>a DEF SetCallBack, Pending
    <3> QED
      BY <3>1, <3>2, <1>b DEF ContextInv
  <2>7. JobsInv'
    BY <2>a, <1>b DEF JobsInv
  <2> QED
    BY <2>1, <2>2, <2>3, <2>4, <2>5, <2>6, <2>7, <1>c
<1>2. ASSUME NEW t \in Threads, NEW c \in Coroutines, ResumeSet(t, c) PROVE IInv'
  <2>1. LostOnlyPastEnd'
    BY <1>2, <1>a, <1>b DEF ResumeSet, flagVars, clientVars, LostOnlyPastEnd, InsideInv
  <2>2. InsideInv'
    BY <1>2, <1>a, <1>b DEF ResumeSet, flagVars, clientVars, InsideInv
  <2>3. ProgressInv'
    BY <1>2, <1>a, <1>b DEF ResumeSet, flagVars, clientVars, ProgressInv, Pending
  <2>4. RunningFlagExact'
    BY <1>2, <1>a, <1>b DEF ResumeSet, flagVars, clientVars, RunningFlagExact
  <2>5. CallBackInv'
    BY <1>2, <1>a, <1>b DEF ResumeSet, flagVars, clientVars, CallBackInv, Pending
  <2>6. ContextInv'
    BY <1>2, <1>a, <1>b DEF ResumeSet, flagVars, clientVars, ContextInv, AtRest, Pending
  <2>7. JobsInv'
    BY <1>2, <1>a, <1>b DEF ResumeSet, flagVars, clientVars, JobsInv
  <2> QED
    BY <2>1, <2>2, <2>3, <2>4, <2>5, <2>6, <2>7, <1>c
<1>3. ASSUME NEW t \in Threads, SwapIn(t) PROVE IInv'
  <2> DEFINE c == cor[t]
  <2>a. /\ c \in Coroutines /\ current[t] = c /\ stack[t] = Main /\ pc[t] = "resume"
        /\ stack' = [stack EXCEPT ![t] = c]
        /\ pc' = [pc EXCEPT ![t] = Landing(context[c])]
        /\ UNCHANGED <<callBack, ended, running, cor>>
    BY <1>3, <1>a DEF SwapIn, flagVars
  <2>b. AtRest(c)
    BY <2>a, <1>a, <1>b, InsideAlone DEF AtRest
  <2>c. resume[c] /\ callBack[c] > since[c] /\ (~ Pending(c) => callBack[c] \in ended)
    BY <2>a, <1>a, <1>b DEF InsideInv, CallBackInv, Pending
  <2>d. /\ Pending(c) <=> context[c] \in {"entry", "yield"}
        /\ running[c] <=> context[c] = "yield"
    BY <2>a, <2>b, <2>c, <1>b DEF ContextInv
  <2>e. /\ pc'[t] = (IF ~ Pending(c) THEN "astray" ELSE IF running[c] THEN "body" ELSE "enter")
        /\ stack'[t] = c
    BY <2>a, <2>d, <1>a DEF Landing
  <2>f. \A u \in Threads \ {t} : pc'[u] = pc[u] /\ stack'[u] = stack[u]
    BY <2>a, <1>a
  <2>1. LostOnlyPastEnd'
    <3>1. UNCHANGED <<callBack, since, ended>>
      BY <1>3 DEF SwapIn, flagVars, clientVars
    <3>2. pc'[t] = "astray" => callBack[c] \in ended /\ callBack[c] > since[c]
      BY <2>c, <2>e
    <3> QED
      BY <3>1, <3>2, <2>e, <2>f, <1>b DEF LostOnlyPastEnd
  <2>2. InsideInv'
    BY <1>3, <1>a, <1>b DEF SwapIn, flagVars, clientVars, Landing, InsideInv
  <2>3. ProgressInv'
    BY <2>a, <2>c, <2>e, <2>f, <1>b DEF ProgressInv, Pending
  <2>4. RunningFlagExact'
    BY <1>3, <1>a, <1>b DEF SwapIn, flagVars, clientVars, Landing, RunningFlagExact
  <2>5. CallBackInv'
    BY <1>3, <1>a, <1>b DEF SwapIn, flagVars, clientVars, Landing, CallBackInv, Pending
  <2>6. ContextInv'
    BY <1>3, <1>a, <1>b DEF SwapIn, flagVars, clientVars, Landing, ContextInv, AtRest, Pending
  <2>7. JobsInv'
    BY <1>3, <1>a, <1>b DEF SwapIn, flagVars, clientVars, Landing, JobsInv
  <2> QED
    BY <2>1, <2>2, <2>3, <2>4, <2>5, <2>6, <2>7, <1>c
<1>4. ASSUME NEW t \in Threads, Begin(t) PROVE IInv'
  <2> DEFINE c == stack[t]
  <2>a. /\ c \in Coroutines /\ pc[t] = "enter"
        /\ pc' = [pc EXCEPT ![t] = "body"]
        /\ UNCHANGED <<stack, current, cor, callBack, resume, ended, jobs, since>>
    BY <1>4, <1>a DEF Begin, clientVars
  <2>b. /\ \A d \in Coroutines : running'[d] = IF d = c THEN TRUE ELSE running[d]
        /\ \A d \in Coroutines : frame'[d] = IF d = c THEN callBack[c] ELSE frame[d]
    BY <1>4, <1>a DEF Begin
  <2>c. Pending(c) /\ resume[c]
    BY <2>a, <1>b DEF ProgressInv, InsideInv
  <2>d. \A u \in Threads \ {t} : pc'[u] = pc[u] /\ c # stack[u]
    BY <2>a, <1>a, <1>b, InsideAlone
  <2>1. LostOnlyPastEnd'
    BY <1>4, <1>a, <1>b DEF Begin, clientVars, LostOnlyPastEnd, InsideInv
  <2>2. InsideInv'
    BY <1>4, <1>a, <1>b DEF Begin, clientVars, InsideInv
  <2>3. ProgressInv'
    <3>a. running'[c] = TRUE
      BY <2>a, <2>b
    <3>b. stack'[t] = c
      BY <2>a
    <3>c. pc'[t] = "body"
      BY <2>a, <1>a
    <3>1. pc'[t] = "body" /\ running'[stack'[t]]
      BY <3>a, <3>b, <3>c
    <3>2. \A u \in Threads \ {t} : stack[u] \in Coroutines =>
            running'[stack'[u]] = running[stack[u]]
      BY <2>a, <2>b, <2>d
    <3>3. \A d \in Coroutines : Pending(d)' <=> Pending(d)
      BY <2>a DEF Pending
    <3> QED
      BY <3>1, <3>2, <3>3, <2>a, <2>d, <1>a, <1>b DEF ProgressInv
  <2>4. RunningFlagExact'
    BY <2>a, <2>b, <2>c, <1>b DEF RunningFlagExact, Pending
  <2>5. CallBackInv'
    BY <2>a, <2>b, <2>c, <1>b DEF CallBackInv, Pending
  <2>6. ContextInv'
    BY <1>4, <1>a, <1>b DEF Begin, clientVars, ContextInv, AtRest, Pending
  <2>7. JobsInv'
    BY <1>4, <1>a, <1>b DEF Begin, clientVars, JobsInv
  <2> QED
    BY <2>1, <2>2, <2>3, <2>4, <2>5, <2>6, <2>7, <1>c
<1>5. ASSUME NEW t \in Threads, Finish(t) PROVE IInv'
  <2> DEFINE c == stack[t]
  <2>a. /\ c \in Coroutines /\ pc[t] = "body"
        /\ pc' = [pc EXCEPT ![t] = "finish"]
        /\ UNCHANGED <<stack, current, cor, callBack, resume, jobs, since>>
        /\ ended' = ended \cup {frame[c]}
    BY <1>5, <1>a DEF Finish, clientVars
  <2>b. /\ \A d \in Coroutines : running'[d] = IF d = c THEN FALSE ELSE running[d]
        /\ \A d \in Coroutines : frame'[d] = IF d = c THEN 0 ELSE frame[d]
    BY <1>5, <1>a DEF Finish
  <2>c. frame[c] = callBack[c] /\ callBack[c] # 0 /\ resume[c]
    BY <2>a, <1>b DEF ProgressInv, RunningFlagExact
  <2>d. \A u \in Threads \ {t} :
          pc'[u] = pc[u] /\ c \notin {stack[u], current[u]}
    BY <2>a, <1>a, <1>b, InsideAlone
  <2>e. \A d \in Coroutines : Pending(d)' <=> d # c /\ Pending(d)
    BY <2>a, <2>c, <1>b DEF Pending, JobsInv
  <2>1. LostOnlyPastEnd'
    BY <1>5, <1>a, <1>b DEF Finish, clientVars, LostOnlyPastEnd, InsideInv
  <2>2. InsideInv'
    BY <1>5, <1>a, <1>b DEF Finish, clientVars, InsideInv
  <2>3. ProgressInv'
    <3>a. running'[c] = FALSE /\ ~ Pending(c)'
      BY <2>a, <2>b, <2>e
    <3>b. stack'[t] = c
      BY <2>a
    <3>c. pc'[t] = "finish"
      BY <2>a, <1>a
    <3>1. pc'[t] = "finish" /\ ~ running'[stack'[t]] /\ ~ Pending(stack[t])'
      BY <3>a, <3>b, <3>c
    <3>2. \A u \in Threads \ {t} : stack[u] \in Coroutines =>
            /\ running'[stack'[u]] = running[stack[u]]
            /\ Pending(stack[u])' <=> Pending(stack[u])
      BY <2>a, <2>b, <2>d, <2>e
    <3>3. \A u \in Threads \ {t} : pc[u] = "resume" =>
            (Pending(cor[u])' <=> Pending(cor[u]))
      BY <2>a, <2>d, <2>e, <1>a
    <3> QED
      BY <3>1, <3>2, <3>3, <2>a, <2>d, <1>a, <1>b DEF ProgressInv
  <2>4. RunningFlagExact'
    BY <1>5, <1>a, <1>b DEF Finish, clientVars, RunningFlagExact
  <2>5. CallBackInv'
    <3>1. \A d \in Coroutines : callBack'[d] <= jobs' /\ frame'[d] <= jobs' /\ since'[d] <= jobs'
      BY <2>a, <2>b, <1>a, <1>b DEF CallBackInv
    <3>2. \A d \in Coroutines : resume'[d] => callBack'[d] > since'[d]
      BY <2>a, <1>b DEF CallBackInv
    <3>3. \A d \in Coroutines : running'[d] => d # c /\ running[d]
      BY <2>b
    <3>4. \A d \in Coroutines : running'[d] => Pending(d)'
      BY <3>3, <2>e, <1>b DEF CallBackInv
    <3> QED
      BY <3>1, <3>2, <3>4 DEF CallBackInv
  <2>6. ContextInv'
    <3>1. \A d \in Coroutines \ {c} : Pending(d)' <=> Pending(d)
      BY <2>e
    <3>2. context' = context /\ resume' = resume
      BY <1>5 DEF Finish
    <3>3. \A d \in Coroutines \ {c} : running'[d] = running[d]
      BY <2>b
    <3>4. ASSUME NEW d \in Coroutines, AtRest(d)'
          PROVE  /\ Pending(d)' => context'[d] \in {"entry", "yield"}
                 /\ resume'[d] => (running'[d] <=> context'[d] = "yield")
                 /\ resume'[d] /\ context'[d] \in {"entry", "yield"} => Pending(d)'
      <4>1. d # c /\ AtRest(d)
        BY <3>4, <2>a DEF AtRest
      <4>2. /\ Pending(d)' <=> Pending(d)
            /\ UNCHANGED <<context[d], resume[d], running[d]>>
        BY <3>1, <3>2, <3>3, <4>1
      <4>3. /\ Pending(d) => context[d] \in {"entry", "yield"}
            /\ resume[d] => (running[d] <=> context[d] = "yield")
            /\ resume[d] /\ context[d] \in {"entry", "yield"} => Pending(d)
        BY <4>1, <1>b DEF ContextInv
      <4> QED
        BY <4>2, <4>3
    <3> QED
      BY <3>4 DEF ContextInv
  <2>7. JobsInv'
    BY <2>a, <2>c, <1>a, <1>b DEF JobsInv, CallBackInv
  <2> QED
    BY <2>1, <2>2, <2>3, <2>4, <2>5, <2>6, <2>7, <1>c
<1>6. ASSUME NEW t \in Threads, YieldSet(t) PROVE IInv'
  <2>1. LostOnlyPastEnd'
    BY <1>6, <1>a, <1>b DEF YieldSet, flagVars, clientVars, LostOnlyPastEnd, InsideInv
  <2>2. InsideInv'
    BY <1>6, <1>a, <1>b DEF YieldSet, flagVars, clientVars, InsideInv
  <2>3. ProgressInv'
    BY <1>6, <1>a, <1>b DEF YieldSet, flagVars, clientVars, ProgressInv, Pending
  <2>4. RunningFlagExact'
    BY <1>6, <1>a, <1>b DEF YieldSet, flagVars, clientVars, RunningFlagExact
  <2>5. CallBackInv'
    BY <1>6, <1>a, <1>b DEF YieldSet, flagVars, clientVars, CallBackInv, Pending
  <2>6. ContextInv'
    BY <1>6, <1>a, <1>b DEF YieldSet, flagVars, clientVars, ContextInv, AtRest, Pending
  <2>7. JobsInv'
    BY <1>6, <1>a, <1>b DEF YieldSet, flagVars, clientVars, JobsInv
  <2> QED
    BY <2>1, <2>2, <2>3, <2>4, <2>5, <2>6, <2>7, <1>c
<1>7. ASSUME NEW t \in Threads, SwapOut(t) PROVE IInv'
  <2> DEFINE c == stack[t]
  <2>a. /\ c \in Coroutines /\ cor[t] = c /\ pc[t] \in {"yield", "finalYield"}
        /\ \A d \in Coroutines \ {c} : context'[d] = context[d]
        /\ context'[c] = IF pc[t] = "yield" THEN "yield" ELSE "final"
        /\ \A u \in Threads \ {t} : stack'[u] = stack[u]
        /\ UNCHANGED <<callBack, ended, running, resume>>
    BY <1>7, <1>a DEF SwapOut, flagVars
  <2>b. \A d \in Coroutines : Pending(d)' <=> Pending(d)
    BY <2>a DEF Pending
  <2>c. \A d \in Coroutines \ {c} : AtRest(d)' => AtRest(d)
    BY <2>a DEF AtRest
  <2>d. /\ pc[t] = "yield" => running[c] /\ Pending(c)
        /\ pc[t] = "finalYield" => ~ Pending(c) /\ ~ running[c]
    BY <2>a, <1>b DEF ProgressInv, CallBackInv
  <2>1. LostOnlyPastEnd'
    BY <1>7, <1>a, <1>b DEF SwapOut, flagVars, clientVars, LostOnlyPastEnd, InsideInv
  <2>2. InsideInv'
    BY <1>7, <1>a, <1>b DEF SwapOut, flagVars, clientVars, InsideInv
  <2>3. ProgressInv'
    BY <1>7, <1>a, <1>b DEF SwapOut, flagVars, clientVars, ProgressInv, Pending
  <2>4. RunningFlagExact'
    BY <1>7, <1>a, <1>b DEF SwapOut, flagVars, clientVars, RunningFlagExact
  <2>5. CallBackInv'
    BY <1>7, <1>a, <1>b DEF SwapOut, flagVars, clientVars, CallBackInv, Pending
  <2>6. ContextInv'
    <3>1. ASSUME NEW d \in Coroutines, AtRest(d)'
          PROVE  /\ Pending(d)' => context'[d] \in {"entry", "yield"}
                 /\ resume'[d] => (running'[d] <=> context'[d] = "yield")
                 /\ resume'[d] /\ context'[d] \in {"entry", "yield"} => Pending(d)'
      <4>1. CASE d = c
        BY <4>1, <3>1, <2>a, <2>b, <2>d
      <4>2. CASE d # c
        BY <4>2, <3>1, <2>a, <2>b, <2>c, <1>b DEF ContextInv
      <4> QED
        BY <4>1, <4>2
    <3> QED
      BY <3>1 DEF ContextInv
  <2>7. JobsInv'
    BY <1>7, <1>a, <1>b DEF SwapOut, flagVars, clientVars, JobsInv
  <2> QED
    BY <2>1, <2>2, <2>3, <2>4, <2>5, <2>6, <2>7, <1>c
<1>8. ASSUME NEW t \in Threads, Exit(t) PROVE IInv'
  <2>1. LostOnlyPastEnd'
    BY <1>8, <1>a, <1>b DEF Exit, threadVars, flagVars, LostOnlyPastEnd, InsideInv
  <2>2. InsideInv'
    BY <1>8, <1>a, <1>b DEF Exit, threadVars, flagVars, InsideInv
  <2>3. ProgressInv'
    BY <1>8, <1>a, <1>b DEF Exit, threadVars, flagVars, ProgressInv, Pending
  <2>4. RunningFlagExact'
    BY <1>8, <1>a, <1>b DEF Exit, threadVars, flagVars, RunningFlagExact
  <2>5. CallBackInv'
    BY <1>8, <1>a, <1>b DEF Exit, threadVars, flagVars, CallBackInv, Pending
  <2>6. ContextInv'
    BY <1>8, <1>a, <1>b DEF Exit, threadVars, flagVars, ContextInv, AtRest, Pending
  <2>7. JobsInv'
    BY <1>8, <1>a, <1>b DEF Exit, threadVars, flagVars, JobsInv
  <2> QED
    BY <2>1, <2>2, <2>3, <2>4, <2>5, <2>6, <2>7, <1>c
<1>9. ASSUME NEW t \in Threads, NEW c \in Coroutines, HandOver(t, c) PROVE IInv'
  <2>1. LostOnlyPastEnd'
    BY <1>9, <1>a, <1>b DEF HandOver, threadVars, flagVars, Free, LostOnlyPastEnd, InsideInv
  <2>2. InsideInv'
    BY <1>9, <1>a, <1>b DEF HandOver, threadVars, flagVars, Free, InsideInv
  <2>3. ProgressInv'
    BY <1>9, <1>a, <1>b DEF HandOver, threadVars, flagVars, Free, ProgressInv, Pending
  <2>4. RunningFlagExact'
    BY <1>9, <1>a, <1>b DEF HandOver, threadVars, flagVars, Free, RunningFlagExact
  <2>5. CallBackInv'
    BY <1>9, <1>a, <1>b DEF HandOver, threadVars, flagVars, Free, CallBackInv, Pending
  <2>6. ContextInv'
    BY <1>9, <1>a, <1>b DEF HandOver, threadVars, flagVars, Free, ContextInv, AtRest, Pending
  <2>7. JobsInv'
    BY <1>9, <1>a, <1>b DEF HandOver, threadVars, flagVars, Free, JobsInv
  <2> QED
    BY <2>1, <2>2, <2>3, <2>4, <2>5, <2>6, <2>7, <1>c
<1>10. ASSUME NEW t \in Threads, NEW c \in Coroutines, BackAndGet(t, c) PROVE IInv'
  <2>a. /\ owner[c] = t /\ current[t] # c /\ current[t] = stack[t]
        /\ UNCHANGED <<stack, current, cor, pc, callBack, ended>>
        /\ \A d \in Coroutines \ {c} : running'[d] = running[d]
    BY <1>10, <1>a DEF BackAndGet, Free, threadVars
  <2>b. AtRest(c)
    BY <2>a, <1>b DEF AtRest, InsideInv
  <2>1. LostOnlyPastEnd'
    BY <1>10, <1>a, <1>b DEF BackAndGet, threadVars, Free, LostOnlyPastEnd, InsideInv
  <2>2. InsideInv'
    BY <1>10, <1>a, <1>b DEF BackAndGet, threadVars, Free, InsideInv
  <2>3. ProgressInv'
    <3>1. \A u \in Threads : stack[u] \in Coroutines =>
            running'[stack'[u]] = running[stack[u]]
      BY <2>a, <2>b DEF AtRest
    <3>2. \A d \in Coroutines : Pending(d)' <=> Pending(d)
      BY <2>a DEF Pending
    <3> QED
      BY <3>1, <3>2, <2>a, <1>a, <1>b DEF ProgressInv
  <2>4. RunningFlagExact'
    BY <1>10, <1>a, <1>b DEF BackAndGet, threadVars, Free, RunningFlagExact
  <2>5. CallBackInv'
    BY <1>10, <1>a, <1>b DEF BackAndGet, threadVars, Free, CallBackInv, Pending
  <2>6. ContextInv'
    BY <1>10, <1>a, <1>b DEF BackAndGet, threadVars, Free, ContextInv, AtRest, Pending
  <2>7. JobsInv'
    BY <1>10, <1>a, <1>b DEF BackAndGet, threadVars, Free, JobsInv
  <2> QED
    BY <2>1, <2>2, <2>3, <2>4, <2>5, <2>6, <2>7, <1>c
<1>11. ASSUME NEW t \in Threads, NEW c \in Coroutines, TakeOver(t, c) PROVE IInv'
  <2>1. LostOnlyPastEnd'
    BY <1>11, <1>a, <1>b DEF TakeOver, threadVars, flagVars, Free, LostOnlyPastEnd, InsideInv
  <2>2. InsideInv'
    BY <1>11, <1>a, <1>b DEF TakeOver, threadVars, flagVars, Free, InsideInv
  <2>3. ProgressInv'
    BY <1>11, <1>a, <1>b DEF TakeOver, threadVars, flagVars, Free, ProgressInv, Pending
  <2>4. RunningFlagExact'
    BY <1>11, <1>a, <1>b DEF TakeOver, threadVars, flagVars, Free, RunningFlagExact
  <2>5. CallBackInv'
    BY <1>11, <1>a, <1>b DEF TakeOver, threadVars, flagVars, Free, CallBackInv, Pending
  <2>6. ContextInv'
    BY <1>11, <1>a, <1>b DEF TakeOver, threadVars, flagVars, Free, ContextInv, AtRest, Pending
  <2>7. JobsInv'
    BY <1>11, <1>a, <1>b DEF TakeOver, threadVars, flagVars, Free, JobsInv
  <2> QED
    BY <2>1, <2>2, <2>3, <2>4, <2>5, <2>6, <2>7, <1>c
<1> QED
  BY <1>0, <1>1, <1>2, <1>3, <1>4, <1>5, <1>6, <1>7, <1>8, <1>9, <1>10, <1>11
  DEF Next, Switch

LEMMA Inductive ==
  ASSUME TrustFlag = FALSE
  PROVE  Spec => []IInv
BY InvInit, InvStep, PTL DEF Spec

\* When coroutines are passed on between two Resumes only, two threads are never
\* on the same stack, whatever the threads resume.
THEOREM OneRunnerCorrect ==
  ASSUME TrustFlag = FALSE
  PROVE  Spec => []OneRunner
<1>1. IInv => OneRunner
  BY DEF IInv, TypeOK, InsideInv, OneRunner
<1> QED
  BY Inductive, <1>1, PTL

\* Only a Resume of a coroutine whose last callback has ended loses control.
THEOREM LostOnlyPastEndCorrect ==
  ASSUME TrustFlag = FALSE
  PROVE  Spec => []LostOnlyPastEnd
<1>1. IInv => LostOnlyPastEnd
  BY DEF IInv
<1> QED
  BY Inductive, <1>1, PTL

\* The running flag tells setCallBack exactly whether there is a suspended
\* callback that it must not overwrite.
THEOREM RunningFlagCorrect ==
  ASSUME TrustFlag = FALSE
  PROVE  Spec => []RunningFlagExact
<1>1. IInv => RunningFlagExact
  BY DEF IInv
<1> QED
  BY Inductive, <1>1, PTL

\* What runs on a stack is the last callback set, and was set after the last
\* backCoroutine: nobody runs on in what a previous owner left behind.
THEOREM RunsItsCallBackCorrect ==
  ASSUME TrustFlag = FALSE
  PROVE  Spec => []RunsItsCallBack
<1>1. ASSUME IInv PROVE RunsItsCallBack
  <2> SUFFICES ASSUME NEW t \in Threads, pc[t] = "body"
               PROVE  /\ frame[stack[t]] = callBack[stack[t]]
                      /\ callBack[stack[t]] > since[stack[t]]
    BY DEF RunsItsCallBack
  <2>1. stack[t] \in Coroutines /\ running[stack[t]] /\ resume[stack[t]]
    BY <1>1 DEF IInv, TypeOK, PlaceInv, ProgressInv, InsideInv
  <2> QED
    BY <1>1, <2>1 DEF IInv, RunningFlagExact, CallBackInv
<1> QED
  BY Inductive, <1>1, PTL

\* A callback that setCallBack has accepted stays what the next Resume goes to.
THEOREM CallBackKeptCorrect ==
  ASSUME TrustFlag = FALSE
  PROVE  Spec => []CallBackKept
<1>1. IInv => CallBackKept
  BY DEF IInv, ContextInv, AtRest, CallBackKept
<1> QED
  BY Inductive, <1>1, PTL

\* A callback that begins has not ended, and has not begun on this stack before:
\* no switch or migration restarts one.
THEOREM BeginsOnceCorrect ==
  ASSUME TrustFlag = FALSE
  PROVE  Spec => BeginsOnce
<1> DEFINE Fresh == \A t \in Threads : pc[t] = "enter" /\ pc'[t] = "body" =>
             LET c == stack[t] IN callBack[c] \notin ended /\ frame[c] # callBack[c]
<1>1. ASSUME IInv PROVE Fresh
  <2> SUFFICES ASSUME NEW t \in Threads, pc[t] = "enter"
               PROVE  /\ callBack[stack[t]] \notin ended
                      /\ frame[stack[t]] # callBack[stack[t]]
    OBVIOUS
  <2>1. /\ stack[t] \in Coroutines /\ resume[stack[t]]
        /\ Pending(stack[t]) /\ ~ running[stack[t]]
    BY <1>1 DEF IInv, TypeOK, PlaceInv, ProgressInv, InsideInv
  <2> QED
    BY <1>1, <2>1 DEF IInv, RunningFlagExact, Pending
<1>2. IInv /\ [Next]_vars => [Fresh]_vars
  BY <1>1
<1> QED
  BY Inductive, <1>2, PTL DEF Spec, BeginsOnce

-----------------------------------------------------------------------------
(* Coroutine implements AsymmetricSwitch *)

LEMMA RefineInit == Init => Abstract!Init
<1> SUFFICES ASSUME Init PROVE Abstract!Init
  OBVIOUS
<1>1. \A c \in Coroutines : AtRest(c) /\ ~ resume[c]
  BY MainAssumption DEF Init, AtRest
<1>2. \A c \in Coroutines : ~ Astray(c)
  BY DEF Init, Astray
<1> QED
  BY <1>1, <1>2 DEF Init, Abstract!Init, Life

\* The life of a coroutine changes only with the stacks, its context and its
\* resume flag.
LEMMA LifeKept ==
  ASSUME NEW c \in Coroutines, (AtRest(c) <=> AtRest(c)'),
         (Astray(c) <=> Astray(c)'),
         AtRest(c) => (context'[c] = context[c] /\ (resume'[c] <=> resume[c]))
  PROVE  Life'[c] = Life[c]
BY DEF Life

\* Nobody is lost who was not before, and whoever is stays where it is.
LEMMA StillAstray ==
  ASSUME \A t \in Threads : /\ pc'[t] = "astray" <=> pc[t] = "astray"
                            /\ pc[t] = "astray" => stack'[t] = stack[t]
  PROVE  \A c \in Coroutines : Astray(c) <=> Astray(c)'
BY DEF Astray

\* A thread that is lost in c is on its stack.
LEMMA AstrayInside ==
  ASSUME NEW c \in Coroutines, AtRest(c)
  PROVE  ~ Astray(c)
BY DEF Astray, AtRest

\* Only c changes its life, and what it becomes is l.
LEMMA Becomes ==
  ASSUME NEW c \in Coroutines, NEW l, Life'[c] = l,
         \A d \in Coroutines \ {c} : Life'[d] = Life[d]
  PROVE  Abstract!Become(c, l)
<1>1. Life' = [d \in Coroutines |-> Life'[d]]
  BY DEF Life
<1>2. [Life EXCEPT ![c] = l] = [d \in Coroutines |-> IF d = c THEN l ELSE Life[d]]
  BY DEF Life
<1>3. \A d \in Coroutines : Life'[d] = IF d = c THEN l ELSE Life[d]
  OBVIOUS
<1>4. Life' = [Life EXCEPT ![c] = l]
  BY ONLY <1>1, <1>2, <1>3
<1> QED
  BY <1>4 DEF Abstract!Become

LEMMA SameLife ==
  ASSUME \A d \in Coroutines : Life'[d] = Life[d]
  PROVE  Life' = Life
BY DEF Life

LEMMA RefineStep ==
  ASSUME TrustFlag = FALSE
  PROVE  IInv /\ [Next]_vars => [Abstract!Next]_<<stack, Life>>
<1> SUFFICES ASSUME IInv, [Next]_vars PROVE [Abstract!Next]_<<stack, Life>>
  OBVIOUS
<1>a. PlaceTyped
  BY DEF IInv, PlaceTyped
<1>b. InsideInv /\ ProgressInv /\ RunningFlagExact /\ CallBackInv /\ ContextInv
  BY DEF IInv
<1>c. ASSUME UNCHANGED <<stack, context, resume>>,
             \A t \in Threads : pc'[t] = "astray" <=> pc[t] = "astray"
      PROVE  Life' = Life
  BY <1>c, LifeKept, SameLife, StillAstray DEF AtRest
<1> USE MainAssumption, MaxJobsAssumption DEF PlaceTyped, TypeOK, PlaceInv, At, UserCode
<1>0. CASE UNCHANGED vars
  BY <1>0, <1>c DEF vars
<1>1. ASSUME NEW t \in Threads, NEW c \in Coroutines, SetCallBack(t, c)
      PROVE  Abstract!Next
  <2>1. AtRest(c)
    BY <1>1, <1>a, <1>b DEF SetCallBack, AtRest, InsideInv, ProgressInv
  <2>2. ~ (resume[c] /\ context[c] = "yield")
    BY <1>1, <2>1, <1>b DEF SetCallBack, ContextInv
  <2>3. Life[c] \in {"idle", "ready", "done"}
    BY <2>1, <2>2, AstrayInside DEF Life
  <2>4. stack' = stack /\ pc' = pc /\ context'[c] = "entry" /\ resume'[c]
    BY <1>1, <1>a DEF SetCallBack, threadVars
  <2>5. Life'[c] = "ready"
    BY <2>1, <2>4, AstrayInside, StillAstray DEF Life, AtRest
  <2>6. \A d \in Coroutines \ {c} : Life'[d] = Life[d]
    <3> SUFFICES ASSUME NEW d \in Coroutines \ {c} PROVE Life'[d] = Life[d]
      OBVIOUS
    <3>1. context'[d] = context[d] /\ resume'[d] = resume[d]
      BY <1>1, <1>a DEF SetCallBack
    <3> QED
      BY <2>4, <3>1, LifeKept, StillAstray DEF AtRest
  <2>7. Abstract!Become(c, "ready")
    BY <2>5, <2>6, Becomes
  <2> QED
    BY <2>3, <2>4, <2>7 DEF Abstract!Next, Abstract!Arm
<1>2. ASSUME NEW t \in Threads, NEW c \in Coroutines, ResumeSet(t, c)
      PROVE  UNCHANGED <<stack, Life>>
  BY <1>2, <1>c DEF ResumeSet, flagVars
<1>3. ASSUME NEW t \in Threads, SwapIn(t) PROVE Abstract!Next
  <2>0. PICK c \in Coroutines : c = cor[t]
    BY <1>3, <1>a DEF SwapIn
  <2>1. /\ current[t] = c /\ stack[t] = Main /\ pc[t] = "resume"
        /\ stack' = [stack EXCEPT ![t] = c]
        /\ UNCHANGED <<context, resume>>
    BY <2>0, <1>3, <1>a DEF SwapIn, flagVars
  <2>2. AtRest(c) /\ resume[c] /\ ~ Astray(c)
    BY <2>0, <2>1, <1>a, <1>b, InsideAlone, AstrayInside DEF AtRest, InsideInv
  <2>3. pc' = [pc EXCEPT ![t] = Landing(context[c])]
    BY <2>0, <1>3, <1>a DEF SwapIn
  <2>4. ~ AtRest(c)' /\ \A d \in Coroutines \ {c} : (AtRest(d)' <=> AtRest(d))
    BY <2>1, <1>a DEF AtRest
  <2>5. Astray(c)' <=> context[c] \notin {"entry", "yield"}
    BY <2>1, <2>2, <2>3, <1>a DEF Astray, AtRest, Landing
  <2>6. \A d \in Coroutines \ {c} : Astray(d)' <=> Astray(d)
    BY <2>1, <2>3, <1>a DEF Astray
  <2>7. \A d \in Coroutines \ {c} : Life'[d] = Life[d]
    BY <2>1, <2>4, <2>6, LifeKept
  <2>8. CASE context[c] \in {"entry", "yield"}
    <3>1. Life[c] \in {"ready", "suspended"}
      BY <2>2, <2>8 DEF Life
    <3>2. Life'[c] = "running"
      BY <2>4, <2>5, <2>8 DEF Life
    <3>3. Abstract!Become(c, "running")
      BY <2>7, <3>2, Becomes
    <3> QED
      BY <2>1, <3>1, <3>3 DEF Abstract!Next, Abstract!SwitchTo
  <2>9. CASE context[c] \notin {"entry", "yield"}
    <3>1. Life[c] = "done"
      BY <2>2, <2>9 DEF Life
    <3>2. Life'[c] = "lost"
      BY <2>5, <2>9 DEF Life
    <3>3. Abstract!Become(c, "lost")
      BY <2>7, <3>2, Becomes
    <3> QED
      BY <2>1, <3>1, <3>3 DEF Abstract!Next, Abstract!Lose
  <2> QED
    BY <2>8, <2>9
<1>4. ASSUME NEW t \in Threads, Begin(t) \/ Finish(t) \/ YieldSet(t) \/ Exit(t)
      PROVE  UNCHANGED <<stack, Life>>
  <2>1. UNCHANGED <<stack, context, resume>>
    BY <1>4 DEF Begin, Finish, YieldSet, Exit, flagVars, threadVars
  <2>2. \A u \in Threads : pc'[u] = "astray" <=> pc[u] = "astray"
    BY <1>4, <1>a DEF Begin, Finish, YieldSet, Exit, threadVars
  <2> QED
    BY <2>1, <2>2, <1>c
<1>5. ASSUME NEW t \in Threads, SwapOut(t) PROVE Abstract!Next
  <2>0. PICK c \in Coroutines : c = stack[t]
    BY <1>5, <1>a DEF SwapOut
  <2>1. /\ stack[t] = c /\ cor[t] = c /\ pc[t] \in {"yield", "finalYield"}
        /\ \A d \in Coroutines \ {c} : context'[d] = context[d]
        /\ context'[c] \in {"yield", "final"}
        /\ stack' = [stack EXCEPT ![t] = Main]
        /\ resume' = resume
    BY <2>0, <1>5, <1>a DEF SwapOut, flagVars
  <2>2. resume[c]
    BY <2>1, <1>b DEF InsideInv
  <2>3. AtRest(c)' /\ \A d \in Coroutines \ {c} : (AtRest(d)' <=> AtRest(d))
    BY <2>1, <1>a, <1>b, InsideAlone DEF AtRest
  <2>a. \A d \in Coroutines : Astray(d) <=> Astray(d)'
    BY <2>1, <1>5, <1>a, StillAstray DEF SwapOut
  <2>b. ~ Astray(c) /\ ~ AtRest(c)
    BY <2>1, <1>a, <1>b, InsideAlone DEF Astray, AtRest
  <2>4. PICK l \in {"suspended", "done"} : Life'[c] = l
    BY <2>1, <2>2, <2>3, <2>a, <2>b DEF Life
  <2>5. \A d \in Coroutines \ {c} : Life'[d] = Life[d]
    BY <2>1, <2>3, <2>a, LifeKept
  <2>6. Abstract!Become(c, l)
    BY <2>1, <2>4, <2>5, Becomes
  <2>7. c # Main /\ Life[c] = "running"
    BY <2>b DEF Life
  <2> QED
    BY <2>1, <2>6, <2>7 DEF Abstract!Next, Abstract!SwitchBack
<1>6. ASSUME NEW t \in Threads, NEW c \in Coroutines,
             HandOver(t, c) \/ TakeOver(t, c)
      PROVE  UNCHANGED <<stack, Life>>
  BY <1>6, <1>c DEF HandOver, TakeOver, flagVars, threadVars
<1>7. ASSUME NEW t \in Threads, NEW c \in Coroutines, BackAndGet(t, c)
      PROVE  Abstract!Next
  <2>1. /\ owner[c] = t /\ current[t] # c /\ current[t] = stack[t]
        /\ UNCHANGED <<stack, pc, context>> /\ ~ resume'[c]
        /\ \A d \in Coroutines \ {c} : resume'[d] = resume[d]
    BY <1>7, <1>a DEF BackAndGet, Free, threadVars
  <2>2. AtRest(c)
    BY <2>1, <1>b DEF AtRest, InsideInv
  <2>3. Life[c] \notin {"running", "lost"}
    BY <2>2, AstrayInside DEF Life
  <2>4. Life'[c] = "idle"
    BY <2>1, <2>2, AstrayInside, StillAstray DEF Life, AtRest
  <2>5. \A d \in Coroutines \ {c} : Life'[d] = Life[d]
    BY <2>1, LifeKept, StillAstray DEF AtRest
  <2>6. Abstract!Become(c, "idle")
    BY <2>4, <2>5, Becomes
  <2> QED
    BY <2>1, <2>3, <2>6 DEF Abstract!Next, Abstract!Drop
<1> QED
  BY <1>0, <1>1, <1>2, <1>3, <1>4, <1>5, <1>6, <1>7 DEF Next, Switch

\* The switching code implements asymmetric coroutines, where only a Resume of a
\* coroutine that is done loses a thread: control goes from a main
\* program to a coroutine that has something to run, back to the same thread, and
\* a suspended callback is continued or dropped, never restarted.
THEOREM ImplementsAsymmetricSwitch ==
  ASSUME TrustFlag = FALSE
  PROVE  Spec => AbstractSpec
BY RefineInit, RefineStep, Inductive, PTL DEF Spec, AbstractSpec, Abstract!Spec
=============================================================================
