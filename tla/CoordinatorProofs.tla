-------------------------- MODULE CoordinatorProofs --------------------------
(***************************************************************************)
(* For every set of calls: the coordinator's lock has one holder, and the  *)
(* coordinator implements SerialRuns, by the inductive invariant Inv.      *)
(***************************************************************************)
EXTENDS Coordinator, SequenceTheorems, TLAPS

THEOREM CoordinatorTypeCorrect == Spec => []TypeOK
<1>1. ASSUME Init PROVE TypeOK
  <2>1. pending \in Seq(Triggers)
    BY <1>1, EmptySeq DEF Init
  <2>2. pc \in [Triggers -> Holding \cup Idle]
    BY <1>1 DEF Init, Holding, Idle
  <2>3. locked \in BOOLEAN /\ current \in [Triggers -> SUBSET Triggers]
    BY <1>1 DEF Init
  <2>4. finished \in SUBSET Triggers
    BY <1>1 DEF Init
  <2>5. OneTriggerWhileRunning
    BY <1>1 DEF Init, OneTriggerWhileRunning
  <2>. QED
    BY <2>1, <2>2, <2>3, <2>4, <2>5 DEF TypeOK
<1>2. TypeOK /\ [Next]_vars => TypeOK'
  <2> SUFFICES ASSUME TypeOK, [Next]_vars PROVE TypeOK'
    OBVIOUS
  <2> USE DEF TypeOK, OneTriggerWhileRunning, Idle, Holding, Goto
  <2>1. CASE UNCHANGED vars
    BY <2>1 DEF vars
  <2>2. ASSUME NEW t \in Triggers, Run(t) \/ ThreadStarts(t) PROVE TypeOK'
    <3>1. pc' = [pc EXCEPT ![t] = "running"]
      BY <2>2 DEF Run, ThreadStarts
    <3>2. current' = [current EXCEPT ![t] = {t}]
      BY <2>2 DEF Run, ThreadStarts
    <3>3. locked' \in BOOLEAN /\ pending' = pending /\ finished' = finished
      BY <2>2 DEF Run, ThreadStarts
    <3>. QED
      BY <3>1, <3>2, <3>3
  <2>3. ASSUME NEW t \in Triggers,
               StartBackground(t) \/ Refused(t) \/ ThreadFails(t)
        PROVE  TypeOK'
    BY <2>3 DEF StartBackground, Refused, ThreadFails
  <2>4. ASSUME NEW t \in Triggers, Enqueue(t) PROVE TypeOK'
    BY <2>4 DEF Enqueue
  <2>5. ASSUME NEW t \in Triggers, RunReturns(t) \/ RunRaises(t) PROVE TypeOK'
    BY <2>5 DEF RunReturns, RunRaises
  <2>6. ASSUME NEW t \in Triggers, DequeueNext(t) PROVE TypeOK'
    <3>1. Head(pending) \in Triggers /\ Tail(pending) \in Seq(Triggers)
      BY <2>6, HeadTailProperties DEF DequeueNext
    <3>. QED
      BY <3>1, <2>6 DEF DequeueNext
  <2>7. ASSUME NEW t \in Triggers, DequeueNone(t) \/ Release(t) PROVE TypeOK'
    BY <2>7 DEF DequeueNone, Release
  <2>. QED
    BY <2>1, <2>2, <2>3, <2>4, <2>5, <2>6, <2>7 DEF Next, Caller, Progress
<1>. QED
  BY <1>1, <1>2, PTL DEF Spec

(* One worker holds the lock: every step that enters the section finds the *)
(* lock free, every step that leaves it frees the lock.                    *)
THEOREM OneHolder == Spec => []LockHasOneHolder
<1>1. Init => LockHasOneHolder
  BY DEF Init, LockHasOneHolder, Holding
<1>2. TypeOK /\ LockHasOneHolder /\ [Next]_vars => LockHasOneHolder'
  <2> SUFFICES ASSUME TypeOK, LockHasOneHolder, [Next]_vars
               PROVE  LockHasOneHolder'
    OBVIOUS
  <2> USE DEF TypeOK, LockHasOneHolder, Holding, Idle, Goto
  <2>1. CASE UNCHANGED vars
    BY <2>1 DEF vars
  <2>2. ASSUME NEW t \in Triggers, Run(t) PROVE LockHasOneHolder'
    BY <2>2 DEF Run
  <2>3. ASSUME NEW t \in Triggers, StartBackground(t) PROVE LockHasOneHolder'
    BY <2>3 DEF StartBackground
  <2>4. ASSUME NEW t \in Triggers, Refused(t) \/ Enqueue(t) PROVE LockHasOneHolder'
    BY <2>4 DEF Refused, Enqueue
  <2>5. ASSUME NEW t \in Triggers,
               \/ ThreadStarts(t) \/ RunReturns(t) \/ RunRaises(t)
               \/ DequeueNext(t) \/ DequeueNone(t)
        PROVE  LockHasOneHolder'
    <3>1. pc[t] \in Holding /\ locked' = locked
      BY <2>5 DEF ThreadStarts, RunReturns, RunRaises, DequeueNext, DequeueNone
    <3>2. /\ pc'[t] \in Holding
          /\ \A s \in Triggers : s # t => pc'[s] = pc[s]
      BY <2>5 DEF ThreadStarts, RunReturns, RunRaises, DequeueNext, DequeueNone
    <3>. QED
      BY <3>1, <3>2
  <2>6. ASSUME NEW t \in Triggers, ThreadFails(t) \/ Release(t) PROVE LockHasOneHolder'
    <3>1. pc[t] \in Holding /\ ~locked'
      BY <2>6 DEF ThreadFails, Release
    <3>2. /\ pc'[t] \notin Holding
          /\ \A s \in Triggers : s # t => pc'[s] = pc[s]
      BY <2>6 DEF ThreadFails, Release
    <3>. QED
      BY <3>1, <3>2
  <2>. QED
    BY <2>1, <2>2, <2>3, <2>4, <2>5, <2>6 DEF Next, Caller, Progress
<1>. QED
  BY <1>1, <1>2, CoordinatorTypeCorrect, PTL DEF Spec
-----------------------------------------------------------------------------
(* A caller that has not yet got the lock's answer, or has not yet acted   *)
(* on it, has its trigger nowhere: not waiting, not run, not being run.    *)
UntouchedIsFresh ==
  \A t \in Triggers :
    pc[t] \in {"new", "refused", "starting"} =>
      /\ \A i \in 1..Len(pending) : pending[i] # t
      /\ t \notin finished
      /\ \A w \in Triggers : t \notin current[w]

Inv == TypeOK /\ LockHasOneHolder /\ UntouchedIsFresh

Serving == UNION {current[t] : t \in Triggers}

LEMMA UntouchedStep ==
  ASSUME TypeOK, UntouchedIsFresh, [Next]_vars
  PROVE  UntouchedIsFresh'
<1> USE DEF TypeOK, Goto
<1>1. CASE UNCHANGED vars
  BY <1>1 DEF vars, UntouchedIsFresh
<1>2. ASSUME NEW t \in Triggers, Run(t) \/ ThreadStarts(t) PROVE UntouchedIsFresh'
  <2>1. /\ pc[t] \in {"new", "refused", "starting"} /\ pc'[t] = "running"
        /\ \A s \in Triggers : s # t => pc'[s] = pc[s]
        /\ pending' = pending /\ finished' = finished
        /\ current'[t] = {t}
        /\ \A w \in Triggers : w # t => current'[w] = current[w]
    BY <1>2 DEF Run, ThreadStarts
  <2>. QED
    BY <2>1 DEF UntouchedIsFresh
<1>3. ASSUME NEW t \in Triggers,
             \/ StartBackground(t) \/ Refused(t) \/ ThreadFails(t)
             \/ DequeueNone(t) \/ Release(t)
      PROVE  UntouchedIsFresh'
  <2>1. /\ pending' = pending /\ current' = current /\ finished' = finished
        /\ \A s \in Triggers :
             pc'[s] \in {"new", "refused", "starting"} =>
               pc[s] \in {"new", "refused", "starting"}
    BY <1>3 DEF StartBackground, Refused, ThreadFails, DequeueNone, Release
  <2>. QED
    BY <2>1 DEF UntouchedIsFresh
<1>4. ASSUME NEW t \in Triggers, Enqueue(t) PROVE UntouchedIsFresh'
  <2>1. /\ pc'[t] = "queued" /\ \A s \in Triggers : s # t => pc'[s] = pc[s]
        /\ current' = current /\ finished' = finished
    BY <1>4 DEF Enqueue
  <2>2. ASSUME NEW i \in 1..Len(pending')
        PROVE  pending'[i] = t \/ (i \in 1..Len(pending) /\ pending'[i] = pending[i])
    BY <1>4, AppendProperties DEF Enqueue
  <2>. QED
    BY <2>1, <2>2 DEF UntouchedIsFresh
<1>5. ASSUME NEW t \in Triggers, RunReturns(t) \/ RunRaises(t) PROVE UntouchedIsFresh'
  <2>1. /\ pc'[t] \notin {"new", "refused", "starting"}
        /\ \A s \in Triggers : s # t => pc'[s] = pc[s]
        /\ pending' = pending /\ finished' = finished \cup current[t]
        /\ \A w \in Triggers : current'[w] \subseteq current[w]
    BY <1>5 DEF RunReturns, RunRaises
  <2>. QED
    BY <2>1 DEF UntouchedIsFresh
<1>6. ASSUME NEW t \in Triggers, DequeueNext(t) PROVE UntouchedIsFresh'
  <2>1. /\ pc'[t] = "running" /\ \A s \in Triggers : s # t => pc'[s] = pc[s]
        /\ current' = [current EXCEPT ![t] = {pending[1]}]
        /\ finished' = finished /\ Len(pending) > 0
    BY <1>6, EmptySeq DEF DequeueNext
  <2>2. ASSUME NEW i \in 1..Len(pending')
        PROVE  i + 1 \in 1..Len(pending) /\ pending'[i] = pending[i + 1]
    BY <1>6, HeadTailProperties DEF DequeueNext
  <2>3. 1 \in 1..Len(pending)
    BY <2>1, LenProperties
  <2>. QED
    BY <2>1, <2>2, <2>3 DEF UntouchedIsFresh
<1>. QED
  BY <1>1, <1>2, <1>3, <1>4, <1>5, <1>6 DEF Next, Caller, Progress

LEMMA CoordinatorInv == Spec => []Inv
<1>1. Init => UntouchedIsFresh
  BY DEF Init, UntouchedIsFresh
<1>2. TypeOK /\ UntouchedIsFresh /\ [Next]_vars => UntouchedIsFresh'
  BY UntouchedStep
<1>. QED
  BY <1>1, <1>2, CoordinatorTypeCorrect, OneHolder, PTL DEF Spec, Inv

-----------------------------------------------------------------------------
(* Where the work of the coordinator is, for the refinement: all of it at  *)
(* the one worker that runs.                                               *)
LEMMA ServingIsTheRunningWorkers ==
  ASSUME Inv, NEW w \in Triggers, pc[w] \in Holding
  PROVE  Serving = current[w]
BY DEF Inv, TypeOK, OneTriggerWhileRunning, LockHasOneHolder, Holding, Serving

LEMMA NobodyRuns ==
  ASSUME Inv, ~locked
  PROVE  Serving = {}
BY DEF Inv, TypeOK, OneTriggerWhileRunning, LockHasOneHolder, Holding, Serving

LEMMA UntouchedMapsToFresh ==
  ASSUME Inv, NEW t \in Triggers, pc[t] \in {"new", "refused", "starting"}
  PROVE  Runs!Fresh(t)
BY DEF Inv, UntouchedIsFresh, Runs!Fresh, Runs!Waits

(* The coordinator does what SerialRuns promises, for any set of calls. *)
THEOREM CoordinatorImplementsSerialRuns == Spec => ImplementsSerialRuns
<1>1. Init => Runs!Init
  BY DEF Init, Runs!Init
<1>2. Inv /\ Inv' /\ [Next]_vars => [Runs!Next]_(Runs!vars)
  <2> SUFFICES ASSUME Inv, Inv', [Next]_vars
               PROVE  [Runs!Next]_(Runs!vars)
    OBVIOUS
  <2> USE DEF Goto
  <2>0. TypeOK
    BY DEF Inv
  <2>1. CASE UNCHANGED vars
    BY <2>1 DEF vars, Runs!vars
  <2>2. ASSUME NEW t \in Triggers, Run(t) \/ ThreadStarts(t) PROVE Runs!Start(t)
    <3>1. Runs!Fresh(t)
      BY <2>2, UntouchedMapsToFresh DEF Run, ThreadStarts
    <3>2. Serving = {}
      <4>1. CASE Run(t)
        BY <4>1, NobodyRuns DEF Run
      <4>2. CASE ThreadStarts(t)
        BY <4>2, ServingIsTheRunningWorkers DEF ThreadStarts, Holding, Inv, TypeOK, OneTriggerWhileRunning
      <4>. QED
        BY <2>2, <4>1, <4>2
    <3>3. Serving' = {t}
      BY <2>2, <2>0, <3>2 DEF Run, ThreadStarts, Serving, TypeOK
    <3>4. pending' = pending /\ finished' = finished
      BY <2>2 DEF Run, ThreadStarts
    <3>. QED
      BY <3>1, <3>2, <3>3, <3>4 DEF Runs!Start, Serving
  <2>3. ASSUME NEW t \in Triggers,
               \/ StartBackground(t) \/ Refused(t) \/ ThreadFails(t)
               \/ DequeueNone(t) \/ Release(t)
        PROVE  UNCHANGED Runs!vars
    BY <2>3 DEF StartBackground, Refused, ThreadFails, DequeueNone, Release, Runs!vars
  <2>4. ASSUME NEW t \in Triggers, Enqueue(t) PROVE Runs!Accept(t)
    BY <2>4, UntouchedMapsToFresh DEF Enqueue, Runs!Accept
  <2>5. ASSUME NEW t \in Triggers, RunReturns(t) \/ RunRaises(t) PROVE Runs!Finish
    <3>1. Serving = current[t] /\ Serving # {}
      BY <2>5, ServingIsTheRunningWorkers
      DEF RunReturns, RunRaises, Holding, Inv, TypeOK, OneTriggerWhileRunning
    <3>2. Serving' = {}
      <4>1. current'[t] = {} /\ \A s \in Triggers : s # t => current'[s] = current[s]
        BY <2>5, <2>0 DEF RunReturns, RunRaises, TypeOK
      <4>2. \A s \in Triggers : s # t => current[s] = {}
        BY <2>5, <2>0
        DEF RunReturns, RunRaises, Inv, LockHasOneHolder, TypeOK, OneTriggerWhileRunning, Holding
      <4>. QED
        BY <4>1, <4>2 DEF Serving
    <3>3. pending' = pending /\ finished' = finished \cup current[t]
      BY <2>5 DEF RunReturns, RunRaises
    <3>. QED
      BY <3>1, <3>2, <3>3 DEF Runs!Finish, Serving
  <2>6. ASSUME NEW t \in Triggers, DequeueNext(t) PROVE Runs!Take
    <3>1. Serving = {}
      BY <2>6, ServingIsTheRunningWorkers DEF DequeueNext, Holding, Inv, TypeOK, OneTriggerWhileRunning
    <3>2. /\ current'[t] = {Head(pending)}
          /\ \A s \in Triggers : s # t => current'[s] = {}
      BY <2>6, <2>0, <3>1 DEF DequeueNext, Serving, TypeOK
    <3>3. Serving' = {Head(pending)}
      BY <3>2 DEF Serving
    <3>. QED
      BY <2>6, <3>1, <3>3 DEF DequeueNext, Runs!Take, Serving
  <2>. QED
    BY <2>1, <2>2, <2>3, <2>4, <2>5, <2>6 DEF Next, Caller, Progress, Runs!Next
<1>. QED
  BY <1>1, <1>2, CoordinatorInv, PTL DEF Spec, Runs!Spec, ImplementsSerialRuns
=============================================================================
