----------------------------- MODULE Coordinator -----------------------------
(***************************************************************************)
(* RunCoordinator (manga_watch/runner.py): the scheduler's thread calls    *)
(* run, the Discord request threads call start_background, and the class   *)
(* lets one of them run while the triggers of the others wait in a deque.  *)
(* A caller is named by the trigger it brings.  _lock is a plain           *)
(* threading.Lock: whoever holds it is recorded in the callers' program    *)
(* counters only, as in the code, where the thread that releases it need   *)
(* not be the one that took it.                                            *)
(***************************************************************************)
EXTENDS Naturals, Sequences

CONSTANT Triggers   \* the calls made on one coordinator, each brings one trigger

VARIABLES
  locked,     \* _lock.locked()
  pending,    \* _pending_trigger_sources
  pc,         \* where each caller, or the worker thread it started, is
  current,    \* the triggers a worker passes to run_once: empty or a singleton
  finished    \* history: the triggers whose run_once has ended

vars == <<locked, pending, pc, current, finished>>

(* "starting": start_background holds the lock and has not started its     *)
(* thread; "leaving" and "raising": in _run_with_lock's finally, before    *)
(* the release, after an empty deque or an exception of run_once.          *)
Holding == {"starting", "running", "draining", "leaving", "raising"}

Idle == {"new", "refused", "queued", "done", "raised", "rejected"}

Init ==
  /\ locked = FALSE
  /\ pending = <<>>
  /\ pc = [t \in Triggers |-> "new"]
  /\ current = [t \in Triggers |-> {}]
  /\ finished = {}

Goto(t, to) == pc' = [pc EXCEPT ![t] = to]

-----------------------------------------------------------------------------
(* Faulty variants of the actions below, each a mistake one could make in  *)
(* the code: substituted for the action, a property has to fail.           *)

(* the loop does not test for None: run_once is called without a trigger *)
DequeueNoneRuns(w) ==
  /\ pc[w] = "draining"
  /\ pending = <<>>
  /\ Goto(w, "running")
  /\ UNCHANGED <<locked, pending, current, finished>>

(* appendleft for append *)
EnqueueLeft(t) ==
  /\ pc[t] = "refused"
  /\ pending' = <<t>> \o pending
  /\ Goto(t, "queued")
  /\ UNCHANGED <<locked, current, finished>>

(* one look at the deque instead of a loop *)
RunReturnsNoLoop(w) ==
  /\ pc[w] = "running"
  /\ finished' = finished \cup current[w]
  /\ current' = [current EXCEPT ![w] = {}]
  /\ Goto(w, IF w \in finished THEN "leaving" ELSE "draining")
  /\ UNCHANGED <<locked, pending>>

(* the release is not in a finally *)
RunRaisesKeepingLock(w) ==
  /\ pc[w] = "running"
  /\ finished' = finished \cup current[w]
  /\ current' = [current EXCEPT ![w] = {}]
  /\ Goto(w, "raised")
  /\ UNCHANGED <<locked, pending>>

-----------------------------------------------------------------------------
(* run: _lock.acquire(blocking=False) succeeds and run_once is called. *)
Run(t) ==
  /\ pc[t] = "new"
  /\ ~locked
  /\ locked' = TRUE
  /\ Goto(t, "running")
  /\ current' = [current EXCEPT ![t] = {t}]
  /\ UNCHANGED <<pending, finished>>

(* start_background: the lock is taken, the thread not yet started. *)
StartBackground(t) ==
  /\ pc[t] = "new"
  /\ ~locked
  /\ locked' = TRUE
  /\ Goto(t, "starting")
  /\ UNCHANGED <<pending, current, finished>>

(* thread.start() succeeds and the worker enters _run_with_lock. *)
ThreadStarts(t) ==
  /\ pc[t] = "starting"
  /\ Goto(t, "running")
  /\ current' = [current EXCEPT ![t] = {t}]
  /\ UNCHANGED <<locked, pending, finished>>

(* thread.start() raises: the lock is released and the caller told. *)
ThreadFails(t) ==
  /\ pc[t] = "starting"
  /\ locked' = FALSE
  /\ Goto(t, "rejected")
  /\ UNCHANGED <<pending, current, finished>>

(* Either entry point finds the lock taken; it has not yet enqueued. *)
Refused(t) ==
  /\ pc[t] = "new"
  /\ locked
  /\ Goto(t, "refused")
  /\ UNCHANGED <<locked, pending, current, finished>>

(* _enqueue_trigger_source, under _pending_lock; the caller is answered    *)
(* accepted and queued whatever has happened to the lock meanwhile.        *)
Enqueue(t) ==
  /\ pc[t] = "refused"
  /\ pending' = Append(pending, t)
  /\ Goto(t, "queued")
  /\ UNCHANGED <<locked, current, finished>>

-----------------------------------------------------------------------------
(* run_once returns to _run_with_lock. *)
RunReturns(w) ==
  /\ pc[w] = "running"
  /\ finished' = finished \cup current[w]
  /\ current' = [current EXCEPT ![w] = {}]
  /\ Goto(w, "draining")
  /\ UNCHANGED <<locked, pending>>

(* run_once raises: the loop is left, the deque is not looked at. *)
RunRaises(w) ==
  /\ pc[w] = "running"
  /\ finished' = finished \cup current[w]
  /\ current' = [current EXCEPT ![w] = {}]
  /\ Goto(w, "raising")
  /\ UNCHANGED <<locked, pending>>

(* _dequeue_trigger_source gives a trigger and run_once is called with it. *)
DequeueNext(w) ==
  /\ pc[w] = "draining"
  /\ pending # <<>>
  /\ current' = [current EXCEPT ![w] = {Head(pending)}]
  /\ pending' = Tail(pending)
  /\ Goto(w, "running")
  /\ UNCHANGED <<locked, finished>>

(* _dequeue_trigger_source gives None: the worker will return, but it      *)
(* still holds the lock, so callers are still refused.                     *)
DequeueNone(w) ==
  /\ pc[w] = "draining"
  /\ pending = <<>>
  /\ Goto(w, "leaving")
  /\ UNCHANGED <<locked, pending, current, finished>>

(* The finally of _run_with_lock. *)
Release(w) ==
  /\ pc[w] \in {"leaving", "raising"}
  /\ locked' = FALSE
  /\ Goto(w, IF pc[w] = "raising" THEN "raised" ELSE "done")
  /\ UNCHANGED <<pending, current, finished>>

-----------------------------------------------------------------------------
Caller(t) ==
  \/ Run(t) \/ StartBackground(t) \/ Refused(t)

Progress(t) ==
  \/ ThreadStarts(t) \/ ThreadFails(t) \/ Enqueue(t)
  \/ RunReturns(t) \/ RunRaises(t)
  \/ DequeueNext(t) \/ DequeueNone(t) \/ Release(t)

Next == \E t \in Triggers : Caller(t) \/ Progress(t)

Spec == Init /\ [][Next]_vars

(* A thread that has something to do is scheduled, and run_once ends: its  *)
(* requests, sends and saves all have timeouts and bounded retries.        *)
(* Nobody has to call: there is no fairness on Caller.                     *)
FairSpec == Spec /\ \A t \in Triggers : WF_vars(Progress(t))

-----------------------------------------------------------------------------
(* The types of the state; run_once always has one trigger, and no trigger *)
(* is left at a worker that is not running.                                *)
OneTriggerWhileRunning ==
  \A t \in Triggers :
    IF pc[t] = "running" THEN \E s \in Triggers : current[t] = {s}
                         ELSE current[t] = {}

TypeOK ==
  /\ locked \in BOOLEAN
  /\ pending \in Seq(Triggers)
  /\ pc \in [Triggers -> Holding \cup Idle]
  /\ current \in [Triggers -> SUBSET Triggers]
  /\ finished \in SUBSET Triggers
  /\ OneTriggerWhileRunning

(* The lock is held exactly while one caller is inside the section it      *)
(* guards, whichever thread releases it and however the section is left:   *)
(* there are never two holders, and no path leaves it taken for nobody.    *)
LockHasOneHolder ==
  /\ \A s, t \in Triggers : pc[s] \in Holding /\ pc[t] \in Holding => s = t
  /\ locked <=> \E t \in Triggers : pc[t] \in Holding

(* The coordinator gives its callers what SerialRuns promises: runs one at *)
(* a time, every trigger run at most once, the waiting ones in the order   *)
(* they were queued.                                                       *)
Runs == INSTANCE SerialRuns
          WITH waiting <- pending, serving <- UNION {current[t] : t \in Triggers}

ImplementsSerialRuns == Runs!Spec

(* A trigger queued while a worker still has the deque to look at is run,  *)
(* unless some run raises: the drain loop forgets nobody it can see.       *)
SomeRunRaised == \E w \in Triggers : pc[w] \in {"raising", "raised"}

QueuedDuringRunIsServed ==
  \A t \in Triggers :
    pc[t] = "queued" /\ (\E w \in Triggers : pc[w] \in {"running", "draining"})
      ~> t \in finished \/ SomeRunRaised

(* The coordinator becomes free again after every run, a raising one and a *)
(* thread that could not be started included, so later triggers can run.   *)
LockIsFreedAgain == []<>(~locked)

(* What the answer to a queued trigger says (FETCH_ACCEPTED_MESSAGE: the   *)
(* fetch is accepted, look for its result in the notification or the run   *)
(* report): when no run raised and no thread failed to start, no accepted  *)
(* trigger is left behind in a coordinator that has become idle.           *)
NothingFailed == \A w \in Triggers : pc[w] \notin {"raising", "raised", "rejected"}

NoTriggerStranded == ~locked /\ NothingFailed => pending = <<>>
=============================================================================
