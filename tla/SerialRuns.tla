----------------------------- MODULE SerialRuns -----------------------------
(***************************************************************************)
(* What a run coordinator promises its callers, without locks or threads:  *)
(* a trigger is run at most once, at most one run is in progress, and the  *)
(* triggers that were made to wait are taken in the order they came.  A    *)
(* trigger that finds nobody running may start at once, even past others   *)
(* that wait.  Module Coordinator is shown to implement this.              *)
(***************************************************************************)
EXTENDS Naturals, Sequences

CONSTANT Triggers   \* the trigger calls: startup, scheduled and fetch ones

VARIABLES
  waiting,    \* sequence of the triggers accepted and not yet run
  serving,    \* set of the triggers being run: empty or a singleton
  finished    \* set of the triggers whose run has ended

vars == <<waiting, serving, finished>>

Waits(t) == \E i \in 1..Len(waiting) : waiting[i] = t

Fresh(t) == ~ Waits(t) /\ t \notin serving /\ t \notin finished

Init ==
  /\ waiting = <<>>
  /\ serving = {}
  /\ finished = {}

(* A trigger that came while a run was in progress waits its turn. *)
Accept(t) ==
  /\ Fresh(t)
  /\ waiting' = Append(waiting, t)
  /\ UNCHANGED <<serving, finished>>

(* A trigger that found nobody running is run at once. *)
Start(t) ==
  /\ Fresh(t)
  /\ serving = {}
  /\ serving' = {t}
  /\ UNCHANGED <<waiting, finished>>

(* The trigger that has waited longest is run. *)
Take ==
  /\ waiting # <<>>
  /\ serving = {}
  /\ serving' = {Head(waiting)}
  /\ waiting' = Tail(waiting)
  /\ UNCHANGED finished

(* The run in progress ends, normally or not. *)
Finish ==
  /\ serving # {}
  /\ finished' = finished \cup serving
  /\ serving' = {}
  /\ UNCHANGED waiting

Next ==
  \/ \E t \in Triggers : Accept(t) \/ Start(t)
  \/ Take
  \/ Finish

Spec == Init /\ [][Next]_vars
=============================================================================
