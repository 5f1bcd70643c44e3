---------------------------- MODULE MCCoordinator ----------------------------
(* TLC instances of Coordinator: four calls on one coordinator, enough for *)
(* a run, two triggers queued behind it in either order and a call that    *)
(* comes after the release.                                                *)
EXTENDS Coordinator

(* Every call has been answered and every worker has left: the only states *)
(* in which the coordinator may stop.                                      *)
Finished == \A t \in Triggers : pc[t] \in Idle \ {"new", "refused"}

NextOrFinished == Next \/ (Finished /\ UNCHANGED vars)

MCSpec == Init /\ [][NextOrFinished]_vars
               /\ \A t \in Triggers : WF_vars(Progress(t))
=============================================================================
