----------------------------- MODULE MCStorage -----------------------------
(* TLC instance of the two storage backends.  A process uses one of them:  *)
(* its configuration says which, when it starts.                           *)
EXTENDS AtomicFile, FirestoreSync, TLC

VARIABLE backend

(* _effective_storage_backend *)
Backends == {"json", "firestore"}

(* Two works' keys, one outbox entry at two attempts, one daily message. *)
State(key, attempts, messages) ==
  [delivered |-> [w \in {"work"} |-> key],
   outbox |-> [e \in {"event"} |-> attempts],
   daily |-> [m \in {"message"} |-> messages]]

MCStates == {State("key1", "first", Nothing), State(Nothing, "second", "first")}

MCShadowId(e, item) == <<e, item>>

Symmetry == Permutations(Docs) \cup Permutations(Jobs)
            \cup Permutations(Environments) \cup Permutations(Savers)

MCInit == Init /\ StoreInit /\ backend \in Backends

MCNext ==
  \/ backend = "json" /\ Next /\ UNCHANGED <<storeVars, backend>>
  \/ backend = "firestore" /\ StoreNext /\ UNCHANGED <<vars, backend>>

MCSpec == MCInit /\ [][MCNext]_<<vars, storeVars, backend>>
=============================================================================
