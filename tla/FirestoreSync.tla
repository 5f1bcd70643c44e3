---------------------------- MODULE FirestoreSync ----------------------------
(***************************************************************************)
(* Saving the state document to Firestore (firestore_storage.py): the      *)
(* document is set first, then two collections that show parts of it, the  *)
(* keys delivered last and what waits to be delivered, are brought in      *)
(* line one document at a time.  Nothing makes a transaction of it.        *)
(* Several environments, each with a state document of its own, may share  *)
(* the collections.                                                        *)
(*                                                                         *)
(* One call of Firestore happens entirely or not at all; a save that       *)
(* raises or whose process stops simply makes no further call.             *)
(***************************************************************************)
EXTENDS Naturals

CONSTANTS
  Environments,   \* the ids of the state documents
  Savers,         \* the threads and processes that save
  States, NoState,
  Nothing,        \* of no payload
  ShadowId(_, _)  \* build_shadow_document_id of an environment and an item

(* The ids in the backlog begin with the entry's type, so an outbox entry   *)
(* and a daily message never have the same one.                            *)
ASSUME StatesAssumption ==
  \A state \in States : DOMAIN state.outbox \cap DOMAIN state.daily = {}

(* The items that have documents: works, outbox entries, daily messages. *)
Items ==
  UNION {DOMAIN state.delivered \cup DOMAIN state.outbox \cup DOMAIN state.daily :
           state \in States}

(* An id is the environment's and the item's, joined with ":" and with "__"  *)
(* for each "/".  That could give two items one id: "a:b" of environment "e" *)
(* and "b" of "e:a", or works that differ in "/" only.  Environments without *)
(* ":" and work ids as the adapters make them do not.                        *)
ASSUME ShadowIdAssumption ==
  \A e, f \in Environments : \A item, other \in Items :
    ShadowId(e, item) = ShadowId(f, other) => e = f /\ item = other

(* The state documents: what each item has to say in each collection.  An  *)
(* item of the dedupe collection is a work with the key delivered last, of *)
(* the backlog an outbox entry or a daily message with its attempts.       *)
Collections == {"notification_dedupe", "delivery_backlog"}

VARIABLES
  env,        \* each saver's configuration
  document,   \* the state document of each environment
  shadows,    \* the documents of each collection
  at,         \* where each saver is,
  want,       \* with which state,
  existing,   \* the ids it found and has not deleted,
  toSet,      \* the documents it still has to set
  alone,      \* history: nobody else saved the same document meanwhile
  mirrored    \* history: the environments whose last save returned, and was alone

saver == <<at, want, existing, toSet>>
storeVars == <<env, document, shadows, saver, alone, mirrored>>

(* What a state says of its items, as the documents of one collection. *)
DocumentsOf(e, said) ==
  {[id |-> ShadowId(e, item), state_document_id |-> e, payload |-> said[item]] :
     item \in {i \in DOMAIN said : said[i] # Nothing}}

NotificationDedupeDocuments(e, state) == DocumentsOf(e, state.delivered)

DeliveryBacklogDocuments(e, state) ==
  DocumentsOf(e, state.outbox) \cup DocumentsOf(e, state.daily)

ShadowDocuments(c, e, state) ==
  IF c = "notification_dedupe"
    THEN NotificationDedupeDocuments(e, state)
    ELSE DeliveryBacklogDocuments(e, state)

Ids(docs) == {d.id : d \in docs}

StoreInit ==
  /\ env \in [Savers -> Environments]
  /\ document = [e \in Environments |-> NoState]
  /\ shadows = [c \in Collections |-> {}]
  /\ at = [j \in Savers |-> "idle"]
  /\ want = [j \in Savers |-> NoState]
  /\ existing = [j \in Savers |-> {}]
  /\ toSet = [j \in Savers |-> {}]
  /\ alone = [j \in Savers |-> FALSE]
  /\ mirrored = {}

-----------------------------------------------------------------------------
(* Faulty variants of the definitions below. *)

(* the stream is not filtered by the state document *)
ListAll(j) ==
  /\ at[j] \in Collections
  /\ existing' = [existing EXCEPT ![j] = Ids(shadows[at[j]])]
  /\ toSet' = [toSet EXCEPT ![j] = ShadowDocuments(at[j], env[j], want[j])]
  /\ at' = [at EXCEPT ![j] = IF at[j] = "notification_dedupe" THEN "sync dedupe" ELSE "sync backlog"]
  /\ UNCHANGED <<env, document, shadows, want, alone, mirrored>>

(* only documents that are not there yet are set *)
NotYetThere(j) == {d \in ShadowDocuments(at[j], env[j], want[j]) : d.id \notin Ids(shadows[at[j]])}

-----------------------------------------------------------------------------
CollectionOf(where) ==
  IF where = "sync dedupe" THEN "notification_dedupe" ELSE "delivery_backlog"

(* save_state is called; every saver of the same document sees that. *)
SaveState(j) ==
  /\ at[j] = "idle"
  /\ \E s \in States : want' = [want EXCEPT ![j] = s]
  /\ at' = [at EXCEPT ![j] = "document"]
  /\ LET busy == {k \in Savers \ {j} : env[k] = env[j] /\ at[k] # "idle"}
     IN  alone' = [k \in Savers |->
                     IF k = j THEN busy = {} ELSE alone[k] /\ k \notin busy]
  /\ mirrored' = mirrored \ {env[j]}
  /\ UNCHANGED <<env, document, shadows, existing, toSet>>

SaveDocument(j) ==
  /\ at[j] = "document"
  /\ document' = [document EXCEPT ![env[j]] = want[j]]
  /\ at' = [at EXCEPT ![j] = "notification_dedupe"]
  /\ UNCHANGED <<env, shadows, want, existing, toSet, alone, mirrored>>

(* _sync_named_documents: every document of the state is set, *)
ToSet(j) == ShadowDocuments(at[j], env[j], want[j])

(* after those of this environment in the collection were listed, *)
ListShadows(j) ==
  /\ at[j] \in Collections
  /\ existing' = [existing EXCEPT ![j] =
       Ids({d \in shadows[at[j]] : d.state_document_id = env[j]})]
  /\ toSet' = [toSet EXCEPT ![j] = ToSet(j)]
  /\ at' = [at EXCEPT ![j] = IF at[j] = "notification_dedupe" THEN "sync dedupe" ELSE "sync backlog"]
  /\ UNCHANGED <<env, document, shadows, want, alone, mirrored>>

SetShadow(j) ==
  /\ at[j] \in {"sync dedupe", "sync backlog"}
  /\ \E d \in toSet[j] :
       /\ shadows' = [shadows EXCEPT ![CollectionOf(at[j])] =
                        {other \in @ : other.id # d.id} \cup {d}]
       /\ toSet' = [toSet EXCEPT ![j] = @ \ {d}]
  /\ UNCHANGED <<env, document, at, want, existing, alone, mirrored>>

(* and those that are not the state's any more are deleted at last. *)
Stale(j) ==
  existing[j] \ Ids(ShadowDocuments(CollectionOf(at[j]), env[j], want[j]))

DeleteStale(j) ==
  /\ at[j] \in {"sync dedupe", "sync backlog"}
  /\ toSet[j] = {}
  /\ \E id \in Stale(j) :
       /\ shadows' = [shadows EXCEPT ![CollectionOf(at[j])] = {d \in @ : d.id # id}]
       /\ existing' = [existing EXCEPT ![j] = @ \ {id}]
  /\ UNCHANGED <<env, document, at, want, toSet, alone, mirrored>>

(* The second collection follows the first, *)
SyncNext(j) ==
  /\ at[j] = "sync dedupe"
  /\ toSet[j] = {}
  /\ Stale(j) = {}
  /\ at' = [at EXCEPT ![j] = "delivery_backlog"]
  /\ existing' = [existing EXCEPT ![j] = {}]
  /\ UNCHANGED <<env, document, shadows, want, toSet, alone, mirrored>>

Forget(j) ==
  /\ at' = [at EXCEPT ![j] = "idle"]
  /\ want' = [want EXCEPT ![j] = NoState]
  /\ existing' = [existing EXCEPT ![j] = {}]
  /\ toSet' = [toSet EXCEPT ![j] = {}]
  /\ alone' = [alone EXCEPT ![j] = FALSE]

(* and save_state returns. *)
SaveReturns(j) ==
  /\ at[j] = "sync backlog"
  /\ toSet[j] = {}
  /\ Stale(j) = {}
  /\ mirrored' = IF alone[j] THEN mirrored \cup {env[j]} ELSE mirrored
  /\ Forget(j)
  /\ UNCHANGED <<env, document, shadows>>

(* A call raises, or the process stops. *)
SaveRaises(j) ==
  /\ at[j] # "idle"
  /\ Forget(j)
  /\ UNCHANGED <<env, document, shadows, mirrored>>

StoreNext ==
  \E j \in Savers :
    \/ SaveState(j) \/ SaveDocument(j)
    \/ ListShadows(j) \/ SetShadow(j) \/ DeleteStale(j) \/ SyncNext(j)
    \/ SaveReturns(j) \/ SaveRaises(j)

StoreSpec == StoreInit /\ [][StoreNext]_storeVars

-----------------------------------------------------------------------------
Own(c, e) == {d \in shadows[c] : d.state_document_id = e}

(* Once a save has returned that no other save of the same document         *)
(* overlapped, the collections show that document exactly, whatever earlier *)
(* saves left that failed half way or ran into one another: each save lists *)
(* anew what is there.                                                      *)
MirrorsState ==
  \A e \in mirrored : \A c \in Collections :
    Own(c, e) = ShadowDocuments(c, e, document[e])

(* A save changes nothing of another environment's, although it lists the  *)
(* collections they share (doc/gcp-runtime.md: no mutual deletion).        *)
OthersUntouched ==
  [][\A e \in Environments :
       (\A j \in Savers : env[j] = e => UNCHANGED <<at[j], toSet[j], existing[j]>>)
         => \A c \in Collections : Own(c, e)' = Own(c, e)]_storeVars
=============================================================================
