------------------------------ MODULE Delivery ------------------------------
(***************************************************************************)
(* One crawl run and its notifications (manga_watch/runner.py run_once,    *)
(* check.py run_check, discord_outbound.py) over the state document, and   *)
(* the manual replay of the outbox (replay_outbox_once).                   *)
(*                                                                         *)
(* The document is written whole (atomic_write_json), so every             *)
(* job works on a copy: it loads it, changes it in memory, and saves it.   *)
(* Whatever is not yet saved is lost when the process stops.  The sends    *)
(* are the only other effects, and a send can reach its backend and still  *)
(* be reported as failed (a timeout).                                      *)
(***************************************************************************)
EXTENDS Naturals, Sequences

CONSTANTS
  Works,           \* the watchlist, every entry enabled
  Keys,            \* the latest_key values the sources can show
  NoKey,           \* no key recorded, no key delivered, or a fetch that failed
  Backends,        \* names of generic notifier backends
  ConfiguredSets,  \* the backend sets a process may be configured with
  Suppressed,      \* the events the notification policy does not let through
  Hidden,          \* works with hidden = true: no daily notification
  Jobs,            \* the processes that run a crawl or a replay
  MaxFaults        \* bound on the failures and crashes of a behaviour

ASSUME DeliveryAssumption ==
  /\ NoKey \notin Keys
  /\ ConfiguredSets \subseteq SUBSET Backends
  /\ {} \notin ConfiguredSets
  /\ Suppressed \subseteq Works \X Keys
  /\ Hidden \subseteq Works
  /\ MaxFaults \in Nat

(* An update event is known by work_id and latest_key: derive_event_id and *)
(* daily_notification_key depend on nothing else.                          *)
Event == Works \X Keys
Target == Event \X Backends

VARIABLES
  store,      \* the durable state document
  pc,         \* the next step of each job
  mem,        \* the copy of the document a job works on
  usable,     \* FALSE: the copy is the {} that replaces a document not loaded
  backends,   \* the keys of named_notifiers in the job's process
  notify,     \* the updates of this run that the policy lets through
  todo,       \* the <<event, backend>> pairs a delivery pass has yet to try
  bad,        \* the run has an error, so its outcome is not ok
  faults,     \* failures and crashes so far
  acked,      \* history: pairs acknowledged since their event was enqueued
  shown       \* history: how often an event reached the daily channel, up to 2

vars == <<store, pc, mem, usable, backends, notify, todo, bad, faults, acked, shown>>
jobVars == <<pc, mem, usable, backends, notify, todo, bad>>
history == <<acked, shown>>

Document == [latest : [Works -> Keys \cup {NoKey}],
             outbox : [Event -> SUBSET Backends],
             daily : Seq(SUBSET Event),
             delivered : [Works -> Keys \cup {NoKey}]]

EmptyDocument == [latest |-> [w \in Works |-> NoKey],
                  outbox |-> [e \in Event |-> {}],
                  daily |-> <<>>,
                  delivered |-> [w \in Works |-> NoKey]]

Init ==
  /\ store = EmptyDocument
  /\ pc = [j \in Jobs |-> "idle"]
  /\ mem = [j \in Jobs |-> EmptyDocument]
  /\ usable = [j \in Jobs |-> TRUE]
  /\ backends = [j \in Jobs |-> {}]
  /\ notify = [j \in Jobs |-> {}]
  /\ todo = [j \in Jobs |-> {}]
  /\ bad = [j \in Jobs |-> FALSE]
  /\ faults = 0
  /\ acked = {}
  /\ shown = [e \in Event |-> 0]

-----------------------------------------------------------------------------
Goto(j, to) == pc' = [pc EXCEPT ![j] = to]
SetMem(j, doc) == mem' = [mem EXCEPT ![j] = doc]
NoFault == UNCHANGED faults
Fault == faults < MaxFaults /\ faults' = faults + 1
Spoil(j) == bad' = [bad EXCEPT ![j] = TRUE]

(* The process has nothing left in memory. *)
Forget(j) ==
  /\ Goto(j, "idle")
  /\ SetMem(j, EmptyDocument)
  /\ usable' = [usable EXCEPT ![j] = TRUE]
  /\ backends' = [backends EXCEPT ![j] = {}]
  /\ notify' = [notify EXCEPT ![j] = {}]
  /\ todo' = [todo EXCEPT ![j] = {}]
  /\ bad' = [bad EXCEPT ![j] = FALSE]

Unsent(doc) == {p \in Target : p[2] \in doc.outbox[p[1]]}

PendingKeys(doc) == UNION {doc.daily[i] : i \in 1..Len(doc.daily)}

(* save_state of doc by j, which goes on at next, or at failed with an     *)
(* error: a save that raises may have replaced the document all the same   *)
(* (the directory fsync, or a later collection of Firestore); the {} of a  *)
(* failed load has no version and is refused before anything is written.   *)
Save(j, doc, next, failed) ==
  \/ /\ usable[j]
     /\ store' = doc
     /\ Goto(j, next)
     /\ NoFault
     /\ UNCHANGED bad
  \/ /\ usable[j]
     /\ store' \in {store, doc}
     /\ Fault
     /\ Goto(j, failed)
     /\ Spoil(j)
  \/ /\ ~usable[j]
     /\ UNCHANGED store
     /\ NoFault
     /\ Goto(j, failed)
     /\ Spoil(j)

(* A daily message reached the channel. *)
Show(message) ==
  shown' = [e \in Event |-> IF e \in message /\ shown[e] < 2 THEN shown[e] + 1
                                                             ELSE shown[e]]

(* delivered_latest_keys after a message: the key of each work it names. *)
Delivered(doc, message) ==
  [w \in Works |-> IF \E k \in Keys : <<w, k>> \in message
                   THEN CHOOSE k \in Keys : <<w, k>> \in message
                   ELSE doc.delivered[w]]

-----------------------------------------------------------------------------
(* Faulty variants of the definitions below, each a mistake one could make *)
(* in the code: substituted for the definition, a property has to fail.    *)

(* the list of names put in a list *)
EnqueuedNested(outbox, events, names) ==
  [e \in Event |-> IF e \in events THEN {names} ELSE outbox[e]]

(* the pending messages are not looked at *)
NewMessageThoughPending(doc, updates) ==
  {e \in updates : doc.delivered[e[1]] # e[2]}

(* the last delivered keys are not looked at *)
NewMessageThoughDelivered(doc, updates) == updates \ PendingKeys(doc)

(* the error of the first save does not end the run's work *)
RecordUnchecked(j) ==
  /\ pc[j] = "record"
  /\ Save(j, mem[j], "reload", "reload")
  /\ UNCHANGED <<mem, usable, backends, notify, todo, history>>

(* entries of earlier runs are delivered only along with a new one *)
EnqueueNewOnly(j) ==
  /\ pc[j] = "enqueue"
  /\ IF notify[j] = {}
     THEN Goto(j, "daily") /\ NoFault /\ UNCHANGED <<store, mem, todo, bad, acked>>
     ELSE LET doc == [mem[j] EXCEPT !.outbox =
                       [e \in Event |-> IF e \in notify[j] THEN backends[j] ELSE @[e]]]
          IN /\ SetMem(j, doc)
             /\ todo' = [todo EXCEPT ![j] = Unsent(doc)]
             /\ acked' = acked \ (notify[j] \X Backends)
             /\ Save(j, doc, "send", "daily")
  /\ UNCHANGED <<usable, backends, notify, shown>>

(* a pair is struck off whether or not its send succeeds *)
SendOnce(j) ==
  /\ pc[j] \in {"send", "replay"}
  /\ \E p \in todo[j] :
       /\ todo' = [todo EXCEPT ![j] = @ \ {p}]
       /\ mem' = [mem EXCEPT ![j].outbox[p[1]] = @ \ {p[2]}]
       /\ IF p[2] \in backends[j]
          THEN acked' = acked \cup {p} /\ NoFault /\ UNCHANGED bad
          ELSE UNCHANGED <<acked, faults>> /\ Spoil(j)
  /\ UNCHANGED <<store, pc, usable, backends, notify, shown>>

(* the outbox is saved with the next daily message, if there is one *)
SaveOutboxLater(j) ==
  /\ pc[j] = "send"
  /\ todo[j] = {}
  /\ Goto(j, "daily")
  /\ NoFault
  /\ UNCHANGED <<store, mem, usable, backends, notify, todo, bad, history>>

(* pending messages are sent only along with a new one *)
DailyNewOnly(j) ==
  /\ pc[j] = "daily"
  /\ LET doc == [mem[j] EXCEPT !.daily = Append(@, notify[j])]
     IN IF notify[j] # {}
        THEN SetMem(j, doc) /\ Save(j, doc, "sendDaily", "report")
        ELSE Goto(j, "report") /\ NoFault /\ UNCHANGED <<mem, store, bad>>
  /\ UNCHANGED <<usable, backends, notify, todo, history>>

(* a message that fails is put behind the others *)
SendDailyUnblocked(j) ==
  /\ pc[j] = "sendDaily"
  /\ LET first == Head(mem[j].daily)
         rest == Tail(mem[j].daily)
     IN \/ /\ Show(first)
           /\ SetMem(j, [mem[j] EXCEPT !.daily = rest,
                                       !.delivered = Delivered(mem[j], first)])
           /\ Goto(j, IF rest = <<>> THEN "saveDaily" ELSE "sendDaily")
           /\ UNCHANGED <<faults, bad>>
        \/ /\ SetMem(j, [mem[j] EXCEPT !.daily = Append(rest, first)])
           /\ Goto(j, "saveDaily")
           /\ Fault
           /\ Spoil(j)
           /\ UNCHANGED shown
  /\ UNCHANGED <<store, usable, backends, notify, todo, acked>>

-----------------------------------------------------------------------------
(* run_once begins: run_check loads the state, or fails and the run has    *)
(* nothing to do but to report.                                            *)
StartRun(j) ==
  /\ pc[j] = "idle"
  /\ \E b \in ConfiguredSets : backends' = [backends EXCEPT ![j] = b]
  /\ \/ /\ SetMem(j, store)
        /\ Goto(j, "fetch")
        /\ NoFault
        /\ UNCHANGED bad
     \/ /\ Fault
        /\ Goto(j, "report")
        /\ Spoil(j)
        /\ UNCHANGED mem
  /\ UNCHANGED <<store, usable, notify, todo, history>>

(* The sources answer: seen[w] is the key of w, NoKey if its fetch failed. *)
(* apply_item_transition emits an update when a recorded key changes.      *)
Fetch(j) ==
  /\ pc[j] = "fetch"
  /\ \E seen \in [Works -> Keys \cup {NoKey}] :
       LET failed == {w \in Works : seen[w] = NoKey}
           old == mem[j].latest
           changed == {w \in Works \ failed : old[w] \notin {NoKey, seen[w]}}
       IN /\ IF failed = {} THEN NoFault /\ UNCHANGED bad ELSE Fault /\ Spoil(j)
          /\ SetMem(j, [mem[j] EXCEPT !.latest =
                         [w \in Works |-> IF w \in failed THEN old[w] ELSE seen[w]]])
          /\ notify' = [notify EXCEPT ![j] =
                         {<<w, seen[w]>> : w \in changed} \ Suppressed]
  /\ Goto(j, "record")
  /\ UNCHANGED <<store, usable, backends, todo, history>>

(* run_check saves what it saw; if that fails the run does not notify. *)
Record(j) ==
  /\ pc[j] = "record"
  /\ Save(j, mem[j], "reload", "report")
  /\ UNCHANGED <<mem, usable, backends, notify, todo, history>>

(* _load_runner_state_phase: the document is read again, or replaced by {}. *)
Reload(j) ==
  /\ pc[j] = "reload"
  /\ \/ SetMem(j, store) /\ NoFault /\ UNCHANGED <<usable, bad>>
     \/ /\ Fault
        /\ SetMem(j, EmptyDocument)
        /\ usable' = [usable EXCEPT ![j] = FALSE]
        /\ Spoil(j)
  /\ Goto(j, "enqueue")
  /\ UNCHANGED <<store, backends, notify, todo, history>>

-----------------------------------------------------------------------------
Enqueued(outbox, events, names) ==
  [e \in Event |-> IF e \in events THEN names ELSE outbox[e]]

(* Generic notifiers: enqueue, save if anything was enqueued, and start a  *)
(* delivery pass if the outbox has an entry.  An event already there is    *)
(* not enqueued again, whichever backends it still waits for.              *)
Enqueue(j) ==
  /\ pc[j] = "enqueue"
  /\ LET new == {e \in notify[j] : mem[j].outbox[e] = {}}
         doc == [mem[j] EXCEPT !.outbox = Enqueued(@, new, backends[j])]
     IN /\ SetMem(j, doc)
        /\ todo' = [todo EXCEPT ![j] = Unsent(doc)]
        /\ acked' = acked \ (new \X Backends)
        /\ IF new # {} THEN Save(j, doc, "send", "daily")
           ELSE /\ Goto(j, IF Unsent(doc) = {} THEN "daily" ELSE "send")
                /\ NoFault
                /\ UNCHANGED <<store, bad>>
  /\ UNCHANGED <<usable, backends, notify, shown>>

(* replay_outbox_once begins: it loads the state and delivers the outbox,  *)
(* and leaves the daily messages alone.                                    *)
StartReplay(j) ==
  /\ pc[j] = "idle"
  /\ \E b \in ConfiguredSets : backends' = [backends EXCEPT ![j] = b]
  /\ SetMem(j, store)
  /\ todo' = [todo EXCEPT ![j] = Unsent(store)]
  /\ Goto(j, "replay")
  /\ NoFault
  /\ UNCHANGED <<store, usable, notify, bad, history>>

(* One turn of deliver_notification_outbox: the backend is not configured  *)
(* in this process, or takes the event, or the send fails, before or after *)
(* the backend took it.  The pairs are tried in any order.                 *)
Send(j) ==
  /\ pc[j] \in {"send", "replay"}
  /\ \E p \in todo[j] :
       /\ todo' = [todo EXCEPT ![j] = @ \ {p}]
       /\ \/ /\ p[2] \notin backends[j]
             /\ NoFault
             /\ Spoil(j)
             /\ UNCHANGED <<mem, acked>>
          \/ /\ p[2] \in backends[j]
             /\ acked' = acked \cup {p}
             /\ mem' = [mem EXCEPT ![j].outbox[p[1]] = @ \ {p[2]}]
             /\ NoFault
             /\ UNCHANGED bad
          \/ /\ p[2] \in backends[j]
             /\ acked' \in {acked, acked \cup {p}}
             /\ Fault
             /\ Spoil(j)
             /\ UNCHANGED mem
  /\ UNCHANGED <<store, pc, usable, backends, notify, shown>>

(* What remains is saved; a run goes on to the daily notification, a       *)
(* replay is over.                                                         *)
SaveOutbox(j) ==
  /\ pc[j] = "send"
  /\ todo[j] = {}
  /\ Save(j, mem[j], "daily", "daily")
  /\ UNCHANGED <<mem, usable, backends, notify, todo, history>>

SaveReplay(j) ==
  /\ pc[j] = "replay"
  /\ todo[j] = {}
  /\ \/ store' = mem[j] /\ NoFault
     \/ store' \in {store, mem[j]} /\ Fault
  /\ Forget(j)
  /\ UNCHANGED history

-----------------------------------------------------------------------------
(* The updates that are neither pending nor the last delivered of their    *)
(* work.                                                                   *)
NewMessage(doc, updates) ==
  {e \in updates : doc.delivered[e[1]] # e[2] /\ e \notin PendingKeys(doc)}

(* Daily notification: one message for the visible updates of the run.     *)
(* When the watchlist cannot be read again the hidden works are not left   *)
(* out.                                                                    *)
Daily(j) ==
  /\ pc[j] = "daily"
  /\ \E visible \in {notify[j], {e \in notify[j] : e[1] \notin Hidden}} :
       LET message == NewMessage(mem[j], visible)
           doc == [mem[j] EXCEPT !.daily = Append(@, message)]
       IN IF message # {}
          THEN SetMem(j, doc) /\ Save(j, doc, "sendDaily", "report")
          ELSE /\ Goto(j, IF mem[j].daily = <<>> THEN "report" ELSE "sendDaily")
               /\ NoFault
               /\ UNCHANGED <<mem, store, bad>>
  /\ UNCHANGED <<usable, backends, notify, todo, history>>

(* One turn of deliver_daily_notifications: a failure blocks the rest. *)
SendDaily(j) ==
  /\ pc[j] = "sendDaily"
  /\ LET message == Head(mem[j].daily)
         rest == Tail(mem[j].daily)
     IN \/ /\ Show(message)
           /\ SetMem(j, [mem[j] EXCEPT !.daily = rest,
                                       !.delivered = Delivered(mem[j], message)])
           /\ Goto(j, IF rest = <<>> THEN "saveDaily" ELSE "sendDaily")
           /\ NoFault
           /\ UNCHANGED bad
        \/ /\ Show(message) \/ UNCHANGED shown
           /\ Fault
           /\ Goto(j, "saveDaily")
           /\ Spoil(j)
           /\ UNCHANGED mem
  /\ UNCHANGED <<store, usable, backends, notify, todo, acked>>

SaveDaily(j) ==
  /\ pc[j] = "saveDaily"
  /\ Save(j, mem[j], "report", "report")
  /\ UNCHANGED <<mem, usable, backends, notify, todo, history>>

(* The run report is sent, or not, and the run is over. *)
Report(j) ==
  /\ pc[j] = "report"
  /\ Forget(j)
  /\ NoFault
  /\ UNCHANGED <<store, history>>

(* The process stops. *)
Crash(j) ==
  /\ pc[j] # "idle"
  /\ Fault
  /\ Forget(j)
  /\ UNCHANGED <<store, history>>

-----------------------------------------------------------------------------
Step(j) ==
  \/ Fetch(j) \/ Record(j) \/ Reload(j)
  \/ Enqueue(j) \/ Send(j) \/ SaveOutbox(j) \/ SaveReplay(j)
  \/ Daily(j) \/ SendDaily(j) \/ SaveDaily(j) \/ Report(j)

Next == \E j \in Jobs : StartRun(j) \/ StartReplay(j) \/ Step(j) \/ Crash(j)

Spec == Init /\ [][Next]_vars

(* A job that runs goes on, and the scheduler starts runs again and again, *)
(* however often an operator replays the outbox in between.                *)
FairSpec == Spec /\ \A j \in Jobs : WF_vars(Step(j)) /\ SF_vars(StartRun(j))
-----------------------------------------------------------------------------
Steps == {"idle", "fetch", "record", "reload", "enqueue", "send", "replay",
          "daily", "sendDaily", "saveDaily", "report"}

TypeOK ==
  /\ store \in Document
  /\ pc \in [Jobs -> Steps]
  /\ mem \in [Jobs -> Document]
  /\ usable \in [Jobs -> BOOLEAN]
  /\ backends \in [Jobs -> SUBSET Backends]
  /\ notify \in [Jobs -> SUBSET Event]
  /\ todo \in [Jobs -> SUBSET Target]
  /\ bad \in [Jobs -> BOOLEAN]
  /\ faults \in 0..MaxFaults
  /\ acked \in SUBSET Target
  /\ shown \in [Event -> 0..2]

(* What the pending daily messages may be, in the document and in every    *)
(* copy of it, for any number of jobs: no event waits twice, none waits    *)
(* that its work was last told of, no message is empty or names a work     *)
(* twice.  Deduplication rests on this: delivered_latest_keys keeps one    *)
(* key per work, and a message is built once and sent as it is, so an      *)
(* event that slips in twice is sent twice.                                *)
OneKeyPerWork(events) ==
  \A w \in Works : \A k, l \in Keys :
    <<w, k>> \in events /\ <<w, l>> \in events => k = l

WellQueued(doc) ==
  /\ \A i \in DOMAIN doc.daily :
       /\ doc.daily[i] # {}
       /\ OneKeyPerWork(doc.daily[i])
       /\ \A e \in doc.daily[i] : doc.delivered[e[1]] # e[2]
  /\ \A i, k \in DOMAIN doc.daily :
       i # k => doc.daily[i] \cap doc.daily[k] = {}

DailyQueueUnique == WellQueued(store) /\ \A j \in Jobs : WellQueued(mem[j])

(* A backend is struck from an entry of the stored outbox only after it    *)
(* acknowledged the event: failed sends, backends that are no longer       *)
(* configured, failed loads, failed saves and crashes leave the entry for  *)
(* the next run or replay.  (For one job at a time.)                       *)
OutboxKept ==
  [][\A e \in Event : \A b \in store.outbox[e] \ store'.outbox[e] :
       <<e, b>> \in acked']_vars

(* The stored daily messages form a queue: they leave it at the front, and *)
(* only once they were shown, and at most one message joins it at the      *)
(* back; a message that fails holds up those behind it.                    *)
DailyInOrder ==
  [][\E n \in 0..Len(store.daily) :
       LET kept == SubSeq(store.daily, n + 1, Len(store.daily))
       IN /\ \A i \in 1..n : \A e \in store.daily[i] : shown[e] > 0
          /\ \/ store'.daily = kept
             \/ \E message \in SUBSET Event :
                  store'.daily = Append(kept, message)]_vars

(* Nothing is announced that the document does not record: once a run is   *)
(* past its first save, the latest key of every update it will notify is   *)
(* the stored one, so no later run detects the same change again.          *)
AfterRecord == {"reload", "enqueue", "send", "daily", "sendDaily", "saveDaily"}

UpdatesOnRecord ==
  \A j \in Jobs : pc[j] \in AfterRecord =>
    \A e \in notify[j] : store.latest[e[1]] = e[2]

(* A run that reports no error has left nothing pending, and everything it *)
(* had to announce reached a backend and the daily channel, in this run or *)
(* before: failures are never taken for the absence of updates.            *)
OkMeansDelivered ==
  \A j \in Jobs : pc[j] = "report" /\ ~bad[j] =>
    /\ Unsent(store) = {}
    /\ store.daily = <<>>
    /\ \A e \in notify[j] :
         /\ \E b \in Backends : <<e, b>> \in acked
         /\ e[1] \notin Hidden => shown[e] > 0

(* What waits for a backend that is always configured is acknowledged by   *)
(* it once the failures end, whether or not there are new updates.         *)
OutboxDrains ==
  \A e \in Event, b \in Backends :
    (\A set \in ConfiguredSets : b \in set) =>
      (b \in store.outbox[e] ~> b \notin store.outbox[e])

(* The daily messages of earlier runs are sent by the next runs. *)
DailyDrains == store.daily # <<>> ~> store.daily = <<>>

-----------------------------------------------------------------------------
(* What the documents say and the code does not do.                        *)

(* README: delivery is at least once.  An entry leaves the outbox when it  *)
(* is acknowledged, or while some job that runs still has it to send.      *)
AtLeastOnce ==
  [][\A e \in Event : \A b \in store.outbox[e] \ store'.outbox[e] :
       <<e, b>> \in acked' \/ \E j \in Jobs : b \in mem'[j].outbox[e]]_vars

(* The same of a detected update: when a run is over, an update that is on *)
(* record as seen is acknowledged or waits in the outbox.                  *)
NoUpdateForgotten ==
  [][\A j \in Jobs : pc[j] # "idle" /\ pc'[j] = "idle" =>
       \A e \in notify[j] : store'.latest[e[1]] = e[2] =>
         \E b \in Backends : <<e, b>> \in acked' \/ b \in store'.outbox[e]]_vars
=============================================================================
