---------------------------- MODULE WorkHistory ----------------------------
(***************************************************************************)
(* The backlog: the history and the unread events of every work, as runs   *)
(* record what the sources show (check.py, apply_item_transition) and an   *)
(* operator marks it read (backlog.py).  Both load the document, take      *)
(* their time, and save it whole; neither locks it in between.             *)
(*                                                                         *)
(* A history is a list of events without duplicates, so it is modelled by  *)
(* the set of their ids (the latest_key that was new) and the order of     *)
(* insertion as a relation.  Titles, times, gaps and health are left out.  *)
(***************************************************************************)
EXTENDS Naturals, FiniteSets

CONSTANTS
  Works,             \* the watchlist, every entry enabled
  Keys,              \* the latest_key values the sources can show
  NoKey,             \* nothing recorded yet, or a fetch that failed
  Retention,         \* history_retention of each work
  DefaultRetention,  \* DEFAULT_HISTORY_RETENTION
  Crawlers,          \* the jobs that run the checker
  Operators          \* the jobs that mark as read

ASSUME HistoryAssumption ==
  /\ NoKey \notin Keys
  /\ Retention \in [Works -> Nat \ {0}]
  /\ DefaultRetention \in Nat \ {0}
  /\ Crawlers \cap Operators = {}

Jobs == Crawlers \cup Operators

VARIABLES
  store,    \* the entry of each work in the state document
  pc,       \* the next step of each job
  mem,      \* the entries in the copy a job works on
  first,    \* history: <<work, key>> such that key was its first
  cleared   \* history: <<work, key>> such that an operator marked key as read

vars == <<store, pc, mem, first, cleared>>

Entry == [latest : Keys \cup {NoKey},
          history : SUBSET Keys,           \* event ids
          newer : SUBSET (Keys \X Keys),   \* <<e, f>>: f was inserted after e
          unread : SUBSET Keys]

NoEntry == [latest |-> NoKey, history |-> {}, newer |-> {}, unread |-> {}]

NoEntries == [w \in Works |-> NoEntry]

Init ==
  /\ store = NoEntries
  /\ pc = [j \in Jobs |-> "idle"]
  /\ mem = [j \in Jobs |-> NoEntries]
  /\ first = {}
  /\ cleared = {}

Goto(j, to) == pc' = [pc EXCEPT ![j] = to]
Load(j) == mem' = [mem EXCEPT ![j] = store]
Forget(j) == mem' = [mem EXCEPT ![j] = NoEntries]

-----------------------------------------------------------------------------
(* Faulty variants of the definitions below, each a mistake one could make *)
(* in the code: substituted for the definition, a property has to fail.    *)

(* the limit counts the unread events too *)
TrimUnreadToo(entry, limit) ==
  LET kept == {e \in entry.history :
                 Cardinality({f \in entry.history : <<e, f>> \in entry.newer}) < limit}
  IN [entry EXCEPT !.history = kept,
                   !.newer = @ \cap (kept \X kept),
                   !.unread = @ \cap kept]

(* and their ids stay behind *)
TrimHistoryOnly(entry, limit) ==
  [TrimUnreadToo(entry, limit) EXCEPT !.unread = entry.unread]

(* the new id is not appended to the unread ones *)
InsertAsRead(entry, key) ==
  IF key \in entry.history THEN entry
  ELSE [entry EXCEPT !.history = @ \cup {key},
                     !.newer = @ \cup (entry.history \X {key})]

(* a failed fetch is taken for a change *)
TransitionOfFailure(entry, key, limit) ==
  LET known == IF entry.latest = NoKey \/ key = entry.latest THEN entry
               ELSE [entry EXCEPT !.history = @ \cup {key}, !.unread = @ \cup {key}]
  IN [known EXCEPT !.latest = key]

(* nothing is trimmed *)
MarkReadUntrimmed(j) ==
  /\ pc[j] = "mark"
  /\ store' = [w \in Works |-> [mem[j][w] EXCEPT !.unread = {}]]
  /\ cleared' = cleared \cup {p \in Works \X Keys : p[2] \in mem[j][p[1]].unread}
  /\ Forget(j)
  /\ Goto(j, "idle")
  /\ UNCHANGED first

-----------------------------------------------------------------------------
(* trim_history: every unread event is kept, and the last limit read ones. *)
Trim(entry, limit) ==
  LET read == entry.history \ entry.unread
      kept == (entry.history \cap entry.unread)
                \cup {e \in read : Cardinality({f \in read : <<e, f>> \in entry.newer}) < limit}
  IN [entry EXCEPT !.history = kept,
                   !.newer = @ \cap (kept \X kept),
                   !.unread = @ \cap kept]

(* sync_history_event with insert_if_missing: an event already in the      *)
(* history stays where it is, and read if it was read.                     *)
Insert(entry, key) ==
  IF key \in entry.history THEN entry
  ELSE [entry EXCEPT !.history = @ \cup {key},
                     !.newer = @ \cup (entry.history \X {key}),
                     !.unread = @ \cup {key}]

(* apply_item_transition and failure_entry: the source shows key, or its   *)
(* fetch failed.                                                           *)
Transition(entry, key, limit) ==
  IF key = NoKey \/ key = entry.latest THEN Trim(entry, limit)
  ELSE LET known == IF entry.latest = NoKey THEN entry ELSE Insert(entry, key)
       IN Trim([known EXCEPT !.latest = key], limit)

-----------------------------------------------------------------------------
(* run_check loads the state before it fetches. *)
StartCrawl(j) ==
  /\ pc[j] = "idle"
  /\ Load(j)
  /\ Goto(j, "fetch")
  /\ UNCHANGED <<store, first, cleared>>

(* Every source has answered, or failed. *)
Observe(j) ==
  /\ pc[j] = "fetch"
  /\ \E seen \in [Works -> Keys \cup {NoKey}] :
       /\ mem' = [mem EXCEPT ![j] =
                   [w \in Works |-> Transition(mem[j][w], seen[w], Retention[w])]]
       /\ first' = first \cup {<<w, seen[w]>> : w \in {v \in Works :
                                  mem[j][v].latest = NoKey /\ seen[v] # NoKey}}
  /\ Goto(j, "record")
  /\ UNCHANGED <<store, cleared>>

Record(j) ==
  /\ pc[j] = "record"
  /\ store' = mem[j]
  /\ Forget(j)
  /\ Goto(j, "reload")
  /\ UNCHANGED <<first, cleared>>

(* The delivery phases of the run load the document again, change nothing  *)
(* of the works, and save it, perhaps more than once.                      *)
Reload(j) ==
  /\ pc[j] = "reload"
  /\ Load(j)
  /\ Goto(j, "deliver")
  /\ UNCHANGED <<store, first, cleared>>

SaveDelivery(j) ==
  /\ pc[j] = "deliver"
  /\ store' = mem[j]
  /\ UNCHANGED <<pc, mem, first, cleared>>

-----------------------------------------------------------------------------
(* backlog --mark-read: the events of the works in scope are read, and     *)
(* trimmed to the retention of the watchlist, or to the default if the     *)
(* watchlist cannot be read, and the whole copy is saved.                  *)
StartMarkRead(j) ==
  /\ pc[j] = "idle"
  /\ Load(j)
  /\ Goto(j, "mark")
  /\ UNCHANGED <<store, first, cleared>>

MarkRead(j) ==
  /\ pc[j] = "mark"
  /\ \E scope \in {Works} \cup {{w} : w \in Works},
        limit \in {Retention, [w \in Works |-> DefaultRetention]} :
       /\ store' = [w \in Works |->
                     IF w \in scope
                     THEN Trim([mem[j][w] EXCEPT !.unread = {}], limit[w])
                     ELSE mem[j][w]]
       /\ cleared' = cleared \cup {p \in scope \X Keys : p[2] \in mem[j][p[1]].unread}
  /\ Forget(j)
  /\ Goto(j, "idle")
  /\ UNCHANGED first

(* The job is over, or stops: a failed load or save, an exception, a crash. *)
Stop(j) ==
  /\ pc[j] # "idle"
  /\ Forget(j)
  /\ Goto(j, "idle")
  /\ UNCHANGED <<store, first, cleared>>

-----------------------------------------------------------------------------
Next ==
  \/ \E j \in Crawlers : StartCrawl(j) \/ Observe(j) \/ Record(j)
                           \/ Reload(j) \/ SaveDelivery(j)
  \/ \E j \in Operators : StartMarkRead(j) \/ MarkRead(j)
  \/ \E j \in Jobs : Stop(j)

Spec == Init /\ [][Next]_vars

-----------------------------------------------------------------------------
Steps == {"idle", "fetch", "record", "reload", "deliver", "mark"}

TypeOK ==
  /\ store \in [Works -> Entry]
  /\ pc \in [Jobs -> Steps]
  /\ mem \in [Jobs -> [Works -> Entry]]
  /\ first \in SUBSET (Works \X Keys)
  /\ cleared \in SUBSET (Works \X Keys)

(* The lists of an entry agree, in the document and in every copy: unread  *)
(* events are in the history, which is ordered without gaps or cycles,     *)
(* whatever was trimmed out of its middle.                                 *)
WellFormed(entry) ==
  /\ entry.unread \subseteq entry.history
  /\ entry.newer \subseteq entry.history \X entry.history
  /\ \A e, f \in entry.history :
       e # f => (<<e, f>> \in entry.newer <=> <<f, e>> \notin entry.newer)
  /\ \A e \in entry.history : <<e, e>> \notin entry.newer
  /\ \A e, f, g \in entry.history :
       <<e, f>> \in entry.newer /\ <<f, g>> \in entry.newer => <<e, g>> \in entry.newer

EntriesWellFormed ==
  \A w \in Works : WellFormed(store[w]) /\ \A j \in Jobs : WellFormed(mem[j][w])

(* The latest key of a work is an unread event, or it was the first key of *)
(* the work, or an operator has marked it as read: no interleaving of runs *)
(* and operators, and no lost save, records a change as seen and leaves it *)
(* out of the backlog.  (A save from an old copy loses the event and the   *)
(* latest key together, so that the next run detects the change again.)    *)
LatestIsInBacklog ==
  \A w \in Works :
    LET key == store[w].latest
    IN key = NoKey \/ key \in store[w].unread \/ <<w, key>> \in first \cup cleared

(* The read events of a work stay within its retention, or the default     *)
(* that stands in for it: flapping keys cannot grow the document.          *)
ReadBounded ==
  \A w \in Works :
    \/ Cardinality(store[w].history \ store[w].unread) <= Retention[w]
    \/ Cardinality(store[w].history \ store[w].unread) <= DefaultRetention

(* Only an operator's save takes an event off the unread ones, whatever    *)
(* else the runs do to the history.  (For one run at a time and one        *)
(* operator: a second one's save could bring back an event that was read   *)
(* and that the run has not loaded; the run's save would take it away.)    *)
UnreadTakenByOperator ==
  [][\A w \in Works : store[w].unread \subseteq store'[w].unread
       \/ \E j \in Operators : pc[j] = "mark" /\ pc'[j] = "idle"]_vars
=============================================================================
