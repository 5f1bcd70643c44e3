--------------------------- MODULE Subscriptions ---------------------------
(***************************************************************************)
(* The commands that change what is watched: /add and /search, /remove,    *)
(* /supertwins-search, /supertwins-manage and the web admin, beside the    *)
(* runs of the checker.  There are two documents, the watchlist and the    *)
(* state.  A command loads what it needs, computes, and saves each         *)
(* document whole; those that save both restore both when a save fails.    *)
(*                                                                         *)
(* A job is one command or run.  Of a work the state has `traces': its     *)
(* entry, outbox entries, last delivered key and pending daily messages,   *)
(* which are written and pruned together.  The menus' texts and pages, the *)
(* search itself and the session that carries its result are left out.     *)
(***************************************************************************)
EXTENDS Naturals, FiniteSets

CONSTANTS
  Works,       \* the works there are, watched or not
  NoWork,
  GroupIds,    \* the numbers n of the ids supertwins-n
  Jobs,
  MaxOptions,  \* MAX_OPTIONS_PER_PAGE: how many works one menu lets choose
  MaxPending   \* bound: choices waiting in a manage menu

ASSUME SubscriptionsAssumption ==
  /\ NoWork \notin Works
  /\ GroupIds \subseteq Nat
  /\ MaxOptions \in Nat
  /\ MaxPending \in Nat

VARIABLES
  watchlist,   \* the stored watchlist
  state,       \* the stored state
  pc,          \* the next step of each job
  ask,         \* what a job was asked to do
  old,         \* the documents as a job loaded them
  new,         \* the documents as it wants them
  ever,        \* history: works that were once in the stored watchlist
  removed      \* history: works taken off by a /remove that reported success

docs == <<watchlist, state>>
history == <<ever, removed>>
vars == <<watchlist, state, pc, ask, old, new, ever, removed>>

(* The works it has entries for, and two flags of the entries. *)
Watchlist == {wl \in [works : SUBSET Works, enabled : SUBSET Works, hidden : SUBSET Works] :
                wl.enabled \cup wl.hidden \subseteq wl.works}

Choice == [group : GroupIds, members : (SUBSET Works) \ {{}}]

State == [traces : SUBSET Works,
          groups : [GroupIds -> SUBSET Works],   \* {}: there is no such group
          pending : SUBSET Choice]

Documents == [watchlist : Watchlist, state : State]

Kinds == {"none", "add", "add_hidden", "enable", "disable", "remove", "link",
          "select", "cancel", "keep_hidden", "unhide", "delete", "run"}

Request == [kind : Kinds, works : SUBSET Works, root : Works \cup {NoWork},
            group : GroupIds \cup {0}]

Asked(kind, works) == [kind |-> kind, works |-> works, root |-> NoWork, group |-> 0]

NoRequest == Asked("none", {})

NoWatchlist == [works |-> {}, enabled |-> {}, hidden |-> {}]
NoState == [traces |-> {}, groups |-> [g \in GroupIds |-> {}], pending |-> {}]
NoDocuments == [watchlist |-> NoWatchlist, state |-> NoState]

Init ==
  /\ watchlist = NoWatchlist
  /\ state = NoState
  /\ pc = [j \in Jobs |-> "idle"]
  /\ ask = [j \in Jobs |-> NoRequest]
  /\ old = [j \in Jobs |-> NoDocuments]
  /\ new = [j \in Jobs |-> NoDocuments]
  /\ ever = {}
  /\ removed = {}

-----------------------------------------------------------------------------
Goto(j, to) == pc' = [pc EXCEPT ![j] = to]
Ask(j, request) == ask' = [ask EXCEPT ![j] = request]
LoadWatchlist(j) == old' = [old EXCEPT ![j].watchlist = watchlist]
LoadState(j) == old' = [old EXCEPT ![j].state = state]
Want(j, wanted) == new' = [new EXCEPT ![j] = wanted]

(* The command is over, and its copies are gone. *)
Finish(j) ==
  /\ Goto(j, "idle")
  /\ Ask(j, NoRequest)
  /\ old' = [old EXCEPT ![j] = NoDocuments]
  /\ Want(j, NoDocuments)

(* A save writes the whole document, or fails with it written or not (an   *)
(* error after the replace, an answer that is lost).                       *)
PutWatchlist(wl) ==
  /\ watchlist' = wl
  /\ ever' = ever \cup wl.works
  /\ removed' = removed \ wl.works
  /\ UNCHANGED state

PutState(st) ==
  /\ state' = st
  /\ UNCHANGED <<watchlist, ever, removed>>

Watch(wl, ws, hide) ==
  [works |-> wl.works \cup ws,
   enabled |-> wl.enabled \cup ws,
   hidden |-> IF hide THEN wl.hidden \cup ws ELSE wl.hidden \ ws]

Unwatch(wl, ws) ==
  [works |-> wl.works \ ws, enabled |-> wl.enabled \ ws, hidden |-> wl.hidden \ ws]

-----------------------------------------------------------------------------
(* The groups of supertwins.py that have one of the members. *)
Matching(groups, members) == {g \in GroupIds : groups[g] \cap members # {}}

-----------------------------------------------------------------------------
(* Faulty variants of the definitions below, each a mistake one could make *)
(* in the code: substituted for the definition, a property has to fail.    *)

(* a menu accepts an empty selection *)
ChosenOrNone(works) == {c \in SUBSET works : Cardinality(c) <= MaxOptions}

(* the other groups stay beside the one that took their members *)
JoinKeepingOthers(groups, members, home) ==
  [groups EXCEPT ![home] =
     members \cup UNION {groups[h] : h \in Matching(groups, members)}]

(* the state keeps what it has of the works *)
PruneNothing(st, ws) == st

(* the error of the first save is swallowed *)
SaveWatchlistUnchecked(j) ==
  /\ pc[j] = "save_w"
  /\ PutWatchlist(new[j].watchlist) \/ UNCHANGED <<docs, history>>
  /\ Goto(j, "save_s")
  /\ UNCHANGED <<ask, old, new>>

(* a rollback of the state alone *)
UndoWatchlistSkipped(j) ==
  /\ pc[j] = "undo_w"
  /\ Goto(j, "undo_s")
  /\ UNCHANGED <<docs, ask, old, new, history>>

-----------------------------------------------------------------------------
Unused(groups) == {g \in GroupIds : groups[g] = {}}

(* What can be chosen in one menu. *)
Chosen(works) == {c \in SUBSET works : c # {} /\ Cardinality(c) <= MaxOptions}

(* Where the members go: into one of the groups that have any of them      *)
(* (sorted() picks it by its text; any one may be first), or else into the *)
(* first number that is free.                                              *)
Homes(groups, members) ==
  IF Matching(groups, members) # {} THEN Matching(groups, members)
  ELSE {g \in Unused(groups) : \A h \in Unused(groups) : g <= h}

(* link_group_members: the groups it touches become one. *)
Join(groups, members, home) ==
  [g \in GroupIds |->
     IF g = home
     THEN members \cup UNION {groups[h] : h \in Matching(groups, members)}
     ELSE IF g \in Matching(groups, members) THEN {} ELSE groups[g]]

(* remove_group_members, and prune_empty_groups *)
Leave(groups, group, members) == [groups EXCEPT ![group] = @ \ members]

(* _prune_delivery_state_for_work(s) and the pop of the entry *)
Prune(st, ws) == [st EXCEPT !.traces = @ \ ws]

-----------------------------------------------------------------------------
(* /add, a choice of /search, the web admin's form: the page was previewed *)
(* over the network before the watchlist is loaded.                        *)
StartAdd(j) ==
  /\ pc[j] = "idle"
  /\ \E w \in Works, kind \in {"add", "add_hidden"} : Ask(j, Asked(kind, {w}))
  /\ LoadWatchlist(j)
  /\ Goto(j, "add")
  /\ UNCHANGED <<docs, new, history>>

Add(j) ==
  /\ pc[j] = "add"
  /\ IF ask[j].works \subseteq old[j].watchlist.works
     THEN UNCHANGED <<docs, history>>
     ELSE \/ PutWatchlist(Watch(old[j].watchlist, ask[j].works, ask[j].kind = "add_hidden"))
          \/ UNCHANGED <<docs, history>>
  /\ Finish(j)

(* The web admin switches a work on or off. *)
StartToggle(j) ==
  /\ pc[j] = "idle"
  /\ \E w \in Works, kind \in {"enable", "disable"} : Ask(j, Asked(kind, {w}))
  /\ LoadWatchlist(j)
  /\ Goto(j, "toggle")
  /\ UNCHANGED <<docs, new, history>>

Toggle(j) ==
  /\ pc[j] = "toggle"
  /\ LET wl == old[j].watchlist
     IN \/ /\ ask[j].works \subseteq wl.works
           /\ PutWatchlist([wl EXCEPT !.enabled =
                              IF ask[j].kind = "enable" THEN @ \cup ask[j].works
                              ELSE @ \ ask[j].works])
        \/ UNCHANGED <<docs, history>>
  /\ Finish(j)

-----------------------------------------------------------------------------
(* /remove, confirmed: the token is looked up among the enabled works, and *)
(* remove_watch_subscription loads both documents again.                   *)
ConfirmRemove(j) ==
  /\ pc[j] = "idle"
  /\ \E w \in watchlist.enabled : Ask(j, Asked("remove", {w}))
  /\ Goto(j, "remove")
  /\ UNCHANGED <<docs, old, new, history>>

RemoveLoadsWatchlist(j) ==
  /\ pc[j] = "remove"
  /\ LoadWatchlist(j)
  /\ Goto(j, "remove_state")
  /\ UNCHANGED <<docs, ask, new, history>>

RemoveLoadsState(j) ==
  /\ pc[j] = "remove_state"
  /\ LET wl == old[j].watchlist
     IN IF ask[j].works \subseteq wl.works
        THEN /\ LoadState(j)
             /\ Want(j, [watchlist |-> Unwatch(wl, ask[j].works),
                         state |-> Prune(state, ask[j].works)])
             /\ Goto(j, "save_w")
             /\ UNCHANGED ask
        ELSE Finish(j)
  /\ UNCHANGED <<docs, history>>

-----------------------------------------------------------------------------
(* A choice in /supertwins-search: root, from the search session, and the  *)
(* works found on other sources.                                           *)
StartLink(j) ==
  /\ pc[j] = "idle"
  /\ \E root \in ever, found \in Chosen(Works) :
       /\ root \notin found
       /\ Ask(j, [Asked("link", found) EXCEPT !.root = root])
  /\ LoadWatchlist(j)
  /\ Goto(j, "link")
  /\ UNCHANGED <<docs, new, history>>

(* The pages are previewed over the network between this load and the save. *)
LinkLoadsState(j) ==
  /\ pc[j] = "link"
  /\ LET wl == old[j].watchlist
         members == ask[j].works \cup {ask[j].root}
     IN IF ask[j].root \in wl.works
        THEN /\ LoadState(j)
             /\ \E home \in Homes(state.groups, members) :
                  Want(j, [watchlist |-> Watch(wl, ask[j].works, TRUE),
                           state |-> [state EXCEPT !.groups = Join(@, members, home)]])
             /\ Goto(j, "save_w")
             /\ UNCHANGED ask
        ELSE Finish(j)
  /\ UNCHANGED <<docs, history>>

-----------------------------------------------------------------------------
(* /supertwins-manage shows the members of a group, *)
ShowMembers(j) ==
  /\ pc[j] = "idle"
  /\ \E g \in GroupIds : \E members \in Chosen(state.groups[g]) :
       Ask(j, [Asked("select", members) EXCEPT !.group = g])
  /\ Goto(j, "select")
  /\ UNCHANGED <<docs, old, new, history>>

(* the operator selects some of them, and the choice is put into the state; *)
SelectMembers(j) ==
  /\ pc[j] = "select"
  /\ LoadState(j)
  /\ Goto(j, "pend")
  /\ UNCHANGED <<docs, ask, new, history>>

SavePending(j) ==
  /\ pc[j] = "pend"
  /\ LET choice == [group |-> ask[j].group, members |-> ask[j].works]
         pending == old[j].state.pending \cup {choice}
     IN \/ /\ Cardinality(pending) <= MaxPending
           /\ PutState([old[j].state EXCEPT !.pending = pending])
        \/ UNCHANGED <<docs, history>>
  /\ Finish(j)

(* then, perhaps much later and more than once, chooses what to do.  A     *)
(* deletion is asked for again, with the same token.                       *)
ChooseAction(j) ==
  /\ pc[j] = "idle"
  /\ \E choice \in state.pending, kind \in {"keep_hidden", "unhide", "delete", "cancel"} :
       Ask(j, [Asked(kind, choice.members) EXCEPT !.group = choice.group])
  /\ Goto(j, "manage")
  /\ UNCHANGED <<docs, old, new, history>>

ManageLoadsState(j) ==
  /\ pc[j] = "manage"
  /\ IF ask[j].kind = "cancel" \/ state.groups[ask[j].group] # {}
     THEN /\ LoadState(j)
          /\ Goto(j, IF ask[j].kind = "cancel" THEN "cancel" ELSE "manage_watchlist")
          /\ UNCHANGED <<ask, new>>
     ELSE Finish(j)
  /\ UNCHANGED <<docs, history>>

WithoutChoice(st, request) ==
  [st EXCEPT !.pending = @ \ {[group |-> request.group, members |-> request.works]}]

SaveCancel(j) ==
  /\ pc[j] = "cancel"
  /\ PutState(WithoutChoice(old[j].state, ask[j])) \/ UNCHANGED <<docs, history>>
  /\ Finish(j)

(* _apply_action and _delete_action; every member must still be watched    *)
(* for its flag to be set, but need not be to be deleted.                  *)
ManageLoadsWatchlist(j) ==
  /\ pc[j] = "manage_watchlist"
  /\ LET r == ask[j]
         left == [WithoutChoice(old[j].state, r) EXCEPT !.groups = Leave(@, r.group, r.works)]
     IN IF r.kind = "delete" \/ r.works \subseteq watchlist.works
        THEN /\ LoadWatchlist(j)
             /\ Want(j, CASE r.kind = "delete" ->
                               [watchlist |-> Unwatch(watchlist, r.works),
                                state |-> Prune(left, r.works)]
                          [] r.kind = "keep_hidden" ->
                               [watchlist |-> [watchlist EXCEPT !.hidden = @ \cup r.works],
                                state |-> left]
                          [] OTHER ->
                               [watchlist |-> [watchlist EXCEPT !.hidden = @ \ r.works],
                                state |-> left])
             /\ Goto(j, "save_w")
             /\ UNCHANGED ask
        ELSE Finish(j)
  /\ UNCHANGED <<docs, history>>

-----------------------------------------------------------------------------
(* The two saves of /remove, link and manage, and their rollback. *)
SaveWatchlist(j) ==
  /\ pc[j] = "save_w"
  /\ \/ PutWatchlist(new[j].watchlist) /\ Goto(j, "save_s")
     \/ /\ PutWatchlist(new[j].watchlist) \/ UNCHANGED <<docs, history>>
        /\ Goto(j, "undo_w")
  /\ UNCHANGED <<ask, old, new>>

SaveState(j) ==
  /\ pc[j] = "save_s"
  /\ \/ /\ state' = new[j].state
        /\ removed' = IF ask[j].kind = "remove" THEN removed \cup ask[j].works ELSE removed
        /\ Goto(j, "done")
        /\ UNCHANGED <<watchlist, ever>>
     \/ /\ PutState(new[j].state) \/ UNCHANGED <<docs, history>>
        /\ Goto(j, "undo_w")
  /\ UNCHANGED <<ask, old, new>>

(* A rollback that fails ends the command: at once for /remove, after the  *)
(* attempt at the state for the others.                                    *)
UndoWatchlist(j) ==
  /\ pc[j] = "undo_w"
  /\ \/ /\ PutWatchlist(old[j].watchlist)
        /\ Goto(j, "undo_s")
        /\ UNCHANGED <<ask, old, new>>
     \/ /\ PutWatchlist(old[j].watchlist) \/ UNCHANGED <<docs, history>>
        /\ IF ask[j].kind = "remove" THEN Finish(j)
           ELSE Goto(j, "undo_torn") /\ UNCHANGED <<ask, old, new>>

UndoState(j) ==
  \/ /\ pc[j] = "undo_s"
     /\ PutState(old[j].state)
     /\ Goto(j, "failed")
     /\ UNCHANGED <<ask, old, new>>
  \/ /\ pc[j] \in {"undo_s", "undo_torn"}
     /\ PutState(old[j].state) \/ UNCHANGED <<docs, history>>
     /\ Finish(j)

(* The command answers that it is done, or that it failed and was undone. *)
Answer(j) ==
  /\ pc[j] \in {"done", "failed"}
  /\ Finish(j)
  /\ UNCHANGED <<docs, history>>

-----------------------------------------------------------------------------
(* A run: it checks the enabled works, saves their entries, loads the      *)
(* state again and saves what is to be sent of their updates.              *)
StartRun(j) ==
  /\ pc[j] = "idle"
  /\ Ask(j, Asked("run", watchlist.enabled))
  /\ Goto(j, "run")
  /\ UNCHANGED <<docs, old, new, history>>

RunLoadsState(j) ==
  /\ pc[j] = "run"
  /\ LoadState(j)
  /\ Goto(j, "record")
  /\ UNCHANGED <<docs, ask, new, history>>

RunRecords(j) ==
  /\ pc[j] = "record"
  /\ \/ /\ PutState([old[j].state EXCEPT !.traces = @ \cup ask[j].works])
        /\ Goto(j, "reload")
        /\ UNCHANGED <<ask, old, new>>
     \/ /\ PutState([old[j].state EXCEPT !.traces = @ \cup ask[j].works])
           \/ UNCHANGED <<docs, history>>
        /\ Finish(j)

RunReloads(j) ==
  /\ pc[j] = "reload"
  /\ LoadState(j)
  /\ Goto(j, "deliver")
  /\ UNCHANGED <<docs, ask, new, history>>

RunDelivers(j) ==
  /\ pc[j] = "deliver"
  /\ \/ \E updated \in SUBSET ask[j].works :
          PutState([old[j].state EXCEPT !.traces = @ \cup updated])
     \/ UNCHANGED <<docs, history>>
  /\ Finish(j)

(* The process stops, or a load or a preview fails. *)
Stop(j) ==
  /\ pc[j] # "idle"
  /\ Finish(j)
  /\ UNCHANGED <<docs, history>>

-----------------------------------------------------------------------------
Command(j) ==
  \/ StartAdd(j) \/ Add(j) \/ StartToggle(j) \/ Toggle(j)
  \/ ConfirmRemove(j) \/ RemoveLoadsWatchlist(j) \/ RemoveLoadsState(j)
  \/ StartLink(j) \/ LinkLoadsState(j)
  \/ ShowMembers(j) \/ SelectMembers(j) \/ SavePending(j)
  \/ ChooseAction(j) \/ ManageLoadsState(j) \/ SaveCancel(j) \/ ManageLoadsWatchlist(j)
  \/ SaveWatchlist(j) \/ SaveState(j) \/ UndoWatchlist(j) \/ UndoState(j) \/ Answer(j)

Run(j) ==
  StartRun(j) \/ RunLoadsState(j) \/ RunRecords(j) \/ RunReloads(j) \/ RunDelivers(j)

Next == \E j \in Jobs : Command(j) \/ Run(j) \/ Stop(j)

Spec == Init /\ [][Next]_vars

-----------------------------------------------------------------------------
Steps == {"idle", "add", "toggle", "remove", "remove_state", "link", "select", "pend",
          "manage", "manage_watchlist", "cancel", "save_w", "save_s", "undo_w", "undo_s",
          "undo_torn", "done", "failed", "run", "record", "reload", "deliver"}

TypeOK ==
  /\ watchlist \in Watchlist
  /\ state \in State
  /\ pc \in [Jobs -> Steps]
  /\ ask \in [Jobs -> Request]
  /\ old \in [Jobs -> Documents]
  /\ new \in [Jobs -> Documents]
  /\ ever \in SUBSET Works
  /\ removed \in SUBSET Works

Disjoint(groups) ==
  \A g, h \in GroupIds : g # h => groups[g] \cap groups[h] = {}

(* A work is in one group at most, in the document and in every copy,      *)
(* whatever links, unlinks, rollbacks and saves from old copies interleave.*)
GroupsDisjoint ==
  /\ Disjoint(state.groups)
  /\ \A j \in Jobs : Disjoint(old[j].state.groups) /\ Disjoint(new[j].state.groups)

(* A group never names a work that the watchlist never had: a link saves   *)
(* the watchlist first, and does not go on to the state if that fails.     *)
MembersWereWatched == \A g \in GroupIds : state.groups[g] \subseteq ever

(* One command at a time: when it answers, both documents are as it wanted *)
(* them or both are as it found them, unless a rollback failed as well;    *)
(* through saves that fail after they have written.                        *)
AllOrNothing ==
  \A j \in Jobs :
    /\ pc[j] = "done" => watchlist = new[j].watchlist /\ state = new[j].state
    /\ pc[j] = "failed" => watchlist = old[j].watchlist /\ state = old[j].state

(* One command at a time: a work that /remove reported as removed has no   *)
(* entry and nothing waiting to be sent until it is added again, whatever  *)
(* runs, stale menus and rollbacks come after.                             *)
RemovedStaysGone == removed \cap (watchlist.works \cup state.traces) = {}
=============================================================================
