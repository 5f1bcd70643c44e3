------------------------ MODULE SubscriptionsProofs ------------------------
(***************************************************************************)
(* Proofs about module Subscriptions, for any works, group ids, menu sizes *)
(* and jobs: its types, that the groups stay disjoint and that they name   *)
(* no work that was never watched, however commands and runs interleave.   *)
(* Then, for one job at a time, that its saves are all or nothing and that *)
(* a removed work stays gone.                                              *)
(***************************************************************************)
EXTENDS Subscriptions, TLAPS

(* What the groups name. *)
Within(groups, ws) == \A g \in GroupIds : groups[g] \subseteq ws

(* Linking makes one group of those it touches: they stay disjoint and     *)
(* name nothing but what they named and the members.                       *)
LEMMA JoinKeeps ==
  ASSUME NEW groups \in [GroupIds -> SUBSET Works], NEW members \in SUBSET Works,
         NEW home \in Homes(groups, members), Disjoint(groups)
  PROVE  /\ Join(groups, members, home) \in [GroupIds -> SUBSET Works]
         /\ Disjoint(Join(groups, members, home))
         /\ \A ws : Within(groups, ws) /\ members \subseteq ws
                      => Within(Join(groups, members, home), ws)
<1> DEFINE matching == Matching(groups, members)
           joined == Join(groups, members, home)
           merged == members \cup UNION {groups[h] : h \in matching}
<1>1. home \in GroupIds
  BY DEF Homes, Matching, Unused
<1>2. matching \subseteq GroupIds
  BY DEF Matching
<1>3. home \notin matching => groups[home] = {}
  BY DEF Homes, Unused
<1>4. \A g \in GroupIds :
        joined[g] = IF g = home THEN merged ELSE IF g \in matching THEN {} ELSE groups[g]
  BY DEF Join
<1>5. merged \in SUBSET Works
  BY <1>2
<1>6. joined \in [GroupIds -> SUBSET Works]
  BY <1>5 DEF Join
<1>7. ASSUME NEW g \in GroupIds, g # home, g \notin matching
      PROVE  groups[g] \cap merged = {}
  <2>1. groups[g] \cap members = {}
    BY <1>7 DEF Matching
  <2>2. \A h \in matching : groups[g] \cap groups[h] = {}
    BY <1>2, <1>7 DEF Disjoint
  <2> QED
    BY <2>1, <2>2
<1>8. Disjoint(joined)
  <2> SUFFICES ASSUME NEW g \in GroupIds, NEW h \in GroupIds, g # h
               PROVE  joined[g] \cap joined[h] = {}
    BY DEF Disjoint
  <2> HIDE DEF joined, merged, matching
  <2>1. CASE g = home
    BY <2>1, <1>4, <1>7
  <2>2. CASE h = home
    BY <2>2, <1>4, <1>7
  <2>3. CASE g # home /\ h # home
    BY <2>3, <1>4 DEF Disjoint
  <2> QED
    BY <2>1, <2>2, <2>3
<1>9. ASSUME NEW ws, Within(groups, ws), members \subseteq ws
      PROVE  Within(joined, ws)
  <2>1. merged \subseteq ws
    BY <1>2, <1>9 DEF Within
  <2> HIDE DEF joined, merged, matching
  <2> QED
    BY <1>4, <1>9, <2>1 DEF Within
<1> QED
  BY <1>6, <1>8, <1>9

(* So does taking members out of a group. *)
LEMMA LeaveKeeps ==
  ASSUME NEW groups \in [GroupIds -> SUBSET Works], NEW group, NEW members, Disjoint(groups)
  PROVE  /\ Leave(groups, group, members) \in [GroupIds -> SUBSET Works]
         /\ Disjoint(Leave(groups, group, members))
         /\ \A ws : Within(groups, ws) => Within(Leave(groups, group, members), ws)
<1>1. \A g \in GroupIds : Leave(groups, group, members)[g] \subseteq groups[g]
  BY DEF Leave
<1>2. Leave(groups, group, members) \in [GroupIds -> SUBSET Works]
  BY DEF Leave
<1> QED
  BY <1>1, <1>2 DEF Disjoint, Within

-----------------------------------------------------------------------------
(* The invariant of any number of jobs, in four parts: the documents, the  *)
(* copies as loaded, the copies as wanted, and the calls.                  *)
StateGood(st, ws) == st \in State /\ Disjoint(st.groups) /\ Within(st.groups, ws)

StoreGood ==
  /\ watchlist \in Watchlist
  /\ ever \in SUBSET Works
  /\ removed \in SUBSET Works
  /\ watchlist.works \subseteq ever
  /\ StateGood(state, ever)

OldGood ==
  /\ old \in [Jobs -> Documents]
  /\ \A j \in Jobs : /\ old[j].watchlist.works \subseteq ever
                     /\ StateGood(old[j].state, ever)

(* A group may name works that only the wanted watchlist has, until that   *)
(* watchlist is saved.                                                     *)
NewGood ==
  /\ new \in [Jobs -> Documents]
  /\ \A j \in Jobs :
       /\ StateGood(new[j].state, ever \cup new[j].watchlist.works)
       /\ pc[j] = "save_s" => Within(new[j].state.groups, ever)

(* The menus ask with a group and with members. *)
Menus == {"select", "pend", "manage", "manage_watchlist", "cancel"}

CallsGood ==
  /\ pc \in [Jobs -> Steps]
  /\ ask \in [Jobs -> Request]
  /\ \A j \in Jobs : pc[j] \in Menus => ask[j].group \in GroupIds /\ ask[j].works # {}

GroupsInv == StoreGood /\ OldGood /\ NewGood /\ CallsGood

LEMMA GroupsInvImplies ==
  GroupsInv => TypeOK /\ GroupsDisjoint /\ MembersWereWatched
BY DEF GroupsInv, StoreGood, OldGood, NewGood, CallsGood, StateGood, Within,
       TypeOK, GroupsDisjoint, MembersWereWatched

(* The empty documents are good. *)
LEMMA NothingGood ==
  /\ NoDocuments \in Documents
  /\ NoDocuments.watchlist.works = {}
  /\ \A ws : StateGood(NoDocuments.state, ws)
BY DEF NoDocuments, Documents, NoWatchlist, NoState, Watchlist, State, StateGood, Disjoint, Within

LEMMA AskedTyped ==
  ASSUME NEW kind \in Kinds, NEW works \in SUBSET Works
  PROVE  Asked(kind, works) \in Request
BY DEF Asked, Request

LEMMA GroupsInvInit == Init => GroupsInv
<1> SUFFICES ASSUME Init PROVE GroupsInv
  OBVIOUS
<1>1. StoreGood
  BY NothingGood DEF Init, StoreGood, NoDocuments, Documents
<1>2. OldGood /\ NewGood
  BY NothingGood DEF Init, OldGood, NewGood
<1>3. CallsGood
  BY AskedTyped DEF Init, CallsGood, NoRequest, Kinds, Steps, Menus
<1> QED
  BY <1>1, <1>2, <1>3 DEF GroupsInv

-----------------------------------------------------------------------------
(* The parts of a step. *)
LEMMA GoodGrows ==
  ASSUME NEW st, NEW ws1, NEW ws2, StateGood(st, ws1), ws1 \subseteq ws2
  PROVE  StateGood(st, ws2)
BY DEF StateGood, Within

LEMMA SameKeepsStore ==
  StoreGood /\ UNCHANGED <<docs, history>> => StoreGood' /\ ever' = ever
BY DEF StoreGood, StateGood, Within, docs, history

LEMMA PutStateKeepsStore ==
  ASSUME StoreGood, NEW st, StateGood(st, ever), PutState(st)
  PROVE  StoreGood' /\ ever' = ever
BY DEF StoreGood, StateGood, Within, PutState

LEMMA PutWatchlistKeepsStore ==
  ASSUME StoreGood, NEW wl \in Watchlist, PutWatchlist(wl)
  PROVE  StoreGood' /\ ever' = ever \cup wl.works
<1>1. /\ watchlist' = wl /\ ever' = ever \cup wl.works /\ removed' = removed \ wl.works
      /\ state' = state
  BY DEF PutWatchlist
<1>2. wl.works \in SUBSET Works
  BY DEF Watchlist
<1>3. StateGood(state, ever \cup wl.works)
  BY GoodGrows DEF StoreGood
<1>4. StateGood(state', ever')
  BY <1>1, <1>3
<1> QED
  BY <1>1, <1>2, <1>4 DEF StoreGood, StateGood, Within

LEMMA OldStays ==
  ASSUME OldGood, old' = old, ever \subseteq ever'
  PROVE  OldGood'
<1>1. \A j \in Jobs : old'[j].watchlist.works \subseteq ever' /\ StateGood(old'[j].state, ever')
  BY GoodGrows DEF OldGood
<1> QED
  BY <1>1 DEF OldGood, StateGood, Within

LEMMA LoadsKeepOld ==
  ASSUME StoreGood, OldGood, NEW j \in Jobs, LoadState(j) \/ LoadWatchlist(j),
         UNCHANGED <<docs, history>>
  PROVE  OldGood'
<1>1. ever' = ever
  BY DEF history
<1>2. old' \in [Jobs -> Documents]
  BY DEF LoadState, LoadWatchlist, StoreGood, StateGood, OldGood, Documents
<1>3. \A i \in Jobs : /\ old'[i].watchlist \in {watchlist, old[i].watchlist}
                      /\ old'[i].state \in {state, old[i].state}
  BY DEF LoadState, LoadWatchlist, OldGood, Documents
<1>4. \A i \in Jobs : old'[i].watchlist.works \subseteq ever /\ StateGood(old'[i].state, ever)
  BY <1>3 DEF StoreGood, OldGood
<1> QED
  BY <1>1, <1>2, <1>4 DEF OldGood, StateGood, Within

(* A step after which no other job is about to save the state. *)
LEMMA NewStays ==
  ASSUME NewGood, new' = new, ever \subseteq ever',
         \A i \in Jobs : pc'[i] = "save_s" => Within(new[i].state.groups, ever')
  PROVE  NewGood'
<1>1. \A i \in Jobs : StateGood(new'[i].state, ever' \cup new'[i].watchlist.works)
  <2> SUFFICES ASSUME NEW i \in Jobs
               PROVE  StateGood(new[i].state, ever' \cup new[i].watchlist.works)
    OBVIOUS
  <2>1. StateGood(new[i].state, ever \cup new[i].watchlist.works)
    BY DEF NewGood
  <2> QED
    BY <2>1, GoodGrows
<1>2. new' \in [Jobs -> Documents]
  BY DEF NewGood
<1> QED
  BY <1>1, <1>2 DEF NewGood, StateGood, Within

LEMMA WantKeepsNew ==
  ASSUME NewGood, CallsGood, NEW j \in Jobs, NEW d \in Documents, NEW to \in Steps \ {"save_s"},
         StateGood(d.state, ever \cup d.watchlist.works),
         Want(j, d), Goto(j, to), ever' = ever
  PROVE  NewGood'
<1>1. /\ new' = [new EXCEPT ![j] = d]
      /\ pc' = [pc EXCEPT ![j] = to]
      /\ new \in [Jobs -> Documents]
      /\ pc \in [Jobs -> Steps]
  BY DEF Want, Goto, NewGood, CallsGood
<1>2. new' \in [Jobs -> Documents]
  BY <1>1
<1>3. \A i \in Jobs : /\ StateGood(new'[i].state, ever' \cup new'[i].watchlist.works)
                      /\ pc'[i] = "save_s" => Within(new'[i].state.groups, ever')
  BY <1>1 DEF NewGood
<1> QED
  BY <1>2, <1>3 DEF NewGood, StateGood, Within

LEMMA GotoKeepsCalls ==
  ASSUME CallsGood, NEW j \in Jobs, NEW to \in Steps, Goto(j, to), ask' = ask,
         to \in Menus => pc[j] \in Menus
  PROVE  CallsGood' /\ (to # "save_s" => \A i \in Jobs : pc'[i] = "save_s" => pc[i] = "save_s")
BY DEF CallsGood, Goto

LEMMA AskKeepsCalls ==
  ASSUME CallsGood, NEW j \in Jobs, NEW to \in Steps, NEW r \in Request, Goto(j, to), Ask(j, r),
         to \in Menus => r.group \in GroupIds /\ r.works # {}
  PROVE  CallsGood' /\ (to # "save_s" => \A i \in Jobs : pc'[i] = "save_s" => pc[i] = "save_s")
BY DEF CallsGood, Goto, Ask

LEMMA FinishKeeps ==
  ASSUME OldGood, NewGood, CallsGood, ever \subseteq ever', NEW j \in Jobs, Finish(j)
  PROVE  OldGood' /\ NewGood' /\ CallsGood'
<1>1. /\ pc' = [pc EXCEPT ![j] = "idle"]
      /\ old' = [old EXCEPT ![j] = NoDocuments]
      /\ new' = [new EXCEPT ![j] = NoDocuments]
      /\ old \in [Jobs -> Documents]
      /\ new \in [Jobs -> Documents]
      /\ pc \in [Jobs -> Steps]
  BY DEF Finish, Goto, Want, OldGood, NewGood, CallsGood
<1>2. CallsGood'
  <2>1. NoRequest \in Request
    BY AskedTyped DEF NoRequest, Kinds
  <2> QED
    BY <2>1, AskKeepsCalls DEF Finish, Steps, Menus
<1>3. \A i \in Jobs : /\ StateGood(old[i].state, ever')
                      /\ StateGood(new[i].state, ever' \cup new[i].watchlist.works)
                      /\ old[i].watchlist.works \subseteq ever'
                      /\ pc[i] = "save_s" => Within(new[i].state.groups, ever')
  <2> SUFFICES ASSUME NEW i \in Jobs
               PROVE  /\ StateGood(old[i].state, ever')
                      /\ StateGood(new[i].state, ever' \cup new[i].watchlist.works)
                      /\ old[i].watchlist.works \subseteq ever'
                      /\ pc[i] = "save_s" => Within(new[i].state.groups, ever')
    OBVIOUS
  <2>1. StateGood(old[i].state, ever) /\ old[i].watchlist.works \subseteq ever
    BY DEF OldGood
  <2>2. /\ StateGood(new[i].state, ever \cup new[i].watchlist.works)
        /\ pc[i] = "save_s" => Within(new[i].state.groups, ever)
    BY DEF NewGood
  <2> QED
    BY <2>1, <2>2, GoodGrows DEF Within
<1>4. old' \in [Jobs -> Documents] /\ new' \in [Jobs -> Documents]
  BY <1>1, NothingGood
<1>5. \A i \in Jobs : /\ StateGood(old'[i].state, ever')
                      /\ StateGood(new'[i].state, ever' \cup new'[i].watchlist.works)
                      /\ old'[i].watchlist.works \subseteq ever'
                      /\ pc'[i] = "save_s" => Within(new'[i].state.groups, ever')
  BY <1>1, <1>3, NothingGood
<1> QED
  BY <1>2, <1>4, <1>5 DEF OldGood, NewGood, StateGood, Within

-----------------------------------------------------------------------------
(* The shapes that the steps of a command have. *)

(* It asks for something or loads a document, and goes on. *)
LEMMA QuietStep ==
  ASSUME GroupsInv, NEW j \in Jobs, UNCHANGED <<docs, history>>, new' = new,
         old' = old \/ LoadState(j) \/ LoadWatchlist(j),
         NEW to \in Steps \ {"save_s"}, Goto(j, to),
         \/ ask' = ask /\ (to \in Menus => pc[j] \in Menus)
         \/ \E r \in Request : /\ Ask(j, r)
                               /\ to \in Menus => r.group \in GroupIds /\ r.works # {}
  PROVE  GroupsInv'
<1>1. StoreGood' /\ ever' = ever
  BY SameKeepsStore DEF GroupsInv
<1>2. OldGood'
  BY <1>1, OldStays, LoadsKeepOld DEF GroupsInv
<1>3. CallsGood' /\ \A i \in Jobs : pc'[i] = "save_s" => pc[i] = "save_s"
  BY GotoKeepsCalls, AskKeepsCalls DEF GroupsInv
<1>4. NewGood'
  <2>1. \A i \in Jobs : pc'[i] = "save_s" => Within(new[i].state.groups, ever')
    BY <1>1, <1>3 DEF GroupsInv, NewGood
  <2> QED
    BY <1>1, <2>1, NewStays DEF GroupsInv
<1> QED
  BY <1>1, <1>2, <1>3, <1>4 DEF GroupsInv

(* It loads the last document and knows what it wants. *)
LEMMA WantStep ==
  ASSUME GroupsInv, NEW j \in Jobs, UNCHANGED <<docs, history>>, ask' = ask,
         LoadState(j) \/ LoadWatchlist(j), Goto(j, "save_w"),
         NEW d \in Documents, StateGood(d.state, ever \cup d.watchlist.works), Want(j, d)
  PROVE  GroupsInv'
<1>1. StoreGood' /\ ever' = ever
  BY SameKeepsStore DEF GroupsInv
<1>2. OldGood'
  BY LoadsKeepOld DEF GroupsInv
<1>3. "save_w" \in Steps \ {"save_s"} /\ "save_w" \notin Menus
  BY DEF Steps, Menus
<1>4. CallsGood'
  BY <1>3, GotoKeepsCalls DEF GroupsInv
<1>5. NewGood'
  BY <1>1, <1>3, WantKeepsNew DEF GroupsInv
<1> QED
  BY <1>1, <1>2, <1>4, <1>5 DEF GroupsInv

(* It saves a document, and goes on with the copies it has. *)
LEMMA SaveStep ==
  ASSUME GroupsInv, NEW j \in Jobs, StoreGood', ever \subseteq ever',
         UNCHANGED <<ask, old, new>>, NEW to \in Steps \ Menus, Goto(j, to),
         to = "save_s" => Within(new[j].state.groups, ever')
  PROVE  GroupsInv'
<1>1. OldGood'
  BY OldStays DEF GroupsInv
<1>2. CallsGood'
  BY GotoKeepsCalls DEF GroupsInv
<1>3. ASSUME NEW i \in Jobs, pc'[i] = "save_s"
      PROVE  Within(new[i].state.groups, ever')
  <2>1. CASE i = j
    BY <1>3, <2>1 DEF Goto, GroupsInv, CallsGood
  <2>2. CASE i # j
    <3>1. pc[i] = "save_s"
      BY <1>3, <2>2 DEF Goto, GroupsInv, CallsGood
    <3> QED
      BY <3>1 DEF GroupsInv, NewGood, Within
  <2> QED
    BY <2>1, <2>2
<1>4. NewGood'
  BY <1>3, NewStays DEF GroupsInv
<1> QED
  BY <1>1, <1>2, <1>4 DEF GroupsInv

(* It ends, with or without a last save. *)
LEMMA FinishStep ==
  ASSUME GroupsInv, NEW j \in Jobs, StoreGood', ever \subseteq ever', Finish(j)
  PROVE  GroupsInv'
BY FinishKeeps DEF GroupsInv

LEMMA StopStep ==
  ASSUME GroupsInv, NEW j \in Jobs, UNCHANGED <<docs, history>>, Finish(j)
  PROVE  GroupsInv'
<1>1. StoreGood' /\ ever' = ever
  BY SameKeepsStore DEF GroupsInv
<1> QED
  BY <1>1, FinishStep

(* What a command makes of a watchlist is one. *)
LEMMA WatchTyped ==
  ASSUME NEW wl \in Watchlist, NEW ws \in SUBSET Works, NEW hide \in BOOLEAN
  PROVE  /\ Watch(wl, ws, hide) \in Watchlist
         /\ Watch(wl, ws, hide).works = wl.works \cup ws
         /\ Unwatch(wl, ws) \in Watchlist
         /\ Unwatch(wl, ws).works = wl.works \ ws
BY DEF Watch, Unwatch, Watchlist

(* What a command or a run makes of a state outside of its groups. *)
LEMMA StateTouched ==
  ASSUME NEW st, NEW ws, StateGood(st, ws), NEW works \in SUBSET Works,
         NEW pending \in SUBSET Choice
  PROVE  /\ StateGood([st EXCEPT !.traces = @ \cup works], ws)
         /\ StateGood(Prune(st, works), ws)
         /\ StateGood([st EXCEPT !.pending = pending], ws)
BY DEF StateGood, State, Prune

-----------------------------------------------------------------------------
(* The steps of each command. *)
LEMMA AddSteps ==
  ASSUME GroupsInv, NEW j \in Jobs,
         StartAdd(j) \/ Add(j) \/ StartToggle(j) \/ Toggle(j)
  PROVE  GroupsInv'
<1>1. CASE StartAdd(j)
  <2>1. PICK w \in Works, kind \in {"add", "add_hidden"} : Ask(j, Asked(kind, {w}))
    BY <1>1 DEF StartAdd
  <2>2. Asked(kind, {w}) \in Request
    BY AskedTyped DEF Kinds
  <2> QED
    BY <1>1, <2>1, <2>2, QuietStep DEF StartAdd, Steps, Menus
<1>2. CASE Add(j)
  <2>1. Finish(j)
    BY <1>2 DEF Add
  <2>2. CASE UNCHANGED <<docs, history>>
    BY <2>1, <2>2, StopStep
  <2>3. CASE PutWatchlist(Watch(old[j].watchlist, ask[j].works, ask[j].kind = "add_hidden"))
    <3>1. Watch(old[j].watchlist, ask[j].works, ask[j].kind = "add_hidden") \in Watchlist
      BY WatchTyped DEF GroupsInv, OldGood, CallsGood, Documents, Request
    <3> QED
      BY <2>1, <2>3, <3>1, PutWatchlistKeepsStore, FinishStep DEF GroupsInv
  <2> QED
    BY <1>2, <2>2, <2>3 DEF Add
<1>3. CASE StartToggle(j)
  <2>1. PICK w \in Works, kind \in {"enable", "disable"} : Ask(j, Asked(kind, {w}))
    BY <1>3 DEF StartToggle
  <2>2. Asked(kind, {w}) \in Request
    BY AskedTyped DEF Kinds
  <2> QED
    BY <1>3, <2>1, <2>2, QuietStep DEF StartToggle, Steps, Menus
<1>4. CASE Toggle(j)
  <2> DEFINE wl == old[j].watchlist
             switched == [wl EXCEPT !.enabled = IF ask[j].kind = "enable" THEN @ \cup ask[j].works
                                                ELSE @ \ ask[j].works]
  <2>1. Finish(j)
    BY <1>4 DEF Toggle
  <2>2. CASE UNCHANGED <<docs, history>>
    BY <2>1, <2>2, StopStep
  <2>3. CASE ask[j].works \subseteq wl.works /\ PutWatchlist(switched)
    <3>1. switched \in Watchlist
      BY SMTT(30), <2>3 DEF GroupsInv, OldGood, CallsGood, Documents, Watchlist, Request
    <3> HIDE DEF switched
    <3> QED
      BY <2>1, <2>3, <3>1, PutWatchlistKeepsStore, FinishStep DEF GroupsInv
  <2> QED
    BY <1>4, <2>2, <2>3 DEF Toggle
<1> QED
  BY <1>1, <1>2, <1>3, <1>4

LEMMA RemoveSteps ==
  ASSUME GroupsInv, NEW j \in Jobs,
         ConfirmRemove(j) \/ RemoveLoadsWatchlist(j) \/ RemoveLoadsState(j)
  PROVE  GroupsInv'
<1>1. CASE ConfirmRemove(j)
  <2>1. PICK w \in watchlist.enabled : Ask(j, Asked("remove", {w}))
    BY <1>1 DEF ConfirmRemove
  <2>2. Asked("remove", {w}) \in Request
    BY AskedTyped DEF Kinds, GroupsInv, StoreGood, Watchlist
  <2> QED
    BY <1>1, <2>1, <2>2, QuietStep DEF ConfirmRemove, Steps, Menus
<1>2. CASE RemoveLoadsWatchlist(j)
  BY <1>2, QuietStep DEF RemoveLoadsWatchlist, Steps, Menus
<1>3. CASE RemoveLoadsState(j)
  <2> DEFINE d == [watchlist |-> Unwatch(old[j].watchlist, ask[j].works),
                   state |-> Prune(state, ask[j].works)]
  <2>1. CASE Finish(j)
    BY <1>3, <2>1, StopStep DEF RemoveLoadsState
  <2>2. CASE LoadState(j) /\ Want(j, d) /\ Goto(j, "save_w") /\ UNCHANGED ask
    <3>1. ask[j].works \in SUBSET Works /\ old[j].watchlist \in Watchlist
      BY DEF GroupsInv, OldGood, CallsGood, Documents, Request
    <3>2. StateGood(d.state, ever)
      BY <3>1, StateTouched DEF GroupsInv, StoreGood
    <3>3. StateGood(d.state, ever \cup d.watchlist.works)
      BY <3>2, GoodGrows
    <3>4. d \in Documents
      BY <3>1, <3>2, WatchTyped DEF Documents, StateGood
    <3> HIDE DEF d
    <3> QED
      BY <1>3, <2>2, <3>3, <3>4, WantStep DEF RemoveLoadsState
  <2> QED
    BY <1>3, <2>1, <2>2 DEF RemoveLoadsState
<1> QED
  BY <1>1, <1>2, <1>3

LEMMA LinkSteps ==
  ASSUME GroupsInv, NEW j \in Jobs, StartLink(j) \/ LinkLoadsState(j)
  PROVE  GroupsInv'
<1>1. CASE StartLink(j)
  <2>1. PICK root \in ever, found \in Chosen(Works) :
          Ask(j, [Asked("link", found) EXCEPT !.root = root])
    BY <1>1 DEF StartLink
  <2>2. [Asked("link", found) EXCEPT !.root = root] \in Request
    BY DEF Asked, Request, Kinds, Chosen, GroupsInv, StoreGood
  <2> QED
    BY <1>1, <2>1, <2>2, QuietStep DEF StartLink, Steps, Menus
<1>2. CASE LinkLoadsState(j)
  <2> DEFINE wl == old[j].watchlist
             members == ask[j].works \cup {ask[j].root}
             d(home) == [watchlist |-> Watch(wl, ask[j].works, TRUE),
                         state |-> [state EXCEPT !.groups = Join(@, members, home)]]
  <2>1. CASE Finish(j)
    BY <1>2, <2>1, StopStep DEF LinkLoadsState
  <2>2. CASE ask[j].root \in wl.works /\ ~Finish(j)
    <3>1. PICK home \in Homes(state.groups, members) :
            LoadState(j) /\ Want(j, d(home)) /\ Goto(j, "save_w") /\ UNCHANGED ask
      BY <1>2, <2>2 DEF LinkLoadsState
    <3>2. /\ ask[j].works \in SUBSET Works /\ wl \in Watchlist
          /\ members \in SUBSET Works /\ members \subseteq wl.works \cup ask[j].works
      BY <2>2 DEF GroupsInv, OldGood, CallsGood, Documents, Request, Watchlist
    <3>3. state \in State /\ Disjoint(state.groups) /\ Within(state.groups, ever)
      BY DEF GroupsInv, StoreGood, StateGood
    <3>4. d(home).watchlist \in Watchlist /\ d(home).watchlist.works = wl.works \cup ask[j].works
      BY <3>2, WatchTyped
    <3> DEFINE joined == Join(state.groups, members, home)
               ws == ever \cup (wl.works \cup ask[j].works)
    <3>5. state.groups \in [GroupIds -> SUBSET Works]
      BY <3>3 DEF State
    <3>6. Within(state.groups, ws) /\ members \subseteq ws
      BY <3>2, <3>3 DEF Within
    <3>7. joined \in [GroupIds -> SUBSET Works] /\ Disjoint(joined) /\ Within(joined, ws)
      <4> HIDE DEF members, ws
      <4> QED
        BY <3>2, <3>3, <3>5, <3>6, JoinKeeps
    <3>8. d(home).state = [state EXCEPT !.groups = joined]
      OBVIOUS
    <3> HIDE DEF joined, members, d
    <3>9. d(home).state \in State /\ d(home).state.groups = joined
      BY <3>3, <3>7, <3>8 DEF State
    <3>10. StateGood(d(home).state, ever \cup d(home).watchlist.works)
      BY <3>4, <3>7, <3>9 DEF StateGood
    <3>11. d(home) \in Documents
      BY <3>4, <3>9 DEF d, Documents
    <3> QED
      BY <1>2, <3>1, <3>10, <3>11, WantStep DEF LinkLoadsState
  <2> QED
    BY <1>2, <2>1, <2>2 DEF LinkLoadsState
<1> QED
  BY <1>1, <1>2

(* The state without a choice that was made is a good one. *)
LEMMA WithoutChoiceGood ==
  ASSUME NEW st, NEW ws, StateGood(st, ws), NEW r
  PROVE  StateGood(WithoutChoice(st, r), ws)
BY DEF StateGood, State, WithoutChoice

LEMMA MenuSteps ==
  ASSUME GroupsInv, NEW j \in Jobs,
         ShowMembers(j) \/ SelectMembers(j) \/ SavePending(j)
           \/ ChooseAction(j) \/ ManageLoadsState(j) \/ SaveCancel(j)
  PROVE  GroupsInv'
<1>1. CASE ShowMembers(j)
  <2>1. PICK g \in GroupIds : \E members \in Chosen(state.groups[g]) :
          Ask(j, [Asked("select", members) EXCEPT !.group = g])
    BY <1>1 DEF ShowMembers
  <2>2. PICK members \in Chosen(state.groups[g]) :
          Ask(j, [Asked("select", members) EXCEPT !.group = g])
    BY <2>1
  <2> DEFINE r == [Asked("select", members) EXCEPT !.group = g]
  <2>3. members \in SUBSET Works /\ members # {}
    BY DEF Chosen, GroupsInv, StoreGood, StateGood, State
  <2>4. r \in Request /\ r.group \in GroupIds /\ r.works # {}
    BY <2>3 DEF Asked, Request, Kinds
  <2> HIDE DEF r
  <2> QED
    BY <1>1, <2>2, <2>4, QuietStep DEF ShowMembers, Steps, Menus, r
<1>2. CASE SelectMembers(j)
  BY <1>2, QuietStep DEF SelectMembers, Steps, Menus
<1>3. CASE SavePending(j)
  <2> DEFINE choice == [group |-> ask[j].group, members |-> ask[j].works]
             pending == old[j].state.pending \cup {choice}
  <2>1. Finish(j)
    BY <1>3 DEF SavePending
  <2>2. CASE UNCHANGED <<docs, history>>
    BY <2>1, <2>2, StopStep
  <2>3. CASE PutState([old[j].state EXCEPT !.pending = pending])
    <3>1. ask[j].group \in GroupIds /\ ask[j].works # {} /\ ask[j].works \in SUBSET Works
      BY <1>3 DEF SavePending, GroupsInv, CallsGood, Menus, Request
    <3>2. choice \in Choice
      BY <3>1 DEF Choice
    <3>3. StateGood(old[j].state, ever) /\ old[j].state.pending \in SUBSET Choice
      BY DEF GroupsInv, OldGood, StateGood, State
    <3>4. pending \in SUBSET Choice
      BY <3>2, <3>3
    <3>5. StateGood([old[j].state EXCEPT !.pending = pending], ever)
      <4> HIDE DEF pending
      <4> QED
        BY <3>3, <3>4, StateTouched
    <3> HIDE DEF pending
    <3>6. StoreGood' /\ ever' = ever
      BY <2>3, <3>5, PutStateKeepsStore DEF GroupsInv
    <3> QED
      BY <2>1, <3>6, FinishStep
  <2> QED
    BY <1>3, <2>2, <2>3 DEF SavePending
<1>4. CASE ChooseAction(j)
  <2>1. PICK choice \in state.pending, kind \in {"keep_hidden", "unhide", "delete", "cancel"} :
          Ask(j, [Asked(kind, choice.members) EXCEPT !.group = choice.group])
    BY <1>4 DEF ChooseAction
  <2> DEFINE r == [Asked(kind, choice.members) EXCEPT !.group = choice.group]
  <2>2. choice \in Choice
    BY DEF GroupsInv, StoreGood, StateGood, State
  <2>3. r \in Request /\ r.group \in GroupIds /\ r.works # {}
    BY <2>2 DEF Asked, Request, Kinds, Choice
  <2> HIDE DEF r
  <2> QED
    BY <1>4, <2>1, <2>3, QuietStep DEF ChooseAction, Steps, Menus, r
<1>5. CASE ManageLoadsState(j)
  <2>1. CASE Finish(j)
    BY <1>5, <2>1, StopStep DEF ManageLoadsState
  <2>2. CASE ~Finish(j)
    <3>1. PICK to \in {"cancel", "manage_watchlist"} : Goto(j, to)
      BY <1>5, <2>2 DEF ManageLoadsState
    <3>2. /\ pc[j] = "manage" /\ LoadState(j) /\ ask' = ask /\ new' = new
          /\ UNCHANGED <<docs, history>>
      BY <1>5, <2>2 DEF ManageLoadsState
    <3>3. to \in Steps \ {"save_s"} /\ pc[j] \in Menus
      BY <3>2 DEF Steps, Menus
    <3> QED
      BY <3>1, <3>2, <3>3, QuietStep
  <2> QED
    BY <2>1, <2>2
<1>6. CASE SaveCancel(j)
  <2>1. Finish(j)
    BY <1>6 DEF SaveCancel
  <2>2. StateGood(WithoutChoice(old[j].state, ask[j]), ever)
    BY WithoutChoiceGood DEF GroupsInv, OldGood
  <2>3. StoreGood' /\ ever' = ever
    BY <1>6, <2>2, PutStateKeepsStore, SameKeepsStore DEF SaveCancel, GroupsInv
  <2> QED
    BY <2>1, <2>3, FinishStep
<1> QED
  BY <1>1, <1>2, <1>3, <1>4, <1>5, <1>6

LEMMA ManageStep ==
  ASSUME GroupsInv, NEW j \in Jobs, ManageLoadsWatchlist(j)
  PROVE  GroupsInv'
<1> DEFINE r == ask[j]
           without == WithoutChoice(old[j].state, r)
           left == [without EXCEPT !.groups = Leave(@, r.group, r.works)]
           deleted == [watchlist |-> Unwatch(watchlist, r.works), state |-> Prune(left, r.works)]
           hidden == [watchlist |-> [watchlist EXCEPT !.hidden = @ \cup r.works], state |-> left]
           shown == [watchlist |-> [watchlist EXCEPT !.hidden = @ \ r.works], state |-> left]
<1>1. CASE Finish(j)
  BY <1>1, StopStep DEF ManageLoadsWatchlist
<1>2. CASE ~Finish(j)
  <2>1. r.works \in SUBSET Works /\ watchlist \in Watchlist
    BY DEF GroupsInv, StoreGood, CallsGood, Request
  <2>2. StateGood(without, ever)
    BY WithoutChoiceGood DEF GroupsInv, OldGood
  <2>3. StateGood(left, ever)
    <3> HIDE DEF without
    <3>1. without.groups \in [GroupIds -> SUBSET Works]
      BY <2>2 DEF StateGood, State
    <3>2. LET groups == Leave(without.groups, r.group, r.works)
          IN groups \in [GroupIds -> SUBSET Works] /\ Disjoint(groups) /\ Within(groups, ever)
      BY <2>2, <3>1, LeaveKeeps DEF StateGood
    <3> QED
      BY <2>2, <3>2 DEF StateGood, State
  <2> HIDE DEF left
  <2>4. StateGood(Prune(left, r.works), ever)
    BY <2>1, <2>3, StateTouched
  <2>5. /\ deleted.watchlist \in Watchlist
        /\ r.works \subseteq watchlist.works
             => hidden.watchlist \in Watchlist /\ shown.watchlist \in Watchlist
    <3>1. Unwatch(watchlist, r.works) \in Watchlist
      BY <2>1, WatchTyped
    <3> QED
      BY <2>1, <3>1 DEF Watchlist
  <2>6. PICK d \in {deleted, hidden, shown} :
          /\ Want(j, d) /\ LoadWatchlist(j) /\ Goto(j, "save_w") /\ UNCHANGED ask
          /\ d = deleted \/ r.works \subseteq watchlist.works
    BY <1>2 DEF ManageLoadsWatchlist, left
  <2>7. StateGood(d.state, ever)
    BY <2>3, <2>4
  <2>8. d \in Documents
    <3>1. CASE d = deleted
      <4>1. deleted.watchlist \in Watchlist /\ deleted.state \in State
        BY <2>4, <2>5 DEF StateGood
      <4> QED
        BY <3>1, <4>1 DEF Documents
    <3>2. CASE r.works \subseteq watchlist.works /\ d \in {hidden, shown}
      <4>1. /\ hidden.watchlist \in Watchlist /\ hidden.state \in State
            /\ shown.watchlist \in Watchlist /\ shown.state \in State
        BY <2>3, <2>5, <3>2 DEF StateGood
      <4> QED
        BY <3>2, <4>1 DEF Documents
    <3> QED
      BY <2>6, <3>1, <3>2
  <2> HIDE DEF deleted, hidden, shown
  <2>9. StateGood(d.state, ever \cup d.watchlist.works)
    BY <2>7, GoodGrows
  <2>10. UNCHANGED <<docs, history>>
    BY DEF ManageLoadsWatchlist
  <2> QED
    BY <2>6, <2>8, <2>9, <2>10, WantStep
<1> QED
  BY <1>1, <1>2

(* The two saves and the rollback.  Once the watchlist is saved, the works *)
(* that the wanted groups name were watched.                               *)
LEMMA SaveSteps ==
  ASSUME GroupsInv, NEW j \in Jobs,
         SaveWatchlist(j) \/ SaveState(j) \/ UndoWatchlist(j) \/ UndoState(j) \/ Answer(j)
  PROVE  GroupsInv'
<1>0. /\ StoreGood /\ old[j].watchlist \in Watchlist /\ new[j].watchlist \in Watchlist
      /\ StateGood(old[j].state, ever)
      /\ StateGood(new[j].state, ever \cup new[j].watchlist.works)
      /\ pc[j] = "save_s" => StateGood(new[j].state, ever)
  BY DEF GroupsInv, OldGood, NewGood, Documents, StateGood
<1>1. CASE SaveWatchlist(j)
  <2>1. PICK to \in {"save_s", "undo_w"} : Goto(j, to)
    BY <1>1 DEF SaveWatchlist
  <2>2. to \in Steps \ Menus
    BY DEF Steps, Menus
  <2>3. StoreGood' /\ ever \subseteq ever'
    BY <1>0, <1>1, PutWatchlistKeepsStore, SameKeepsStore DEF SaveWatchlist
  <2>4. to = "save_s" => ever' = ever \cup new[j].watchlist.works
    BY <1>0, <1>1, <2>1, PutWatchlistKeepsStore DEF SaveWatchlist, Goto, GroupsInv, CallsGood
  <2>5. to = "save_s" => Within(new[j].state.groups, ever')
    BY <1>0, <2>4 DEF StateGood
  <2> QED
    BY <1>1, <2>1, <2>2, <2>3, <2>5, SaveStep DEF SaveWatchlist
<1>2. CASE SaveState(j)
  <2>1. PICK to \in {"done", "undo_w"} : Goto(j, to)
    BY <1>2 DEF SaveState
  <2>2. to \in Steps \ Menus /\ to # "save_s"
    BY DEF Steps, Menus
  <2>3. StateGood(new[j].state, ever)
    BY <1>0, <1>2 DEF SaveState
  <2>4. StoreGood' /\ ever' = ever
    <3>1. CASE PutState(new[j].state)
      BY <1>0, <2>3, <3>1, PutStateKeepsStore
    <3>2. CASE UNCHANGED <<docs, history>>
      BY <1>0, <3>2, SameKeepsStore
    <3>3. CASE /\ state' = new[j].state
               /\ removed' = IF ask[j].kind = "remove" THEN removed \cup ask[j].works ELSE removed
               /\ UNCHANGED <<watchlist, ever>>
      <4>1. removed' \in SUBSET Works
        BY <3>3 DEF GroupsInv, StoreGood, CallsGood, Request
      <4> QED
        BY <1>0, <2>3, <3>3, <4>1 DEF StoreGood, StateGood, Within
    <3> QED
      BY <1>2, <3>1, <3>2, <3>3 DEF SaveState
  <2> QED
    BY <1>2, <2>1, <2>2, <2>4, SaveStep DEF SaveState
<1>3. CASE UndoWatchlist(j)
  <2>1. StoreGood' /\ ever \subseteq ever'
    BY <1>0, <1>3, PutWatchlistKeepsStore, SameKeepsStore DEF UndoWatchlist
  <2>2. CASE Finish(j)
    BY <2>1, <2>2, FinishStep
  <2>3. CASE ~Finish(j)
    <3>1. PICK to \in {"undo_s", "undo_torn"} : Goto(j, to) /\ UNCHANGED <<ask, old, new>>
      BY <1>3, <2>3 DEF UndoWatchlist
    <3>2. to \in Steps \ Menus /\ to # "save_s"
      BY DEF Steps, Menus
    <3> QED
      BY <2>1, <3>1, <3>2, SaveStep
  <2> QED
    BY <2>2, <2>3
<1>4. CASE UndoState(j)
  <2>1. StoreGood' /\ ever' = ever
    BY <1>0, <1>4, PutStateKeepsStore, SameKeepsStore DEF UndoState
  <2>2. CASE Finish(j)
    BY <2>1, <2>2, FinishStep
  <2>3. CASE ~Finish(j)
    <3>1. Goto(j, "failed") /\ UNCHANGED <<ask, old, new>>
      BY <1>4, <2>3 DEF UndoState
    <3>2. "failed" \in Steps \ Menus
      BY DEF Steps, Menus
    <3> QED
      BY <2>1, <3>1, <3>2, SaveStep
  <2> QED
    BY <2>2, <2>3
<1>5. CASE Answer(j)
  BY <1>5, StopStep DEF Answer
<1> QED
  BY <1>1, <1>2, <1>3, <1>4, <1>5

LEMMA RunSteps ==
  ASSUME GroupsInv, NEW j \in Jobs, Run(j)
  PROVE  GroupsInv'
<1>0. /\ StoreGood /\ ask[j].works \in SUBSET Works
      /\ StateGood(old[j].state, ever)
  BY DEF GroupsInv, OldGood, CallsGood, Request
<1>1. ASSUME NEW updated \in SUBSET ask[j].works
      PROVE  StateGood([old[j].state EXCEPT !.traces = @ \cup updated], ever)
  <2>1. updated \in SUBSET Works /\ {} \in SUBSET Choice
    BY <1>0
  <2> QED
    BY <1>0, <2>1, StateTouched
<1>2. CASE StartRun(j)
  <2>1. Asked("run", watchlist.enabled) \in Request
    BY AskedTyped DEF Kinds, GroupsInv, StoreGood, Watchlist
  <2> QED
    BY <1>2, <2>1, QuietStep DEF StartRun, Steps, Menus
<1>3. CASE RunLoadsState(j)
  BY <1>3, QuietStep DEF RunLoadsState, Steps, Menus
<1>4. CASE RunRecords(j)
  <2>1. StoreGood' /\ ever' = ever
    BY <1>0, <1>1, <1>4, PutStateKeepsStore, SameKeepsStore DEF RunRecords
  <2>2. CASE Finish(j)
    BY <2>1, <2>2, FinishStep
  <2>3. CASE ~Finish(j)
    <3>1. Goto(j, "reload") /\ UNCHANGED <<ask, old, new>>
      BY <1>4, <2>3 DEF RunRecords
    <3>2. "reload" \in Steps \ Menus
      BY DEF Steps, Menus
    <3> QED
      BY <2>1, <3>1, <3>2, SaveStep
  <2> QED
    BY <2>2, <2>3
<1>5. CASE RunReloads(j)
  BY <1>5, QuietStep DEF RunReloads, Steps, Menus
<1>6. CASE RunDelivers(j)
  <2>1. StoreGood' /\ ever' = ever
    BY <1>0, <1>1, <1>6, PutStateKeepsStore, SameKeepsStore DEF RunDelivers
  <2> QED
    BY <1>6, <2>1, FinishStep DEF RunDelivers
<1> QED
  BY <1>2, <1>3, <1>4, <1>5, <1>6 DEF Run

LEMMA GroupsInvStutter ==
  ASSUME GroupsInv, UNCHANGED vars
  PROVE  GroupsInv'
BY DEF GroupsInv, StoreGood, OldGood, NewGood, CallsGood, StateGood, Within, vars

LEMMA GroupsInvNext == GroupsInv /\ [Next]_vars => GroupsInv'
<1> SUFFICES ASSUME GroupsInv, [Next]_vars PROVE GroupsInv'
  OBVIOUS
<1>1. ASSUME NEW j \in Jobs, Command(j) PROVE GroupsInv'
  BY <1>1, AddSteps, RemoveSteps, LinkSteps, MenuSteps, ManageStep, SaveSteps DEF Command
<1>2. ASSUME NEW j \in Jobs, Run(j) PROVE GroupsInv'
  BY <1>2, RunSteps
<1>3. ASSUME NEW j \in Jobs, Stop(j) PROVE GroupsInv'
  BY <1>3, StopStep DEF Stop
<1>4. CASE UNCHANGED vars
  BY <1>4, GroupsInvStutter
<1> QED
  BY <1>1, <1>2, <1>3, <1>4 DEF Next

THEOREM GroupsInvariant == Spec => []GroupsInv
BY GroupsInvInit, GroupsInvNext, PTL DEF Spec

(* Both documents, the calls and every copy keep their types.              *)
THEOREM SubscriptionsTypeCorrect == Spec => []TypeOK
BY GroupsInvariant, GroupsInvImplies, PTL

(* Any number of commands and runs may interleave, stop anywhere, and save *)
(* or restore old copies: no work is ever in two groups.                   *)
THEOREM GroupsStayDisjoint == Spec => []GroupsDisjoint
BY GroupsInvariant, GroupsInvImplies, PTL

(* Under the same interleavings, a group names only works that were in the *)
(* stored watchlist at some time.                                          *)
THEOREM MembersOnceWatched == Spec => []MembersWereWatched
BY GroupsInvariant, GroupsInvImplies, PTL

-----------------------------------------------------------------------------
(* One command or run at a time, which is as much as may be assumed where  *)
(* copies of whole documents are saved.                                    *)
OneJob == \A i, k \in Jobs : i = k

Running == {"run", "record", "reload", "deliver"}

Linking == {"link", "manage", "manage_watchlist"}

(* What a job knows of the documents at each step of its saves, and that   *)
(* it has no copy that would bring a removed work back.                    *)
SavedSoFar(j) ==
  /\ pc[j] = "save_s" => watchlist = new[j].watchlist
  /\ pc[j] = "undo_s" => watchlist = old[j].watchlist
  /\ pc[j] = "done" => watchlist = new[j].watchlist /\ state = new[j].state
  /\ pc[j] = "failed" => watchlist = old[j].watchlist /\ state = old[j].state

CopiesGone(j) ==
  /\ pc[j] # "done" => removed \cap old[j].state.traces = {}
  /\ removed \cap new[j].state.traces = {}
  /\ pc[j] \in Running => removed \cap ask[j].works = {}
  /\ pc[j] \in {"save_w", "save_s"} /\ ask[j].kind = "remove" =>
       ask[j].works \cap (new[j].watchlist.works \cup new[j].state.traces) = {}
  /\ pc[j] \in Linking => ask[j].kind # "remove"

AloneInv ==
  /\ GroupsInv
  /\ RemovedStaysGone
  /\ \A j \in Jobs : SavedSoFar(j) /\ CopiesGone(j)

LEMMA AloneInvInit == Init => AloneInv
BY GroupsInvInit DEF Init, AloneInv, RemovedStaysGone, SavedSoFar, CopiesGone, Running,
   Linking, NoRequest, Asked, NoDocuments, NoState, NoWatchlist

(* A save of the watchlist takes nothing away but from what was removed.   *)
LEMMA PutWatchlistGone ==
  ASSUME RemovedStaysGone, NEW wl, PutWatchlist(wl)
  PROVE  RemovedStaysGone' /\ removed' \subseteq removed
BY DEF RemovedStaysGone, PutWatchlist

LEMMA PutStateGone ==
  ASSUME RemovedStaysGone, NEW st, PutState(st), removed \cap st.traces = {}
  PROVE  RemovedStaysGone' /\ removed' = removed
BY DEF RemovedStaysGone, PutState

LEMMA SameGone ==
  ASSUME RemovedStaysGone, UNCHANGED <<docs, history>>
  PROVE  RemovedStaysGone' /\ removed' = removed
BY DEF RemovedStaysGone, docs, history

(* After its last step the only job has nothing left to say. *)
LEMMA FinishAlone ==
  ASSUME OneJob, AloneInv, NEW j \in Jobs, Finish(j)
  PROVE  \A i \in Jobs : SavedSoFar(i)' /\ CopiesGone(i)'
<1>1. /\ pc'[j] = "idle" /\ old'[j] = NoDocuments /\ new'[j] = NoDocuments
      /\ \A i \in Jobs : i = j
  BY DEF Finish, Goto, Want, AloneInv, GroupsInv, OldGood, NewGood, CallsGood, OneJob
<1>2. NoDocuments.state.traces = {}
  BY DEF NoDocuments, NoState
<1> QED
  BY <1>1, <1>2 DEF SavedSoFar, CopiesGone, Running, Linking

(* The steps that neither save nor end. *)
LEMMA QuietAlone ==
  ASSUME OneJob, AloneInv, NEW j \in Jobs, UNCHANGED <<docs, history>>, new' = new,
         old' = old \/ LoadState(j) \/ LoadWatchlist(j), pc[j] # "done",
         NEW to \in Steps \ {"save_w", "save_s", "undo_s", "done", "failed"}, Goto(j, to),
         to \in Running => removed \cap ask'[j].works = {},
         to \in Linking => ask'[j].kind # "remove"
  PROVE  RemovedStaysGone' /\ \A i \in Jobs : SavedSoFar(i)' /\ CopiesGone(i)'
<1>1. pc'[j] = to /\ new' = new /\ \A i \in Jobs : i = j
  BY DEF Goto, AloneInv, GroupsInv, CallsGood, OneJob
<1>2. RemovedStaysGone' /\ removed' = removed
  BY SameGone DEF AloneInv
<1>3. old'[j].state \in {state, old[j].state}
  BY DEF LoadState, LoadWatchlist, AloneInv, GroupsInv, OldGood, Documents
<1>4. removed \cap old'[j].state.traces = {}
  BY <1>3 DEF AloneInv, RemovedStaysGone, CopiesGone
<1>5. removed \cap new[j].state.traces = {}
  BY DEF AloneInv, CopiesGone
<1> QED
  BY <1>1, <1>2, <1>4, <1>5 DEF SavedSoFar, CopiesGone

(* The steps that decide what is wanted. *)
LEMMA WantAlone ==
  ASSUME OneJob, AloneInv, NEW j \in Jobs, UNCHANGED <<docs, history>>, pc[j] # "done",
         LoadState(j) \/ LoadWatchlist(j), Goto(j, "save_w"), NEW d, Want(j, d), ask' = ask,
         d.state.traces \subseteq state.traces \cup old[j].state.traces,
         ask[j].kind = "remove" =>
           ask[j].works \cap (d.watchlist.works \cup d.state.traces) = {}
  PROVE  RemovedStaysGone' /\ \A i \in Jobs : SavedSoFar(i)' /\ CopiesGone(i)'
<1>1. pc'[j] = "save_w" /\ new'[j] = d /\ \A i \in Jobs : i = j
  BY DEF Goto, Want, AloneInv, GroupsInv, CallsGood, NewGood, OneJob
<1>2. RemovedStaysGone' /\ removed' = removed
  BY SameGone DEF AloneInv
<1>3. old'[j].state \in {state, old[j].state}
  BY DEF LoadState, LoadWatchlist, AloneInv, GroupsInv, OldGood, Documents
<1>4. removed \cap state.traces = {} /\ removed \cap old[j].state.traces = {}
  BY DEF AloneInv, RemovedStaysGone, CopiesGone
<1>5. removed \cap old'[j].state.traces = {} /\ removed \cap d.state.traces = {}
  BY <1>3, <1>4
<1> QED
  BY <1>1, <1>2, <1>5 DEF SavedSoFar, CopiesGone, Running, Linking

LEMMA CommandsAlone ==
  ASSUME OneJob, AloneInv, NEW j \in Jobs,
         \/ StartAdd(j) \/ StartToggle(j) \/ ConfirmRemove(j) \/ RemoveLoadsWatchlist(j)
         \/ StartLink(j) \/ ShowMembers(j) \/ SelectMembers(j) \/ ChooseAction(j)
         \/ Add(j) \/ Toggle(j) \/ SavePending(j) \/ SaveCancel(j) \/ Answer(j)
  PROVE  RemovedStaysGone' /\ \A i \in Jobs : SavedSoFar(i)' /\ CopiesGone(i)'
<1>1. CASE StartAdd(j) \/ StartToggle(j) \/ ConfirmRemove(j) \/ RemoveLoadsWatchlist(j)
  BY <1>1, QuietAlone
     DEF StartAdd, StartToggle, ConfirmRemove, RemoveLoadsWatchlist, Steps, Running, Linking
<1>2. CASE ShowMembers(j) \/ SelectMembers(j)
  BY <1>2, QuietAlone DEF ShowMembers, SelectMembers, Steps, Running, Linking
<1>6. CASE StartLink(j)
  <2>1. PICK root \in ever, found \in Chosen(Works) :
          Ask(j, [Asked("link", found) EXCEPT !.root = root])
    BY <1>6 DEF StartLink
  <2>2. ask'[j].kind # "remove"
    BY <2>1 DEF Ask, Asked, AloneInv, GroupsInv, CallsGood
  <2> QED
    BY <1>6, <2>2, QuietAlone DEF StartLink, Steps, Running
<1>7. CASE ChooseAction(j)
  <2>1. PICK choice \in state.pending, kind \in {"keep_hidden", "unhide", "delete", "cancel"} :
          Ask(j, [Asked(kind, choice.members) EXCEPT !.group = choice.group])
    BY <1>7 DEF ChooseAction
  <2>2. ask'[j].kind # "remove"
    BY <2>1 DEF Ask, Asked, AloneInv, GroupsInv, CallsGood
  <2> QED
    BY <1>7, <2>2, QuietAlone DEF ChooseAction, Steps, Running
<1>3. CASE Add(j) \/ Toggle(j)
  <2>1. Finish(j) /\ (UNCHANGED <<docs, history>> \/ \E wl : PutWatchlist(wl))
    BY <1>3 DEF Add, Toggle
  <2> QED
    BY <2>1, FinishAlone, SameGone, PutWatchlistGone DEF AloneInv
<1>4. CASE SavePending(j) \/ SaveCancel(j)
  <2>1. PICK pending : /\ Finish(j)
                       /\ \/ UNCHANGED <<docs, history>>
                          \/ PutState([old[j].state EXCEPT !.pending = pending])
    BY <1>4 DEF SavePending, SaveCancel, WithoutChoice
  <2>2. removed \cap old[j].state.traces = {} /\ old[j].state \in State
    BY <1>4 DEF SavePending, SaveCancel, AloneInv, CopiesGone, GroupsInv, OldGood, Documents
  <2>3. removed \cap [old[j].state EXCEPT !.pending = pending].traces = {}
    BY <2>2 DEF State
  <2> QED
    BY <2>1, <2>3, FinishAlone, SameGone, PutStateGone DEF AloneInv
<1>5. CASE Answer(j)
  BY <1>5, FinishAlone, SameGone DEF Answer, AloneInv
<1> QED
  BY <1>1, <1>2, <1>3, <1>4, <1>5, <1>6, <1>7

LEMMA WantsAlone ==
  ASSUME OneJob, AloneInv, NEW j \in Jobs,
         \/ RemoveLoadsState(j) \/ LinkLoadsState(j)
         \/ ManageLoadsState(j) \/ ManageLoadsWatchlist(j)
  PROVE  RemovedStaysGone' /\ \A i \in Jobs : SavedSoFar(i)' /\ CopiesGone(i)'
<1>0. /\ state \in State /\ old[j].state \in State /\ old[j].watchlist \in Watchlist
      /\ UNCHANGED <<docs, history>> /\ pc[j] # "done"
  BY DEF AloneInv, GroupsInv, StoreGood, StateGood, OldGood, Documents,
         RemoveLoadsState, LinkLoadsState, ManageLoadsState, ManageLoadsWatchlist
<1>1. CASE Finish(j)
  BY <1>0, <1>1, FinishAlone, SameGone DEF AloneInv
<1>2. CASE RemoveLoadsState(j) /\ ~Finish(j)
  <2> DEFINE d == [watchlist |-> Unwatch(old[j].watchlist, ask[j].works),
                   state |-> Prune(state, ask[j].works)]
  <2>1. LoadState(j) /\ Want(j, d) /\ Goto(j, "save_w") /\ UNCHANGED ask
    BY <1>2 DEF RemoveLoadsState
  <2>2. d.state.traces = state.traces \ ask[j].works
    BY <1>0 DEF Prune, State
  <2>3. d.watchlist.works = old[j].watchlist.works \ ask[j].works
    BY DEF Unwatch
  <2> HIDE DEF d
  <2> QED
    BY <1>0, <2>1, <2>2, <2>3, WantAlone
<1>3. CASE LinkLoadsState(j) /\ ~Finish(j)
  <2>1. PICK groups, wl :
          /\ LoadState(j) /\ Goto(j, "save_w") /\ UNCHANGED ask
          /\ Want(j, [watchlist |-> wl, state |-> [state EXCEPT !.groups = groups]])
    BY <1>3 DEF LinkLoadsState
  <2>2. ask[j].kind # "remove"
    BY <1>3 DEF LinkLoadsState, AloneInv, CopiesGone, Linking
  <2> DEFINE d == [watchlist |-> wl, state |-> [state EXCEPT !.groups = groups]]
  <2>3. d.state.traces = state.traces
    BY <1>0 DEF State
  <2> HIDE DEF d
  <2> QED
    BY <1>0, <2>1, <2>2, <2>3, WantAlone DEF d
<1>4. CASE ManageLoadsState(j) /\ ~Finish(j)
  <2>1. PICK to \in {"cancel", "manage_watchlist"} : Goto(j, to)
    BY <1>4 DEF ManageLoadsState
  <2>2. LoadState(j) /\ ask' = ask /\ new' = new
    BY <1>4 DEF ManageLoadsState
  <2>3. to \in Steps \ {"save_w", "save_s", "undo_s", "done", "failed"} /\ to \notin Running
    BY DEF Steps, Running
  <2>4. ask'[j].kind # "remove"
    BY <1>4, <2>2 DEF ManageLoadsState, AloneInv, CopiesGone, Linking
  <2> QED
    BY <1>0, <2>1, <2>2, <2>3, <2>4, QuietAlone
<1>5. CASE ManageLoadsWatchlist(j) /\ ~Finish(j)
  <2> DEFINE left == [WithoutChoice(old[j].state, ask[j]) EXCEPT
                        !.groups = Leave(@, ask[j].group, ask[j].works)]
  <2>1. left \in State /\ left.traces = old[j].state.traces
    <3>1. WithoutChoice(old[j].state, ask[j]) \in State
      BY <1>0 DEF WithoutChoice, State
    <3>2. WithoutChoice(old[j].state, ask[j]).traces = old[j].state.traces
      BY <1>0 DEF WithoutChoice, State
    <3> QED
      BY <3>1, <3>2 DEF Leave, State
  <2>2. ask[j].kind # "remove"
    BY <1>5 DEF ManageLoadsWatchlist, AloneInv, CopiesGone, Linking
  <2> DEFINE pruned == Prune(left, ask[j].works)
             deleted == [watchlist |-> Unwatch(watchlist, ask[j].works), state |-> pruned]
             hidden == [watchlist |-> [watchlist EXCEPT !.hidden = @ \cup ask[j].works],
                        state |-> left]
             shown == [watchlist |-> [watchlist EXCEPT !.hidden = @ \ ask[j].works],
                       state |-> left]
  <2>3. PICK d \in {deleted, hidden, shown} :
          Want(j, d) /\ LoadWatchlist(j) /\ Goto(j, "save_w") /\ UNCHANGED ask
    BY <1>5 DEF ManageLoadsWatchlist
  <2> HIDE DEF left
  <2>4. pruned.traces \subseteq left.traces
    BY <2>1 DEF Prune, State
  <2>5. d.state \in {pruned, left}
    OBVIOUS
  <2> HIDE DEF pruned, deleted, hidden, shown
  <2>6. d.state.traces \subseteq old[j].state.traces
    BY <2>1, <2>4, <2>5
  <2> QED
    BY <1>0, <2>2, <2>3, <2>6, WantAlone
<1> QED
  BY <1>1, <1>2, <1>3, <1>4, <1>5

LEMMA SavesAlone ==
  ASSUME OneJob, AloneInv, NEW j \in Jobs,
         SaveWatchlist(j) \/ SaveState(j) \/ UndoWatchlist(j) \/ UndoState(j)
  PROVE  RemovedStaysGone' /\ \A i \in Jobs : SavedSoFar(i)' /\ CopiesGone(i)'
<1>0. /\ RemovedStaysGone /\ SavedSoFar(j) /\ CopiesGone(j)
      /\ \A i \in Jobs : i = j
      /\ pc \in [Jobs -> Steps]
  BY DEF AloneInv, GroupsInv, CallsGood, OneJob
<1>1. CASE SaveWatchlist(j)
  <2>1. RemovedStaysGone' /\ removed' \subseteq removed
    BY <1>0, <1>1, PutWatchlistGone, SameGone DEF SaveWatchlist
  <2>2. /\ pc'[j] \in {"save_s", "undo_w"}
        /\ pc'[j] = "save_s" => watchlist' = new[j].watchlist
        /\ UNCHANGED <<ask, old, new>> /\ pc[j] = "save_w"
    BY <1>0, <1>1 DEF SaveWatchlist, Goto, PutWatchlist
  <2> QED
    BY <1>0, <2>1, <2>2 DEF SavedSoFar, CopiesGone, Running, Linking
<1>2. CASE SaveState(j)
  <2>1. UNCHANGED <<ask, old, new>> /\ pc[j] = "save_s" /\ watchlist = new[j].watchlist
    BY <1>0, <1>2 DEF SaveState, SavedSoFar
  <2>2. CASE /\ state' = new[j].state
             /\ removed' = IF ask[j].kind = "remove" THEN removed \cup ask[j].works ELSE removed
             /\ Goto(j, "done")
             /\ UNCHANGED <<watchlist, ever>>
    <3>1. pc'[j] = "done"
      BY <1>0, <2>2 DEF Goto
    <3>2. removed' \cap (new[j].watchlist.works \cup new[j].state.traces) = {}
      BY <1>0, <2>1, <2>2 DEF CopiesGone, RemovedStaysGone
    <3>3. RemovedStaysGone'
      BY <2>1, <2>2, <3>2 DEF RemovedStaysGone
    <3> QED
      BY <1>0, <2>1, <2>2, <3>1, <3>2, <3>3 DEF SavedSoFar, CopiesGone, Running, Linking
  <2>3. CASE /\ PutState(new[j].state) \/ UNCHANGED <<docs, history>>
             /\ Goto(j, "undo_w")
    <3>1. pc'[j] = "undo_w"
      BY <1>0, <2>3 DEF Goto
    <3>2. RemovedStaysGone' /\ removed' = removed
      BY <1>0, <2>3, PutStateGone, SameGone DEF CopiesGone
    <3> QED
      BY <1>0, <2>1, <3>1, <3>2 DEF SavedSoFar, CopiesGone, Running, Linking
  <2> QED
    BY <1>2, <2>2, <2>3 DEF SaveState
<1>3. CASE UndoWatchlist(j)
  <2>1. RemovedStaysGone' /\ removed' \subseteq removed
    BY <1>0, <1>3, PutWatchlistGone, SameGone DEF UndoWatchlist
  <2>2. CASE Finish(j)
    BY <2>1, <2>2, FinishAlone
  <2>3. CASE ~Finish(j)
    <3>1. /\ pc'[j] \in {"undo_s", "undo_torn"}
          /\ pc'[j] = "undo_s" => watchlist' = old[j].watchlist
          /\ UNCHANGED <<ask, old, new>> /\ pc[j] = "undo_w"
      BY <1>0, <1>3, <2>3 DEF UndoWatchlist, Goto, PutWatchlist
    <3> QED
      BY <1>0, <2>1, <3>1 DEF SavedSoFar, CopiesGone, Running, Linking
  <2> QED
    BY <2>2, <2>3
<1>4. CASE UndoState(j)
  <2>1. RemovedStaysGone' /\ removed' = removed
    BY <1>0, <1>4, PutStateGone, SameGone DEF UndoState, CopiesGone
  <2>2. CASE Finish(j)
    BY <2>1, <2>2, FinishAlone
  <2>3. CASE ~Finish(j)
    <3>1. /\ pc'[j] = "failed" /\ pc[j] = "undo_s"
          /\ state' = old[j].state /\ watchlist' = watchlist
          /\ UNCHANGED <<ask, old, new>>
      BY <1>0, <1>4, <2>3 DEF UndoState, Goto, PutState
    <3> QED
      BY <1>0, <2>1, <3>1 DEF SavedSoFar, CopiesGone, Running, Linking
  <2> QED
    BY <2>2, <2>3
<1> QED
  BY <1>1, <1>2, <1>3, <1>4

(* What a run writes of the works it checked was not removed: they were in *)
(* the watchlist when it started, and no /remove came in between.          *)
LEMMA RunsAlone ==
  ASSUME OneJob, AloneInv, NEW j \in Jobs, Run(j)
  PROVE  RemovedStaysGone' /\ \A i \in Jobs : SavedSoFar(i)' /\ CopiesGone(i)'
<1>0. /\ RemovedStaysGone /\ SavedSoFar(j) /\ CopiesGone(j)
      /\ \A i \in Jobs : i = j
      /\ pc \in [Jobs -> Steps] /\ ask \in [Jobs -> Request]
      /\ old[j].state \in State /\ watchlist \in Watchlist
  BY DEF AloneInv, GroupsInv, StoreGood, OldGood, CallsGood, OneJob, Documents
<1>1. CASE StartRun(j)
  <2>1. ask'[j] = Asked("run", watchlist.enabled)
    BY <1>0, <1>1 DEF StartRun, Ask
  <2>2. removed \cap ask'[j].works = {} /\ ask'[j].kind # "remove"
    BY <1>0, <2>1 DEF Asked, RemovedStaysGone, Watchlist
  <2> QED
    BY <1>1, <2>2, QuietAlone DEF StartRun, Steps
<1>2. CASE RunLoadsState(j) \/ RunReloads(j)
  <2>1. removed \cap ask[j].works = {}
    BY <1>0, <1>2 DEF RunLoadsState, RunReloads, CopiesGone, Running
  <2> QED
    BY <1>2, <2>1, QuietAlone DEF RunLoadsState, RunReloads, Steps, Linking
<1>3. ASSUME NEW updated \in SUBSET ask[j].works, pc[j] \in Running
      PROVE  removed \cap [old[j].state EXCEPT !.traces = @ \cup updated].traces = {}
  <2>1. removed \cap old[j].state.traces = {} /\ removed \cap ask[j].works = {}
    BY <1>0, <1>3 DEF CopiesGone, Running
  <2>2. [old[j].state EXCEPT !.traces = @ \cup updated].traces = old[j].state.traces \cup updated
    BY <1>0 DEF State
  <2> QED
    BY <1>3, <2>1, <2>2
<1>4. CASE RunRecords(j)
  <2>1. removed \cap [old[j].state EXCEPT !.traces = @ \cup ask[j].works].traces = {}
    BY <1>3, <1>4 DEF RunRecords, Running
  <2>2. RemovedStaysGone' /\ removed' = removed
    BY <1>0, <1>4, <2>1, PutStateGone, SameGone DEF RunRecords
  <2>3. CASE Finish(j)
    BY <2>2, <2>3, FinishAlone
  <2>4. CASE ~Finish(j)
    <3>1. pc'[j] = "reload" /\ pc[j] = "record" /\ UNCHANGED <<ask, old, new>>
      BY <1>0, <1>4, <2>4 DEF RunRecords, Goto
    <3> QED
      BY <1>0, <2>2, <3>1 DEF SavedSoFar, CopiesGone, Running, Linking
  <2> QED
    BY <2>3, <2>4
<1>5. CASE RunDelivers(j)
  <2>1. PICK updated \in SUBSET ask[j].works :
          \/ PutState([old[j].state EXCEPT !.traces = @ \cup updated])
          \/ UNCHANGED <<docs, history>>
    BY <1>5 DEF RunDelivers
  <2>2. removed \cap [old[j].state EXCEPT !.traces = @ \cup updated].traces = {}
    BY <1>3, <1>5 DEF RunDelivers, Running
  <2>3. RemovedStaysGone' /\ removed' = removed
    BY <1>0, <2>1, <2>2, PutStateGone, SameGone
  <2> QED
    BY <1>5, <2>3, FinishAlone DEF RunDelivers
<1> QED
  BY <1>1, <1>2, <1>4, <1>5 DEF Run

LEMMA AloneInvNext == ASSUME OneJob PROVE AloneInv /\ [Next]_vars => AloneInv'
<1> SUFFICES ASSUME AloneInv, [Next]_vars
             PROVE  RemovedStaysGone' /\ \A i \in Jobs : SavedSoFar(i)' /\ CopiesGone(i)'
  BY GroupsInvNext DEF AloneInv
<1>1. ASSUME NEW j \in Jobs, Command(j)
      PROVE  RemovedStaysGone' /\ \A i \in Jobs : SavedSoFar(i)' /\ CopiesGone(i)'
  BY <1>1, CommandsAlone, WantsAlone, SavesAlone DEF Command
<1>2. ASSUME NEW j \in Jobs, Run(j)
      PROVE  RemovedStaysGone' /\ \A i \in Jobs : SavedSoFar(i)' /\ CopiesGone(i)'
  BY <1>2, RunsAlone
<1>3. ASSUME NEW j \in Jobs, Stop(j)
      PROVE  RemovedStaysGone' /\ \A i \in Jobs : SavedSoFar(i)' /\ CopiesGone(i)'
  BY <1>3, FinishAlone, SameGone DEF Stop, AloneInv
<1>4. CASE UNCHANGED vars
  BY <1>4 DEF vars, AloneInv, RemovedStaysGone, SavedSoFar, CopiesGone
<1> QED
  BY <1>1, <1>2, <1>3, <1>4 DEF Next

THEOREM AloneInvariant == ASSUME OneJob PROVE Spec => []AloneInv
<1>1. Init => AloneInv
  BY AloneInvInit
<1>2. AloneInv /\ [Next]_vars => AloneInv'
  BY AloneInvNext
<1> QED
  BY <1>1, <1>2, PTL DEF Spec

(* One at a time, a command that answers has saved both documents as it    *)
(* wanted them or put both back as they were.                              *)
THEOREM SavesAreAllOrNothing == ASSUME OneJob PROVE Spec => []AllOrNothing
<1>1. AloneInv => AllOrNothing
  BY DEF AloneInv, SavedSoFar, AllOrNothing
<1>2. Spec => []AloneInv
  BY AloneInvariant
<1> QED
  BY <1>1, <1>2, PTL

(* One at a time, nothing that runs, menus and rollbacks save later brings *)
(* a removed work back, until it is added again.                           *)
THEOREM RemovedWorksStayGone == ASSUME OneJob PROVE Spec => []RemovedStaysGone
<1>1. AloneInv => RemovedStaysGone
  BY DEF AloneInv
<1>2. Spec => []AloneInv
  BY AloneInvariant
<1> QED
  BY <1>1, <1>2, PTL
=============================================================================
