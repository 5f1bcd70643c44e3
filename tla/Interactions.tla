---------------------------- MODULE Interactions ----------------------------
(***************************************************************************)
(* The Discord interactions server: a thread for each request              *)
(* (run_service.py), which routes it, defers the answer if the handler may *)
(* take long, runs the handler, and answers in the HTTP response or by     *)
(* editing the deferred message (discord_interactions.py).                 *)
(*                                                                         *)
(* Two things outlive a request: the sessions behind the menus of /where   *)
(* and /supertwins-search, and the cache of URLs too long for the menus of *)
(* /search, which the threads share without a lock.  A menu that was shown *)
(* can be used at any later time, and twice at once.                       *)
(***************************************************************************)
EXTENDS Naturals, Sequences, FiniteSets

CONSTANTS
  Threads,     \* the request threads; each serves one request after another
  Urls,        \* the long URLs, and the tokens that stand for them
  Tokens,      \* session tokens: random, never made twice
  Nobody,      \* no URL and no token
  Deployments, \* which handlers a service has: sets of kinds of requests
  MaxSize,     \* MAX_SELECT_URL_CACHE_SIZE
  MaxOptions   \* bound: long URLs in one menu

(* Whose answer is deferred; the others are answered in the response. *)
DeferredKinds == {"search", "where", "where select", "twins"}
Kinds == DeferredKinds \cup {"search select", "twins select", "direct"}

ASSUME InteractionsAssumption ==
  /\ IsFiniteSet(Threads)
  /\ Nobody \notin Urls \cup Tokens
  /\ Urls \cap Tokens = {}
  /\ Deployments \subseteq SUBSET Kinds
  /\ MaxSize \in Nat
  /\ MaxOptions \in Nat

VARIABLES
  offered,    \* the handlers of this service
  at,         \* where each thread is
  kind,       \* in a request of which kind
  subject,    \* about which URL or session
  menu,       \* the URLs of the menu it makes,
  todo,       \* and those that are not in the cache yet
  reply,      \* what the handler returned, "raised" if it raised
  deferred,   \* whether defer_component or defer_channel_message returned
  discord,    \* how Discord sees the interaction
  cache,      \* _SEARCH_SELECT_URL_CACHE: its keys in their order
  sessions,   \* the stored sessions
  shown,      \* URLs and sessions in menus that users have seen
  troubled,   \* history: a call of Discord's failed, or it waited too long
  recency,    \* history: all URLs ever cached, by their last use
  used,       \* history: sessions that were answered from and deleted
  late        \* history: the request came when its session was used already

handler == <<subject, menu, todo, reply>>
history == <<troubled, recency, used, late>>
vars == <<offered, at, kind, handler, deferred, discord, cache, sessions, shown, history>>

Init ==
  /\ offered \in Deployments
  /\ at = [r \in Threads |-> "idle"]
  /\ kind = [r \in Threads |-> "none"]
  /\ subject = [r \in Threads |-> Nobody]
  /\ menu = [r \in Threads |-> {}]
  /\ todo = [r \in Threads |-> {}]
  /\ reply = [r \in Threads |-> "none"]
  /\ deferred = [r \in Threads |-> FALSE]
  /\ discord = [r \in Threads |-> "open"]
  /\ cache = <<>>
  /\ sessions = {}
  /\ shown = {}
  /\ troubled = [r \in Threads |-> FALSE]
  /\ recency = <<>>
  /\ used = {}
  /\ late = [r \in Threads |-> FALSE]

Goto(r, to) == at' = [at EXCEPT ![r] = to]

(* The handler returns, or raises. *)
Reply(r, what) ==
  /\ reply' = [reply EXCEPT ![r] = what]
  /\ Goto(r, "reply")

Elements(s) == {s[i] : i \in 1..Len(s)}

(* Keys in their order, each of them once: what is left without one, and   *)
(* move_to_end.                                                            *)
Without(s, u) ==
  IF u \notin Elements(s) THEN s
  ELSE LET i == CHOOSE j \in 1..Len(s) : s[j] = u
       IN SubSeq(s, 1, i - 1) \o SubSeq(s, i + 1, Len(s))

ToEnd(s, u) == Append(Without(s, u), u)

-----------------------------------------------------------------------------
(* Faulty variants of the definitions below, each a mistake one could make *)
(* in the code: substituted for the definition, a property has to fail.    *)

(* an exception of the handler ends the thread although Discord waits *)
EditUnlessRaised(r) ==
  /\ at[r] = "reply"
  /\ deferred[r]
  /\ discord' = [discord EXCEPT ![r] = IF reply[r] = "raised" THEN @ ELSE "answered"]
  /\ Goto(r, "idle")
  /\ UNCHANGED <<kind, handler, deferred, cache, sessions, shown, history>>

(* the session is read from a copy that is never deleted *)
LoadUsed(r) ==
  /\ at[r] = "load"
  /\ \/ subject[r] \in sessions \cup used /\ Goto(r, "loaded") /\ UNCHANGED reply
     \/ subject[r] \notin sessions \cup used /\ Reply(r, "message")
     \/ Reply(r, "raised")
  /\ UNCHANGED <<kind, subject, menu, todo, deferred, discord, cache, sessions, shown, history>>

(* a cached token is never moved: what is still in use is evicted *)
UnmovedInCache(r) == cache

(* the cache is never emptied *)
EvictNever(r) ==
  /\ at[r] = "evict"
  /\ todo' = [todo EXCEPT ![r] = @ \ {subject[r]}]
  /\ IF todo[r] = {subject[r]} THEN Reply(r, "menu")
     ELSE Goto(r, "insert") /\ UNCHANGED reply
  /\ UNCHANGED <<kind, subject, menu, deferred, discord, cache, sessions, shown, history>>

-----------------------------------------------------------------------------
(* Where the handler of a request begins. *)
Begin(k) ==
  CASE k = "search select" -> "get"
    [] k \in {"where select", "twins select"} -> "load"
    [] OTHER -> "handle"

(* A request comes: a command, or a choice in a menu that was shown. *)
Receive(r) ==
  /\ at[r] = "idle"
  /\ \E k \in offered, x \in shown \cup {Nobody} :
       /\ k = "search select" => x \in Urls
       /\ k \in {"where select", "twins select"} => x \in Tokens
       /\ k \in {"search", "where", "twins", "direct"} => x = Nobody
       /\ kind' = [kind EXCEPT ![r] = k]
       /\ subject' = [subject EXCEPT ![r] = x]
       /\ late' = [late EXCEPT ![r] = x \in used]
       /\ Goto(r, IF k \in DeferredKinds THEN "defer" ELSE Begin(k))
  /\ reply' = [reply EXCEPT ![r] = "none"]
  /\ deferred' = [deferred EXCEPT ![r] = FALSE]
  /\ discord' = [discord EXCEPT ![r] = "open"]
  /\ troubled' = [troubled EXCEPT ![r] = FALSE]
  /\ UNCHANGED <<menu, todo, cache, sessions, shown, recency, used>>

(* Discord waits three seconds for a first answer. *)
Expire(r) ==
  /\ at[r] # "idle"
  /\ discord[r] = "open"
  /\ discord' = [discord EXCEPT ![r] = "expired"]
  /\ troubled' = [troubled EXCEPT ![r] = TRUE]
  /\ UNCHANGED <<at, kind, handler, deferred, cache, sessions, shown, recency, used, late>>

(* The callback that defers fails without effect, or times out although    *)
(* Discord took it; then the handler runs and answers in the response.     *)
Defer(r, next) ==
  /\ at[r] = "defer"
  /\ Goto(r, next)
  /\ \/ /\ discord[r] = "open"
        /\ discord' = [discord EXCEPT ![r] = "deferred"]
        /\ deferred' = [deferred EXCEPT ![r] = TRUE]
        /\ UNCHANGED troubled
     \/ /\ discord' \in {discord, [discord EXCEPT ![r] = IF @ = "open" THEN "deferred" ELSE @]}
        /\ troubled' = [troubled EXCEPT ![r] = TRUE]
        /\ UNCHANGED deferred
  /\ UNCHANGED <<kind, handler, cache, sessions, shown, recency, used, late>>

DeferredSearch(r) == kind[r] = "search" /\ Defer(r, "handle")
DeferredWhere(r) == kind[r] = "where" /\ Defer(r, "handle")
DeferredWhereSelect(r) == kind[r] = "where select" /\ Defer(r, "load")
DeferredWorkSelect(r) == kind[r] = "twins" /\ Defer(r, "handle")

-----------------------------------------------------------------------------
(* /latest, /add, /remove, /fetch, ...: modelled elsewhere; they may raise. *)
Direct(r) ==
  /\ at[r] = "handle"
  /\ kind[r] = "direct"
  /\ Reply(r, "message") \/ Reply(r, "raised")
  /\ UNCHANGED <<kind, subject, menu, todo, deferred, discord, cache, sessions, shown, history>>

(* The searches of /search, /where and /supertwins-search: nothing found,  *)
(* or failed, or results, whose long URLs are cached one by one            *)
LookupSearch(r) ==
  /\ at[r] = "handle"
  /\ kind[r] = "search"
  /\ \/ Reply(r, "message") /\ UNCHANGED <<menu, todo>>
     \/ \E found \in SUBSET Urls :
          /\ Cardinality(found) \in 1..MaxOptions
          /\ menu' = [menu EXCEPT ![r] = found]
          /\ todo' = [todo EXCEPT ![r] = found]
          /\ Goto(r, "insert")
          /\ UNCHANGED reply
  /\ UNCHANGED <<kind, subject, deferred, discord, cache, sessions, shown, history>>

(* or that a session keeps. *)
LookupWhere(r) ==
  /\ at[r] = "handle"
  /\ kind[r] = "where"
  /\ Reply(r, "message") \/ (Goto(r, "save") /\ UNCHANGED reply)
  /\ UNCHANGED <<kind, subject, menu, todo, deferred, discord, cache, sessions, shown, history>>

(* /supertwins-search loads the watchlist and the state first. *)
LookupTwins(r) ==
  /\ at[r] = "handle"
  /\ kind[r] = "twins"
  /\ Reply(r, "message") \/ Reply(r, "raised") \/ (Goto(r, "save") /\ UNCHANGED reply)
  /\ UNCHANGED <<kind, subject, menu, todo, deferred, discord, cache, sessions, shown, history>>

(* _remember_context: the session is saved under a new token. *)
SaveSession(r) ==
  /\ at[r] = "save"
  /\ \/ /\ \E t \in Tokens \ (sessions \cup used \cup shown) :
             /\ \A q \in Threads : subject[q] # t
             /\ sessions' = sessions \cup {t}
             /\ subject' = [subject EXCEPT ![r] = t]
        /\ Reply(r, "menu")
     \/ Reply(r, "message") /\ UNCHANGED <<sessions, subject>>
  /\ UNCHANGED <<kind, menu, todo, deferred, discord, cache, shown, history>>

-----------------------------------------------------------------------------
(* _remember_search_result_url, for each option of the menu. *)

(* _SEARCH_SELECT_URL_CACHE[token] = url: a token that is there stays in   *)
(* its place                                                               *)
Insert(r) ==
  /\ at[r] = "insert"
  /\ \E u \in todo[r] :
       /\ subject' = [subject EXCEPT ![r] = u]
       /\ cache' = IF u \in Elements(cache) THEN cache ELSE Append(cache, u)
       /\ recency' = IF u \in Elements(cache) THEN recency ELSE ToEnd(recency, u)
  /\ Goto(r, "move")
  /\ UNCHANGED <<kind, menu, todo, reply, deferred, discord, sessions, shown, troubled, used, late>>

MovedInCache(r) == ToEnd(cache, subject[r])

(* move_to_end: KeyError if another thread has evicted it meanwhile *)
Move(r) ==
  /\ at[r] \in {"move", "touch"}
  /\ IF subject[r] \in Elements(cache)
       THEN /\ cache' = MovedInCache(r)
            /\ recency' = ToEnd(recency, subject[r])
            /\ Goto(r, IF at[r] = "move" THEN "evict" ELSE "add")
            /\ UNCHANGED reply
       ELSE /\ Reply(r, "raised")
            /\ UNCHANGED <<cache, recency>>
  /\ UNCHANGED <<kind, subject, menu, todo, deferred, discord, sessions, shown, troubled, used, late>>

(* while len(...) > MAX_SELECT_URL_CACHE_SIZE *)
Evict(r) ==
  /\ at[r] = "evict"
  /\ IF Len(cache) > MaxSize THEN Goto(r, "pop") /\ UNCHANGED <<todo, reply>>
     ELSE /\ todo' = [todo EXCEPT ![r] = @ \ {subject[r]}]
          /\ IF todo[r] = {subject[r]} THEN Reply(r, "menu")
             ELSE Goto(r, "insert") /\ UNCHANGED reply
  /\ UNCHANGED <<kind, subject, menu, deferred, discord, cache, sessions, shown, history>>

(* popitem(last=False), which another thread may have done as well *)
PopOldest(r) ==
  /\ at[r] = "pop"
  /\ IF cache = <<>> THEN Reply(r, "raised") /\ UNCHANGED cache
     ELSE /\ cache' = Tail(cache)
          /\ Goto(r, "evict")
          /\ UNCHANGED reply
  /\ UNCHANGED <<kind, subject, menu, todo, deferred, discord, sessions, shown, history>>

-----------------------------------------------------------------------------
(* A choice in the menu of /search: _resolve_select_option_value, *)
Get(r) ==
  /\ at[r] = "get"
  /\ IF subject[r] \in Elements(cache) THEN Goto(r, "touch") /\ UNCHANGED reply
     ELSE Reply(r, "message")
  /\ UNCHANGED <<kind, subject, menu, todo, deferred, discord, cache, sessions, shown, history>>

(* then add_watchlist_url, whose exceptions are caught. *)
Add(r) ==
  /\ at[r] = "add"
  /\ Reply(r, "message")
  /\ UNCHANGED <<kind, subject, menu, todo, deferred, discord, cache, sessions, shown, history>>

-----------------------------------------------------------------------------
(* A choice in a menu of /where or in the results of /supertwins-search:   *)
(* the session is there, or it is not, or it cannot be read.               *)
LoadSession(r) ==
  /\ at[r] = "load"
  /\ \/ subject[r] \in sessions /\ Goto(r, "loaded") /\ UNCHANGED reply
     \/ subject[r] \notin sessions /\ Reply(r, "message")
     \/ Reply(r, "raised")
  /\ UNCHANGED <<kind, subject, menu, todo, deferred, discord, cache, sessions, shown, history>>

(* The choice is none of the session's; or it is taken, and /where deletes *)
(* the session before it looks for the episode.                            *)
ChooseEpisode(r) ==
  /\ at[r] = "loaded"
  /\ kind[r] = "where select"
  /\ (Goto(r, "delete") /\ UNCHANGED reply) \/ Reply(r, "message")
  /\ UNCHANGED <<kind, subject, menu, todo, deferred, discord, cache, sessions, shown, history>>

(* /supertwins-search links the works first, which may be refused, and     *)
(* raises when a save fails.                                               *)
ChooseWorks(r) ==
  /\ at[r] = "loaded"
  /\ kind[r] = "twins select"
  /\ (Goto(r, "delete") /\ UNCHANGED reply) \/ Reply(r, "message") \/ Reply(r, "raised")
  /\ UNCHANGED <<kind, subject, menu, todo, deferred, discord, cache, sessions, shown, history>>

(* A failed deletion is ignored. *)
DeleteSession(r) ==
  /\ at[r] = "delete"
  /\ \/ sessions' = sessions \ {subject[r]} /\ used' = used \cup {subject[r]}
     \/ UNCHANGED <<sessions, used>>
  /\ Reply(r, "served")
  /\ UNCHANGED <<kind, subject, menu, todo, deferred, discord, cache, shown, troubled, recency, late>>

-----------------------------------------------------------------------------
(* What a user sees of an answer: the options of a menu. *)
Options(r) ==
  IF reply[r] # "menu" THEN {}
  ELSE IF kind[r] = "search" THEN menu[r] ELSE {subject[r]}

(* The thread is done; what it did is kept for the properties. *)
End(r) ==
  /\ Goto(r, "idle")
  /\ subject' = [subject EXCEPT ![r] = Nobody]
  /\ menu' = [menu EXCEPT ![r] = {}]
  /\ todo' = [todo EXCEPT ![r] = {}]

(* The answer in the HTTP response; none if the handler raised, and one    *)
(* that Discord ignores if it has been told to wait, or waited too long.   *)
Respond(r) ==
  /\ at[r] = "reply"
  /\ ~ deferred[r]
  /\ IF reply[r] # "raised" /\ discord[r] = "open"
       THEN /\ discord' = [discord EXCEPT ![r] = "answered"]
            /\ shown' = shown \cup Options(r)
       ELSE UNCHANGED <<discord, shown>>
  /\ End(r)
  /\ UNCHANGED <<kind, reply, deferred, cache, sessions, history>>

(* edit_original_response, with the text for a failure if the handler      *)
(* raised; a failed edit is ignored.                                       *)
Edit(r) ==
  /\ at[r] = "reply"
  /\ deferred[r]
  /\ \/ /\ discord' = [discord EXCEPT ![r] = "answered"]
        /\ shown' = shown \cup Options(r)
        /\ UNCHANGED troubled
     \/ /\ troubled' = [troubled EXCEPT ![r] = TRUE]
        /\ UNCHANGED <<discord, shown>>
  /\ End(r)
  /\ UNCHANGED <<kind, reply, deferred, cache, sessions, recency, used, late>>

Next == UNCHANGED offered /\
  \E r \in Threads :
    \/ Receive(r) \/ Expire(r)
    \/ DeferredSearch(r) \/ DeferredWhere(r) \/ DeferredWhereSelect(r) \/ DeferredWorkSelect(r)
    \/ Direct(r) \/ LookupSearch(r) \/ LookupWhere(r) \/ LookupTwins(r) \/ SaveSession(r)
    \/ Insert(r) \/ Move(r) \/ Evict(r) \/ PopOldest(r)
    \/ Get(r) \/ Add(r)
    \/ LoadSession(r) \/ ChooseEpisode(r) \/ ChooseWorks(r) \/ DeleteSession(r)
    \/ Respond(r) \/ Edit(r)

Spec == Init /\ [][Next]_vars

-----------------------------------------------------------------------------
(* What every variable ranges over. *)
Ranges ==
  /\ offered \subseteq Kinds
  /\ at \in [Threads -> {"idle", "defer", "handle", "reply", "insert", "move", "evict", "pop",
                         "get", "touch", "add", "save", "load", "loaded", "delete"}]
  /\ kind \in [Threads -> Kinds \cup {"none"}]
  /\ subject \in [Threads -> Urls \cup Tokens \cup {Nobody}]
  /\ menu \in [Threads -> SUBSET Urls]
  /\ todo \in [Threads -> SUBSET Urls]
  /\ reply \in [Threads -> {"none", "message", "menu", "served", "raised"}]
  /\ deferred \in [Threads -> BOOLEAN]
  /\ discord \in [Threads -> {"open", "deferred", "answered", "expired"}]
  /\ cache \in Seq(Urls)
  /\ sessions \subseteq Tokens
  /\ shown \subseteq Urls \cup Tokens
  /\ troubled \in [Threads -> BOOLEAN]
  /\ recency \in Seq(Urls)
  /\ used \subseteq Tokens
  /\ late \in [Threads -> BOOLEAN]

(* Types, and how far the cache outgrows its size: by one URL for each     *)
(* thread that has not evicted yet.                                        *)
TypeOK ==
  /\ Ranges
  /\ Len(cache) <= MaxSize + Cardinality({r \in Threads : at[r] \in {"move", "evict", "pop"}})

(* A request that was served leaves its interaction answered, unless a     *)
(* call of Discord's failed or its time was up, or the handler of an       *)
(* answer that is not deferred raised: a deferred one is answered even so. *)
AnsweredUnlessTroubled ==
  \A r \in Threads :
    at[r] = "idle" /\ kind[r] # "none" /\ ~ troubled[r]
      => \/ discord[r] = "answered"
         \/ kind[r] \notin DeferredKinds /\ reply[r] = "raised"

(* A session is answered from once: who comes after it was deleted is told *)
(* so.  Only requests that overlap can both be served.                     *)
UsedSessionIsGone ==
  \A r \in Threads : late[r] => reply[r] # "served"

(* An option stays valid until MaxSize others were cached or chosen since, *)
(* less one for each other thread: two that are at it evict one too many.  *)
RecentOptionsStay ==
  \A i \in 1..Len(recency) :
    Len(recency) - i + Cardinality(Threads) <= MaxSize => recency[i] \in Elements(cache)
=============================================================================
