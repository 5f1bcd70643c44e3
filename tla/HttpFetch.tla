----------------------------- MODULE HttpFetch -----------------------------
(***************************************************************************)
(* How a run fetches its sources: _collect_source_results of check.py      *)
(* hands the enabled entries to a pool of workers; a worker runs the       *)
(* entry's adapter, which gets pages through one RequestsHttpClient, with  *)
(* a semaphore for each host and retries.                                  *)
(*                                                                         *)
(* What an adapter asks for next depends on what the pages say: here, it   *)
(* may ask for any page of any host.  Sleeping has no length.              *)
(***************************************************************************)
EXTENDS Naturals, FiniteSets

CONSTANTS
  EntryCount,   \* how many entries are enabled
  Workers,      \* the threads of the pool; one, the caller itself, if it has no pool
  Hosts, NoHost,
  PerHost,      \* max_requests_per_host
  RetryCount,
  MaxPages      \* bound: pages that one adapter gets

ASSUME HttpFetchAssumption ==
  /\ EntryCount \in Nat
  /\ IsFiniteSet(Workers)
  /\ NoHost \notin Hosts
  /\ PerHost \in Nat \ {0}
  /\ RetryCount \in Nat
  /\ MaxPages \in Nat

Entries == 1..EntryCount

(* No entry, and no result yet. *)
None == 0
NoResult == [entry |-> None, latest |-> FALSE]

VARIABLES
  submitted,   \* how many entries the caller has submitted, in order
  taken,       \* how many of them the workers have taken, in order
  result,      \* what the future of each entry holds
  collected,   \* how many futures the caller has waited for
  ordered,     \* its list ordered_results
  pc,          \* where each worker is,
  entry,       \* with which entry,
  pages,       \* how many pages the adapter has got,
  host,        \* whom get_text asks,
  attempt,     \* for the how-manieth time, from 0,
  answer,      \* and what came of it
  limited,     \* the hosts that have a semaphore,
  free         \* and the slots it has left

caller == <<submitted, collected, ordered>>
call == <<host, attempt, answer>>
limiters == <<limited, free>>
vars == <<submitted, taken, result, collected, ordered,
          pc, entry, pages, host, attempt, answer, limited, free>>

Result == [entry : Entries, latest : BOOLEAN]

(* page: decoded; transient: a timeout, a transport error, 429 or 5xx;     *)
(* final: any other status or error.                                       *)
Answers == {"page", "transient", "final"}

Init ==
  /\ submitted = 0
  /\ taken = 0
  /\ result = [e \in Entries |-> NoResult]
  /\ collected = 0
  /\ ordered = [e \in Entries |-> NoResult]
  /\ pc = [w \in Workers |-> "idle"]
  /\ entry = [w \in Workers |-> None]
  /\ pages = [w \in Workers |-> 0]
  /\ host = [w \in Workers |-> NoHost]
  /\ attempt = [w \in Workers |-> 0]
  /\ answer = [w \in Workers |-> "none"]
  /\ limited = {}
  /\ free = [h \in Hosts |-> 0]

Goto(w, to) == pc' = [pc EXCEPT ![w] = to]

-----------------------------------------------------------------------------
(* Faulty variants of the definitions below, each a mistake one could make *)
(* in the code: substituted for the definition, a property has to fail.    *)

(* the slot is not given back when the request failed *)
ReceiveKeepingSlot(w) ==
  /\ pc[w] = "sending"
  /\ \E a \in Answers :
       /\ answer' = [answer EXCEPT ![w] = a]
       /\ free' = IF a = "page" THEN [free EXCEPT ![host[w]] = @ + 1] ELSE free
  /\ Goto(w, "answered")
  /\ UNCHANGED <<caller, taken, result, entry, pages, host, attempt, limited>>

(* every call makes its semaphore anew *)
FreshLimiter(w) ==
  /\ pc[w] = "limiter"
  /\ free' = [free EXCEPT ![host[w]] = PerHost]
  /\ limited' = limited \cup {host[w]}
  /\ Goto(w, "waiting")
  /\ UNCHANGED <<caller, taken, result, entry, pages, call>>

(* the last attempt goes to sleep, too *)
MayRetryAlways(w) == answer[w] = "transient"

(* an attempt that failed is not counted *)
WakeUncounted(w) ==
  /\ pc[w] = "sleeping"
  /\ Goto(w, "limiter")
  /\ UNCHANGED <<caller, taken, result, entry, pages, call, limiters>>

(* a result goes to the next place, in the order in which they come *)
CollectAsCompleted ==
  /\ submitted = EntryCount
  /\ \E e \in Entries :
       /\ result[e] # NoResult
       /\ \A i \in Entries : ordered[i] # result[e]
       /\ ordered' = [ordered EXCEPT ![collected + 1] = result[e]]
  /\ collected' = collected + 1
  /\ UNCHANGED <<submitted, taken, result, pc, entry, pages, call, limiters>>

-----------------------------------------------------------------------------
(* The caller submits each entry, then waits for each future in turn. *)
Submit ==
  /\ submitted < EntryCount
  /\ submitted' = submitted + 1
  /\ UNCHANGED <<taken, result, collected, ordered, pc, entry, pages, call, limiters>>

Collect ==
  /\ submitted = EntryCount
  /\ collected < EntryCount
  /\ result[collected + 1] # NoResult
  /\ collected' = collected + 1
  /\ ordered' = [ordered EXCEPT ![collected + 1] = result[collected + 1]]
  /\ UNCHANGED <<submitted, taken, result, pc, entry, pages, call, limiters>>

-----------------------------------------------------------------------------
(* _check_watchlist_entry *)
Take(w) ==
  /\ pc[w] = "idle"
  /\ taken < submitted
  /\ taken' = taken + 1
  /\ entry' = [entry EXCEPT ![w] = taken + 1]
  /\ Goto(w, "adapter")
  /\ UNCHANGED <<caller, result, pages, call, limiters>>

(* Its end, with a latest episode or an error of the source. *)
Return(w, latest) ==
  /\ result' = [result EXCEPT ![entry[w]] = [entry |-> entry[w], latest |-> latest]]
  /\ entry' = [entry EXCEPT ![w] = None]
  /\ pages' = [pages EXCEPT ![w] = 0]
  /\ host' = [host EXCEPT ![w] = NoHost]
  /\ attempt' = [attempt EXCEPT ![w] = 0]
  /\ answer' = [answer EXCEPT ![w] = "none"]
  /\ Goto(w, "idle")
  /\ UNCHANGED <<caller, taken, limiters>>

(* The adapter finds the latest episode on the pages it has; comic-action  *)
(* makes do with them when it cannot get another.                          *)
Found(w) == pc[w] \in {"adapter", "raised", "exhausted"} /\ pages[w] > 0 /\ Return(w, TRUE)

(* Or it raises: it cannot normalize the URL, parse a page, or get one. *)
Raise(w) == pc[w] \in {"adapter", "raised", "exhausted"} /\ Return(w, FALSE)

GetText(w) ==
  /\ pc[w] = "adapter"
  /\ pages[w] < MaxPages
  /\ \E h \in Hosts : host' = [host EXCEPT ![w] = h]
  /\ attempt' = [attempt EXCEPT ![w] = 0]
  /\ answer' = [answer EXCEPT ![w] = "none"]
  /\ Goto(w, "limiter")
  /\ UNCHANGED <<caller, taken, result, entry, pages, limiters>>

-----------------------------------------------------------------------------
(* RequestsHttpClient.get_text.  The limiter is found or made under a      *)
(* lock of its own, and then entered.                                      *)
LimiterFor(w) ==
  /\ pc[w] = "limiter"
  /\ limited' = limited \cup {host[w]}
  /\ free' = IF host[w] \in limited THEN free ELSE [free EXCEPT ![host[w]] = PerHost]
  /\ Goto(w, "waiting")
  /\ UNCHANGED <<caller, taken, result, entry, pages, call>>

Acquire(w) ==
  /\ pc[w] = "waiting"
  /\ free[host[w]] > 0
  /\ free' = [free EXCEPT ![host[w]] = @ - 1]
  /\ Goto(w, "sending")
  /\ UNCHANGED <<caller, taken, result, entry, pages, call, limited>>

(* The answer comes, or the timeout; the slot is free again either way. *)
Receive(w) ==
  /\ pc[w] = "sending"
  /\ \E a \in Answers : answer' = [answer EXCEPT ![w] = a]
  /\ free' = [free EXCEPT ![host[w]] = @ + 1]
  /\ Goto(w, "answered")
  /\ UNCHANGED <<caller, taken, result, entry, pages, host, attempt, limited>>

MayRetry(w) == answer[w] = "transient" /\ attempt[w] < RetryCount

Decode(w) ==
  /\ pc[w] = "answered"
  /\ answer[w] = "page"
  /\ pages' = [pages EXCEPT ![w] = @ + 1]
  /\ Goto(w, "adapter")
  /\ UNCHANGED <<caller, taken, result, entry, call, limiters>>

GiveUp(w) ==
  /\ pc[w] = "answered"
  /\ answer[w] # "page"
  /\ ~MayRetry(w)
  /\ Goto(w, "raised")
  /\ UNCHANGED <<caller, taken, result, entry, pages, call, limiters>>

Sleep(w) ==
  /\ pc[w] = "answered"
  /\ MayRetry(w)
  /\ Goto(w, "sleeping")
  /\ UNCHANGED <<caller, taken, result, entry, pages, call, limiters>>

(* The next round of the loop, or its end. *)
Wake(w) ==
  /\ pc[w] = "sleeping"
  /\ IF attempt[w] < RetryCount
     THEN attempt' = [attempt EXCEPT ![w] = @ + 1] /\ Goto(w, "limiter")
     ELSE Goto(w, "exhausted") /\ UNCHANGED attempt
  /\ UNCHANGED <<caller, taken, result, entry, pages, host, answer, limiters>>

-----------------------------------------------------------------------------
Work(w) ==
  \/ Take(w) \/ Found(w) \/ Raise(w) \/ GetText(w)
  \/ LimiterFor(w) \/ Acquire(w) \/ Receive(w)
  \/ Decode(w) \/ GiveUp(w) \/ Sleep(w) \/ Wake(w)

Next == Submit \/ Collect \/ \E w \in Workers : Work(w)

(* The threads are scheduled, a request ends by its timeout at the latest, *)
(* and an adapter returns or raises in the end.                            *)
Fairness == WF_vars(Submit) /\ WF_vars(Collect) /\ \A w \in Workers : WF_vars(Work(w))

Spec == Init /\ [][Next]_vars /\ Fairness

-----------------------------------------------------------------------------
Steps == {"idle", "adapter", "limiter", "waiting", "sending", "answered", "sleeping",
          "raised", "exhausted"}

TypeOK ==
  /\ submitted \in 0..EntryCount
  /\ taken \in 0..submitted
  /\ result \in [Entries -> Result \cup {NoResult}]
  /\ collected \in 0..EntryCount
  /\ ordered \in [Entries -> Result \cup {NoResult}]
  /\ pc \in [Workers -> Steps]
  /\ entry \in [Workers -> Entries \cup {None}]
  /\ pages \in [Workers -> 0..MaxPages]
  /\ host \in [Workers -> Hosts \cup {NoHost}]
  /\ attempt \in [Workers -> 0..RetryCount]
  /\ answer \in [Workers -> Answers \cup {"none"}]
  /\ limited \in SUBSET Hosts
  /\ free \in [Hosts -> 0..PerHost]

InFlight(h) == {w \in Workers : pc[w] = "sending" /\ host[w] = h}

(* README.md, MANGA_WATCH_HTTP_WORKERS_PER_HOST: no more than PerHost      *)
(* requests to one host are under way at a time.  And none fewer could be: *)
(* whatever fails, a slot that no request is using is free, so that a      *)
(* worker that sleeps or parses holds up no other.                         *)
SlotsMatchRequests ==
  \A h \in limited : free[h] + Cardinality(InFlight(h)) = PerHost

(* The last line of get_text, after its loop, is never reached: the last   *)
(* attempt returns or raises itself.                                       *)
LoopNeverExhausted == \A w \in Workers : pc[w] # "exhausted"

(* run_check zips the entries with the results: when all are collected,    *)
(* each entry is beside its own result, whichever worker was faster, and   *)
(* none is missing, which would shift those behind it.                     *)
ResultsAligned ==
  collected = EntryCount =>
    \A e \in Entries : ordered[e] # NoResult /\ ordered[e].entry = e

(* Each entry gets a result, through any failures: no worker waits for a   *)
(* slot for good, and the run goes on.                                     *)
AllCollected == <>(collected = EntryCount)
=============================================================================
