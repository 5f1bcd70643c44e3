# A verification of comic_crawler

comic_crawler watches manga and novel sites for new episodes, keeps what it saw
in one state document, announces updates through generic notifiers (stdout, a
webhook) and a Discord channel, and answers Discord slash commands. This
directory holds TLA+ models of the parts where steps of several actors,
failures and crashes meet, the TLC runs that check them, and proofs of their
main properties.

## The system and its components

Everything durable is in two documents, the *watchlist* (what is watched) and
the *state* (what was seen, what waits to be sent), each a JSON file or a
Firestore document. Every actor loads a whole document, changes its copy, and
saves the copy whole; nothing locks a document between the load and the save.
That one habit is behind most of what is hard here.

| component | state | operations | talks to | what makes it correct |
|---|---|---|---|---|
| Run coordinator (`runner.py`, RunCoordinator) | a lock, a deque of triggers | `run`, `start_background`, drain loop | scheduler thread, Discord request threads | one run at a time, each trigger run once, in order, the lock comes back |
| Crawl run (`runner.py` run_once, `discord_outbound.py`, `notifier.py`) | outbox, pending daily messages, last delivered keys (all in the state) | detect, record, enqueue, deliver, daily message, report; manual replay of the outbox | checker, storage, backends, Discord | nothing is dropped or sent off the record, order, deduplication, honest outcome |
| Checker (`check.py`) | latest key, history, unread events, health per work (in the state) | load, fetch all sources, apply a transition per work, save | HTTP client, adapters, storage | a change is recorded with its backlog entry |
| Backlog command (`backlog.py`) | the same | list, mark as read and trim | storage | only an operator takes events off the backlog; bounded history |
| JSON storage (`storage.py`) | files, lock files, session files | load, validate, atomic write, sessions | everyone | a reader never sees half a document |
| Firestore storage (`firestore_storage.py`) | state document, two shadow collections, runs, sessions | load, save in three parts | everyone | the collections follow the document |
| Subscriptions (`watchlist.py`, `discord_add.py`, `discord_remove.py`, web admin) | watchlist, and the work's share of the state | add, remove, rollback | storage, preview over HTTP | no duplicate id, no lost registration, removal is complete or undone |
| Supertwins (`supertwins.py`, `discord_supertwins_*.py`) | groups, pending actions, search sessions | link, hide, unhide, delete members | storage, search | a work is in one group; a stale menu changes nothing |
| HTTP client (`sources/base.py`) and thread pool (`check.py`) | per-host semaphores | get with retries and backoff | sites | bounded attempts, bounded concurrency, progress |
| Source adapters (`sources/*.py`) | none | name an entry, fetch the latest episode | HTTP client | a fetch is not behind what was listed when it began; a work has one name |
| Drift monitor (`source_drift.py`) | none | one canary per source | HTTP client, adapters | an ok canary means a fetch works |
| Discord interactions (`discord_interactions.py`) | deferred answers in threads | verify, route, defer, edit | all commands | every interaction is answered |
| `/search`, `/where` (`discord_search.py`, `discord_where.py`) | select-url cache, one-shot sessions | search, select, resolve | search, storage | a session is used once; the cache survives its threads |
| Source search (`source_search.py`) | none | query, merge, deduplicate | search pages | reads only |
| Policy and classification (`update_classification.py`, `storage.py`) | none | classify, decide whether to notify | checker, run | a total and consistent decision |
| Status and latest (`status.py`, `discord_latest.py`) | none | derive health, render | storage | read only |
| Issue reporter, migration, repair, registration, secrets, web UI, scripts | none shared | one-shot commands and I/O | GitHub, Discord, GCP | — |

How they interact: the scheduler loop (`runner.main`), the startup run and
Discord's `/fetch` call the coordinator, which calls `run_once`. That calls the
checker, which loads and saves the state, and then works on a *second* copy of
the state for its two delivery phases. Cloud Run jobs, the web admin and the
replay command start `run_once` or `replay_outbox_once` with no coordinator in
common, so they can overlap. Discord commands and the backlog command change the
same documents at any time.

What is hard to test in it is listed under `hazards` in PROJECT.json, each at
its line.

## The plan

1. `SerialRuns`, `Coordinator`: who runs when. **Done.**
2. `Delivery`: run, outbox, daily queue, replay, faults. **Done.**
3. `WorkHistory`: checker transitions against the backlog command. **Done.**
4. `Subscriptions`: `/add`, `/remove`, the web admin and the runs over two
   documents with a rollback. **Done.**
5. Supertwins: groups and pending choices, which the same two saves and the same
   rollback write, hence in `Subscriptions`. **Done**, but for the search session
   (step 9).
6. `AtomicFile` over an abstract `AtomicRegister`: the steps of
   `atomic_write_json` under process and power failure, shown to implement the
   all-or-nothing save that the other modules assume. **Done.**
7. `FirestoreSync`: the three-part save; the collections follow the document
   once saves stop. **Done.**
8. `HttpFetch`: retries, per-host limit, worker pool; no slot leaks, every
   fetch ends. **Done.**
9. `Interactions`: deferred answers, the one-shot sessions, the shared cache.
   **Done.**
10. `Sources`: the nineteen adapters and their canaries against a site that changes
    between any two requests. **Done**; it has taken the place of the planned
    `EpisodeWalk`.

Classification, the notification policy and the health status were planned as
functions checked against reference definitions. They were given up: see *What is
not modelled*.

Every safety property and every refinement that a run checks is a theorem too; the
liveness properties are not, see *What is proved*.
No module uses a RECURSIVE operator: histories are sets with an order, outboxes
functions, the daily queue and the cache sequences, and what an adapter does is a
sequence of requests taken from its front.

## Module Coordinator, over SerialRuns

`SerialRuns` says what callers are promised: a set `serving` that is empty or a
singleton, a sequence `waiting`, a set `finished`. `Coordinator` is the class:

| model | code |
|---|---|
| `locked`, `pending` | `_lock`, `_pending_trigger_sources` |
| `pc[t]` | where the call that brought trigger `t`, or the worker thread it started, is |
| `Run`, `StartBackground`, `ThreadStarts`, `ThreadFails` | the two entry points; `thread.start()` may raise |
| `Refused`, `Enqueue` | `acquire(blocking=False)` fails, and *later* the trigger is appended |
| `RunReturns`, `RunRaises`, `DequeueNext`, `DequeueNone`, `Release` | `_run_with_lock`, its loop and its `finally` |

The lock and the deque have a lock of their own each, so the test of one and the
change of the other are separate steps. The refinement is
`serving <- UNION {current[t]}`, `waiting <- pending`.

Runs: `coordinator` checks the refinement and the liveness of a coordinator with
four triggers: enough for a run, two triggers queued behind it in either order,
and a call that comes after the release or loses the race with it. A worker acts
for any number of triggers, so more triggers add longer queues only. The run
ends when every call was answered (`MCCoordinator!Finished`), which is the only
place where it may stop: deadlock is checked.

`coordinator_stranded` shows what the code does not promise: see *Findings*.

Fairness: weak fairness of every step of a thread that has something to do
(`Progress`), since the interpreter schedules its threads and `run_once` ends: its
requests have timeouts and bounded retries. Nobody is obliged to call
(`Caller` has no fairness), and which of `RunReturns` and `RunRaises` happens is
free.

## Module Delivery

One record is the state document: `latest` (the latest key of each work),
`outbox` (for each event the backends that wait for it), `daily` (a sequence of
pending messages, each a set of events) and `delivered` (the last delivered key
of each work). An event is a work and a key, because `derive_event_id` and
`daily_notification_key` depend on nothing else. `store` is the durable document
and `mem[j]` the copy of job `j`. A job is a process that executes `run_once` or
`replay_outbox_once`; `Step` follows the phases in order:

    StartRun Fetch Record | Reload Enqueue Send* SaveOutbox | Daily SendDaily* SaveDaily | Report
    StartReplay Send* SaveReplay

* `Save` is `save_state`: done, or failed with the document changed or not, and
  refused without a change when the copy is the `{}` that `_load_runner_state_phase`
  puts in place of a state it could not load (`usable` is FALSE).
* A send is acknowledged, or fails before or after the other side has taken it.
* `Fetch` lets every source show any key, or fail. Its updates pass the policy
  unless they are in `Suppressed`.
* `Crash` stops a process in any step. Failures and crashes count against
  `MaxFaults`, the only bound of the model apart from `shown`, which counts to 2.
* History variables: `acked` (acknowledged since the event was enqueued last),
  `shown` (how often the daily channel got an event).

Properties: `DailyQueueUnique` (in the document and in every copy, no event waits
twice, none waits that was delivered last, no message is empty),
`UpdatesOnRecord` (nothing is announced that is not recorded), `OkMeansDelivered`
(a run that reports no error has delivered everything), `OutboxKept` (a backend
leaves a stored entry only acknowledged), `DailyInOrder` (the stored queue is a
queue), `OutboxDrains` and `DailyDrains` (what is pending is sent in the end).

Runs and bounds:

* `delivery`: two works, two keys, two backends of which one may be left out of a
  process's configuration, one event muted, one work hidden, one job, one fault
  anywhere. Two works are what a message with several events takes; two keys let
  a work flap; one fault between any two steps reaches every recovery path once.
* `delivery_retries`: one work, two keys, two backends, up to two faults, with
  fairness: a failed send followed by a failed save or a crash, and the retry of
  what was half done. Liveness over one work, since works share only the two
  queues.

One job at a time in both: the coordinator sees to that inside a process, and
`OutboxKept`, `UpdatesOnRecord` and `OkMeansDelivered` do not hold for jobs that
overlap (`delivery_concurrent`). `DailyQueueUnique` does, and is proved for any
number of jobs.

Fairness: a process that runs goes on (weak fairness of `Step`), and the
scheduler starts runs again and again (strong fairness of `StartRun`: an operator
may replay the outbox in between, but not always instead). Failures end because
`MaxFaults` is finite: what drains, drains once the failures end.

## Module WorkHistory

The entry of each work: `latest`, `history` (a set of event ids with the order
of insertion, `newer`), `unread`. `Trim`, `Insert` and `Transition` are
`trim_history`, `sync_history_event` and `apply_item_transition` with
`failure_entry`. Crawlers load, observe every source, save, load again, and save
from the second copy any number of times (the delivery phases); operators load,
mark one work or all as read, trim to the retention of the watchlist or to the
default when it cannot be read, and save. Any job may stop anywhere. History
variables: `first` (first keys, which are no update) and `cleared` (marked by an
operator).

Properties: `EntriesWellFormed` (unread events are in the history, which stays
one order whatever is trimmed from its middle), `LatestIsInBacklog` (no recorded
change misses the backlog unless an operator marked it: a stale save loses the
event *and* the latest key together), `ReadBounded`, `UnreadTakenByOperator`
(for one crawler and one operator: see *What is proved*).

Run `work_history`: one work, three keys (two in the history and one that comes
back after it was trimmed), retention 1 and default 2, one crawler and one
operator. One work is enough because the entries do not depend on one another
except through the whole-document saves, which the theorems cover for any number
of works and jobs. `SYMMETRY` permutes the keys; the run checks no liveness.

## Module Subscriptions

`watchlist` is the watchlist document: the works it has entries for, which of them
are enabled and which hidden. `state` has what the commands change of the state
document: `traces` (the works of which it has an entry, outbox entries, a last
delivered key or pending messages: they are pruned together), `groups` (the
members of `supertwins-n`, `{}` when there is no such group) and `pending` (choices
waiting in `/supertwins-manage`). A job is a command or a run: `ask[j]` is what it
was asked, `old[j]` what it loaded, `new[j]` what it wants.

| model | code |
|---|---|
| `StartAdd`, `Add` | `add_watchlist_url`, for `/add`, the choice of `/search`, and the web admin |
| `StartToggle`, `Toggle` | `update_watchlist_work_command` |
| `ConfirmRemove`, `RemoveLoadsWatchlist`, `RemoveLoadsState` | the confirm button of `/remove`, `remove_watch_subscription` |
| `StartLink`, `LinkLoadsState` | a choice in `/supertwins-search`, `link_group_members` |
| `ShowMembers`, `SelectMembers`, `SavePending` | `/supertwins-manage`: the menu, the selection, `upsert_pending_action` |
| `ChooseAction`, `ManageLoadsState`, `ManageLoadsWatchlist`, `SaveCancel` | its second menu and the confirmation: `_apply_action`, `_delete_action`, `_handle_cancel` |
| `SaveWatchlist`, `SaveState`, `UndoWatchlist`, `UndoState`, `Answer` | the two saves and the rollback, which `/remove`, link and manage share |
| `StartRun` … `RunDelivers` | `run_check` and the notification phase, for what they write of a work; a replay or a `--mark-read` writes its old copy back as `RunDelivers` does with no update |
| `Stop` | the process stops, or a load or a preview raises, between any two steps |

Any save may fail, with the document written or not. A menu is used again at any
later time: `ChooseAction` takes any pending choice, also of a group whose number
was given to another in between. `link_group_members` merges into the first of the
groups it finds in the order of their ids *as texts*; which one that is changes
nothing but the number, so any of them may be it. The root work of a link comes
from a search session: any work that was ever watched.

Properties: `GroupsDisjoint` (a work is in one group, in the document and in every
copy), `MembersWereWatched` (a group names no work that never was in the stored
watchlist), `AllOrNothing` (a command that answers has saved both documents as it
wanted, or restored both; it also says so of saves that failed after they wrote),
`RemovedStaysGone` (nothing brings a removed work back but an `/add` or a link).

Run `subscriptions`: three works, two groups, one job, `MaxOptions` 1 (the
page size of a menu) and `MaxPending` 1 (the only bound that is not in the code).
Three works are what it takes to link a work of one group with one of another;
two groups what it takes to merge. One job at a time: `AllOrNothing` and
`RemovedStaysGone` do not hold of commands that overlap, and nothing in the code
keeps them apart (see `hazards`). That the other two survive any overlap is
proved. A command may stop after the first of its saves and leave one document
changed; the properties say what holds even so. `SYMMETRY` permutes the works; the
run checks no liveness.

## Module HttpFetch

One call of `_collect_source_results`: the caller, which submits the entries and
waits for their futures in order, and the workers. `pc[w]` says where a worker is
in `_check_watchlist_entry`, its adapter and `get_text`.

| model | code |
|---|---|
| `submitted`, `result`, `collected`, `ordered` | the loop of `submit`, the futures, the loop over them, `ordered_results` |
| `taken`, `Take`, `Return` | the executor's queue; `_check_watchlist_entry`, which turns every exception into a result |
| `GetText`, `Found`, `Raise` | the adapter asks for a page, finds the latest episode, or raises |
| `limited`, `free`, `LimiterFor`, `Acquire`, `Receive` | `_host_limiters` with their lock, and the `with` around the request |
| `Decode`, `GiveUp`, `Sleep`, `Wake` | the ways on in the retry loop: a page, an error for good, `continue` and the next round |

An answer is a page, *transient* (a timeout, a transport error, 429, 5xx) or
*final* (anything else that raises). The adapters are read as one that may ask any
host for any page, give up whenever it likes, and find an episode once it has a
page; `Found` after a failed request is comic-action, which makes do with the
entry's page when the feed fails. Sleeping has no length. A redirect to another host
is followed under the slot of the first, and is not modelled.

Properties: `SlotsMatchRequests` (free slots and requests under way add up to the
limit: neither more requests than the documented limit, nor a slot held while a
worker sleeps, or lost to a failure), `LoopNeverExhausted` (the line after the
retry loop is dead), `ResultsAligned` (`run_check` zips entries and results),
`AllCollected` (the run goes on, whatever the sites do).

Run `http_fetch`: three entries, two workers, two hosts with one slot each, one
retry, `MaxPages` 2 (the only bound that is not in the code: an adapter that gets
more pages repeats the same steps). The pool is smaller than the list, so that a
worker is used again, and larger than one host's limit, so that workers wait for
one another while the other host is idle. It ends when all is collected
(`MCHttpFetch!Finished`), which is the only place where it may stop: deadlock is
checked. With one worker it is also the branch without a pool.

Fairness: weak, of the caller's steps and of each worker: the interpreter
schedules its threads, a request ends by its timeout at the latest, and an adapter
is a finite program, which asks for finitely many pages (`max_hops`). Nobody
else needs to be lucky: a slot is given back after at most one request, and each
entry makes finitely many.

## Modules AtomicFile, AtomicRegister and FirestoreSync

Everything above takes `save_state` for one step. These modules say what it is.

`AtomicFile` is one JSON file. `path` is the file that has the document's name,
`onDisk` the files that may have it after a power loss (what the directory said
since it was synced last), `temp[j]` a job's temporary file, `holder` the advisory
lock. A file that was not synced may come back cut off.

| model | code |
|---|---|
| `CallSave`, `CallDelete`, `Lock`, `Unlock` | `advisory_file_lock` around `atomic_write_json` and the deletion of a session |
| `MakeTemp`, `WriteTemp`, `SyncTemp`, `Replace`, `SyncDirectory` | the system calls of `atomic_write_json`, each of which may fail |
| `Cleanup`, `Unlink` | its `except`, whose unlink may fail itself (only `FileNotFoundError` is passed over); the deletion |
| `Load`, `Open`, `Read` | `exists`, `open` and `read` of a load, without the lock |
| `Stop`, `PowerLoss` | a process is gone between two calls; all are, and the caches with them |

`ImplementsRegister`: the file is an `AtomicRegister`, with
`value <- Content(path)` and `safe <- {Content(file) : file \in onDisk}`: readers
find a whole document, the last one written, and a power loss brings back one of
those written since the last flush. That is what the saves of `Delivery`,
`WorkHistory` and `Subscriptions` assume. `AckedSurvives`: a save that returned is
safe. `OnlyTheHolderChanges`: what has the document's name, now or after a power
loss, changes only to the document that the holder of the lock was called with,
whole; whichever call fails half way, and whatever temporary files stay behind.
They may stay: when a call failed and the removal after it fails too, or the
process stops. That a save can raise *after* it has
written is no violation: the other modules' `Save` includes that outcome.

`FirestoreSync` is `save_state` of the other backend: set the document, then for
each of two collections list, set, delete. A call happens or does not; a save that
raises makes no further call. `MirrorsState` says of a save that returned and that
no other save of the same document overlapped, that the collections now show the
document, whatever halves earlier ones left; `OthersUntouched`, that another
environment's share of the collections is left alone. Without "no other
overlapped" it is false: two saves that interleave leave a mixture, until the next.
A document's id joins the environment and the item with ":", and has "__" for each
"/"; `ShadowIdAssumption` is that no two items in use get one id so, and both
properties rest on it.

Run `storage`: a process uses one backend, so the run takes the union of both
machines (`MCStorage`): two processes over one file and two documents, or two
savers of one or two environments with two states that differ in every item.
Two processes are one with the lock and one beside it. `SYMMETRY` permutes
documents, processes, environments and savers; no liveness is checked. Anything
may raise or stop here, so there is no deadlock to miss: the run does check it.

## Module Interactions

Threads serve one request after another (`run_service.py` makes one per request):
`at[r]` is where one is, `discord[r]` how Discord sees the interaction.

| model | code |
|---|---|
| `Receive`, `Expire` | a command, or a choice in a menu that was ever shown; Discord stops waiting |
| `DeferredSearch`, `DeferredWhere`, `DeferredWhereSelect`, `DeferredWorkSelect`, `Direct` | which handlers defer first (`_handle_*` of `discord_interactions.py`) |
| `LookupSearch`, `LookupWhere`, `LookupTwins`, `SaveSession` | the handlers up to what they store |
| `Insert`, `Move`, `Evict`, `PopOldest`, `Get`, `Add` | each access of `discord_search.py` to the cache its threads share |
| `LoadSession`, `ChooseEpisode`, `ChooseWorks`, `DeleteSession` | the one-shot sessions of `/where` and of the supertwins search |
| `Respond`, `Edit` | the answer in the HTTP response, or the edit of the deferred message |

A defer that raises may have been taken by Discord; then the answer goes into a
response that Discord ignores. Properties: `AnsweredUnlessTroubled` (a request is
answered unless one of Discord's calls failed or it waited too long, and a deferred
one even if the handler raises), `UsedSessionIsGone` (of the answers from one
session, all but the first come from requests that overlapped it: the code loads
and deletes in two steps, so a double click *can* be answered twice),
`RecentOptionsStay` (an option of a menu survives as many later ones as the cache
holds, less one per other thread, because concurrent evictions take one too many).

Run `interactions`: two threads, three long URLs in a cache of two, two sessions.
`Deployments` splits the commands in two services, those with the cache and those
with sessions, since they share nothing but the threads. Two threads are what a
race takes; three URLs what an eviction takes. A menu has at most `MaxOptions` long
URLs, the only bound that is not in the code.

## Module Sources

A work at one site, and a program that makes one request after another: `/add`, a
fetch, or the canary. The site has `published` episodes, of which its listing
shows the first `listed` and its pages' next links lead through the first
`linked`; its pages show `signals`, and a redesign takes one away. `alien` says where
in the listing links stand that are no episodes of the work, before or after those
that are. Most adapters pass over them, by the form of an episode's link; four take
any link of the site's readers, another work's included (`TakesAnyLink`), and
ComicWalker's takes other series' codes when its own are missing. All but `alien`
may change between any two requests, and any request may fail for good
(`HttpFetch` has the retries).

An adapter is a record: the signals its site shows, and for an entry by series,
by episode, or both the sequence of pages it asks for, each with what it must
find or else raises. `Read` takes the first page of `todo` and does what the adapter
does with it: take the listing's newest (`ReadList`; where in the list that is
differs from source to source, `Listed`), follow a link to the series, walk along
next links (`ReadNext`), ask the feed and swallow its failure (`ReadFeed`,
`ReadFeedEpisode`). A canary is a record too, because `source_drift.py` repeats the
requests in code of its own. `Canonical` is `descriptor_for_url` and the
canonicalisation of entries in `check.py`: the name under which `/add` looks for a
duplicate.

| property | what it says | exceptions |
|---|---|---|
| `Fetched` | a fetch that returns has an episode of the work that exists and is not older than what was listed when it began | a listing the adapter misreads (`Misread`): see *Findings*; comic-action, see below |
| `CanaryPredicts` | after an ok canary, and with the site unchanged, a fetch of an entry of the same kind, or by series, returns the canary's episode | comic-action beyond `max_hops`: its canary follows all links |
| `OneEntryPerWork` | however a work is named, it is in the watchlist once | takecomic and bibibi-comic, see *Findings*; BOOK☆WALKER's books are works |

`Fetched` does not say that no update is missed. From an episode of comic-action it
asks only for what the chain of next links led to, up to `MaxHops` (30 in the code)
from the entry, since the feed may fail unnoticed: what is listed beyond that, such
a fetch does miss. `Misread` excepts the listings from which an older episode, or
another work's, is taken without an error: five cases, each of which TLC shows to
violate `Fetched` when the exception is taken out. For the other sources the property
is what is left to go wrong between two requests: the site publishes, lists or
loses a signal, a request fails, a feed and an entry's page disagree.

Run `sources`: all nineteen. `Newest` 4 with `MaxHops` 2 is the least for which a
walk ends early; `MaxLost` 1: each signal is lost in some behaviour, and a fetch
that survives the loss of one never depends on two; `MaxItems` 2 is what a
duplicate takes; `Nesting` 2, two elements around piccoma's list. The bounds stand
in the guards of `Publish`, `Redesign` and `Add`.

## What is proved

With tlapm, for every value of the constants:

* `CoordinatorProofs`: `TypeOK`, which includes that a worker has a trigger
  exactly while it is running; `LockHasOneHolder` (which no run repeats, the
  refinement would show it); `Spec => Runs!Spec`, that
  `Coordinator` implements `SerialRuns`. The invariant that carries the latter
  (`Inv`) adds to them that a trigger whose call was not yet accepted or refused for good is in no
  queue, no run and not finished: without these a step of the coordinator need not
  be one of `SerialRuns`.
* `DeliveryProofs`: `TypeOK`; `DailyQueueUnique` for any number of concurrent
  jobs; `OutboxKept` for one job (`OneJob`). `QueueInv` adds that a run's updates
  name each work at most once and that the daily steps happen only with a message
  to send, which is what makes a new message and a delivery keep the queue
  unique. `CopyKept` relates the copy of a job to the document: whatever the copy
  has struck off and the document has not was acknowledged, and no other job can
  have changed the document. With one job again, `UpdatesOnRecord`,
  `OkMeansDelivered` and `DailyInOrder`: `RunInv` says of each step of a run what it
  has behind it, that is which of its updates are recorded, stored in the outbox,
  acknowledged or shown; that a run whose `bad` is not set has met no failure; and
  that the copy's daily queue is the document's without what was shown from its
  front, with at most the run's own message at its back.
* `WorkHistoryProofs`: `TypeOK`; `EntriesWellFormed`; `LatestIsInBacklog` for any
  interleaving of any number of runs and operators. `HistoryInv` adds that every
  *read* event of every copy was marked by an operator: a source may go back to
  an old key, and only this says that it then is not missing from the backlog.
  The invariant holds of each copy separately, so a save from an old copy, which
  replaces the document by another sound one, cannot break it. `ReadBounded` is
  proved of each copy in the same way (`BoundInv`): trimming keeps an event only
  if it is unread or fewer than the limit are newer, and a finite set in an order
  has at most that many of those. `UnreadTakenByOperator` is proved under
  `OneOfEach`, at most one run and at most one operator, which may overlap: a
  run's copy then has every unread event of the document, and an operator's has no
  others (`TakenInv`). With two runs it is false, and with two operators and two
  works: one operator marks a work as read, the other, who loaded before, marks the
  other work and so brings the first one's event back after a run has loaded, and
  it is the run's save that takes the event away for good.

* `SubscriptionsProofs`: `TypeOK`, `GroupsDisjoint` and `MembersWereWatched` for any
  number of commands and runs at once; `AllOrNothing` and `RemovedStaysGone` for
  one (`OneJob`). `GroupsInv` says of the documents and of every copy that their
  groups are disjoint and name works in `ever` only; of a *wanted* state it allows
  the works of the wanted watchlist too, until that is saved, which is why the
  order of the two saves matters. `AloneInv` adds how far the saves of a command
  are, and that no copy it may still save or restore has traces of a removed work:
  the command's own copy from before the removal has, between the last save and
  the answer, when it can no longer be restored.

* `HttpFetchProofs`: `TypeOK`, `SlotsMatchRequests`, `LoopNeverExhausted` and
  `ResultsAligned`, for any number of entries, workers, hosts, slots and retries.
  `HttpInv` adds where a worker has an entry and a host, that a sleeping worker has
  an attempt left, that a waiting one's host has a semaphore, and that nothing is
  under way to a host without one: else making it would put the count out; and
  that the result of an entry is its own, in the futures and in the list.

* `StorageProofs`, for the file: `TypeOK`, `OnlyTheHolderChanges`, `AckedSurvives`, and that
  `AtomicFile` implements `AtomicRegister`, for any documents and any number of
  processes. `FileInv` says that what has or could have the document's name is
  missing, or whole and synced, and how far a temporary file is at each step: the
  order write, sync, replace is what a torn document would violate. `AckInv` adds
  that who has the lock has it alone, and what it has made of the document so far.
  For Firestore: `MirrorsState` and `OthersUntouched`, for any environments, savers
  and states. `StoreInv` says that an id names one document of one environment, and
  of a saver that nobody overlapped what its collections have at each of the three
  steps: after the listing nothing is there that it has not seen or set itself.

* `InteractionsProofs`: `TypeOK`, `AnsweredUnlessTroubled`, `UsedSessionIsGone` and
  `RecentOptionsStay`, for any number of threads, sessions and URLs, and a cache of
  any size. `ServerInv` has a part for each: the steps a thread may be at, by the
  kind of its request and by what Discord was told, and that a choice that
  came after the session was used gets no answer (`ThreadInv`); that a used
  session is gone (`SessionInv`); and that the cache is
  the end of the sequence of URLs by their last use (`CacheInv`), too long by no more
  than the threads between an insertion and its eviction, and too short by no more
  than the threads that evict at the same time. The lemmas are about such ends of
  sequences without duplicates: moved to the end, extended, and cut at the front.

* `SourcesProofs`: `OneEntryPerWork`, `Fetched` and `CanaryPredicts`, for any of the
  sources, any number of episodes, entries and lost signals, and any `max_hops`. One
  lemma for each source says what its two tables of requests have in common with
  the others (`Predicted`, `Known`): each program reads a list, and what a fetch demands
  its canary demands as well. The rest is the same for all sources but
  comic-action: `FetchInv` says that a list is still to be read or that what was
  read lies between what was listed at the start and what is published, whatever
  the site does in between, unless the listing is misread; `PredictInv` that what a canary has passed or has still
  to ask for is all its table demands, and what follows for a fetch on the same
  site. For comic-action the walk has invariants of its own (`WalkProgress`,
  `WalkCanary`, `WalkTold`): where it is, the hops left, and that the next links reach
  as far.

The assumptions are the modules' own ASSUMEs: what a key, a work, a backend set
may be, and of `FirestoreSync` that an outbox entry and a daily message never have
the same id, which their prefixes see to (`firestore_storage.py:373`, `:393`), and that
joining an environment and an item gives no two of them one document
(`ShadowIdAssumption`; `build_shadow_document_id`). TLC
evaluates them in every run. Three hypotheses stand in theorems themselves:
`OneJob` (in `DeliveryProofs` and `SubscriptionsProofs`), where the property is about
jobs that the run lock keeps apart, and `OneOfEach`; without them TLC has
counterexamples.

Checked by TLC only: liveness (`QueuedDuringRunIsServed`, `LockIsFreedAgain`,
`OutboxDrains`, `DailyDrains`, `AllCollected`), which this prover cannot reason about
under fairness.

## Findings

Each is a run that expects TLC to find a violation of what a document or a message
of the repository says.

* `coordinator_stranded` (`NoTriggerStranded`): a `/fetch` is refused the lock, the
  worker looks at the deque for the last time, the `/fetch` is queued and answered
  as accepted, the worker releases the lock. It waits until some later trigger
  comes; with the default schedule, up to a day.
* `delivery_concurrent` (`AtLeastOnce`): a replay and a run overlap, the replay saves
  the outbox without the run's new entry, and the run stops before it sends.
* `delivery_forgotten` (`NoUpdateForgotten`): one failure between the checker's save
  and the outbox's save and the update is never announced.

Other differences between the code and what is said of it, met while modelling
and left without a run of their own:

* A source that flaps a, b, a, b gets b announced twice, because only the last
  delivered key of a work is remembered (`spec.md:236` has one daily notification
  per work and latest key). `DailyQueueUnique` is what the code does keep.
* A linked work that `/remove` reports as removed is still a member of its group,
  is offered by `/supertwins-manage`, and every action on it but a deletion is
  refused as stale (`README.md:418`; `discord_remove.py:95` prunes no groups).
* `check.py:578` knows three sources whose entries get their names from a fetched
  page; for bibibi-comic and takecomic the URL of an episode stays the name, where
  `README.md:234` has `bibibi-comic:<series_hash>`. Two episodes are two entries.
* piccoma's parser (`sources/piccoma.py:116`) counts start tags that HTML never closes
  as levels: with one inside the items the last item appended is not the last one
  listed, and no signal is missing.
* Four adapters take the first or last link of a form that other works' episodes have
  too: nicovideo-manga's the first watch page (`sources/nicovideo_manga.py:48`),
  firecross's the first reader, or the first marked as latest (`:84`), BOOK☆WALKER's
  the last book (`:148`), kakuyomu's the episode published last in the page's data
  (`:94`). A recommendation on the page is announced as the work's update.
* ComicWalker's adapter takes a code of any series when none has the prefix of its
  own, and comic-action's takes the entry for the latest when nothing links on and
  the feed fails: a report of no update, with no error. An entry of comic-action
  whose feed and chain disagree can go back a key, and one more than 30 episodes
  back reports the same episode until it is added anew (`max_hops`).
* Some of what a canary's contract lists as monitored is not looked at: magapoke's
  goes on without the page's link to the RSS (`source_drift.py:846`, as its adapter
  does), and those of takecomic and bibibi-comic read the series' hash from the URL
  of the contract and never ask for the series page (`source_drift.py:873`, `:904`).
  `CanaryPredicts` holds all the same, as their adapters need neither, for entries of
  the kind in the contract and by series.

## What is not modelled

* Texts, formats, layouts, logs, and the parsing of HTML and feeds below what it
  must find; configuration, secrets, the signature check and command registration.
* Source search: queries in sequence whose results are text; nothing outlives a
  request.
* Update classification and the notification policy: regular expressions over
  titles. A small set of titles would check the titles chosen and nothing else;
  `Delivery` holds for any set of suppressed events instead.
* Status, latest, the lists of `/where` and of the web admin: they only read.
* The issue reporter: one search and one create at GitHub, with no state here; its
  race is under `hazards`.
* Migration and repair, run by one operator with the service stopped; deployment
  and test tools.
* In the modelled parts: health counters and gap estimates of an entry, the attempt
  counters and error texts of the queues, and runs without a configured Discord
  client (the daily phase is then skipped); validation of a stored document; the
  pages and texts of the menus; the report of an unsupported source; and
  `create_group`, `add_group_members` and `prune_small_groups`, which nothing calls.
