------------------------------ MODULE Sources ------------------------------
(***************************************************************************)
(* The source adapters (manga_watch/sources/) and the source drift canary  *)
(* (source_drift.py) of one work at one site.  A program -- /add, the      *)
(* fetch of a run, or the canary -- makes one HTTP request after another;  *)
(* between any two of them the site may publish an episode, bring its      *)
(* listing or its links up to date, or change its pages, and any request   *)
(* may fail for good (HttpFetch has the retries).                          *)
(*                                                                         *)
(* Episodes are numbered in the order they are published.  A page is what  *)
(* a program looks for in it: its "signals", that a redesign loses one by  *)
(* one.  An adapter, and a canary, is the sequence of pages it asks for,   *)
(* each with the signals without which it raises.                          *)
(***************************************************************************)
EXTENDS Naturals, Sequences, FiniteSets

CONSTANTS
  Sources,   \* the sources looked at
  MaxHops,   \* max_hops of ComicActionAdapter
  Nesting,   \* how many elements piccoma's page closes after its items
  Newest,    \* bound: the last episode that is published
  MaxLost,   \* bound: signals a site loses
  MaxItems   \* bound: watchlist entries for the work

VARIABLES
  source,    \* whose site this is
  published, \* episodes 1..published exist,
  listed,    \* 1..listed are in its feed, series page or contents,
  linked,    \* and 1..linked are linked, each page to the next
  alien,     \* where in the listing other links stand than the work's episodes
  signals,   \* what its pages show
  items,     \* the work's entries in the watchlist
  program,   \* the program that runs, or ran last,
  outcome,   \* how it ended: "none" while it runs
  item,      \* for which entry,
  todo,      \* which pages it has yet to look at,
  latest,    \* and what it takes for the latest episode
  floor,     \* history: the episode that was to be found when it began
  failed,    \* history: a request failed
  steady,    \* history: the site has not changed since it began
  verdict    \* history: what the canary found, if the site is still the same

site == <<source, published, listed, linked, alien, signals>>
run == <<program, item, floor>>
vars == <<site, items, run, outcome, todo, latest, failed, steady, verdict>>

Series == 0      \* the name of an entry for the whole series
Alien == 0       \* a link in the listing that is no episode of the work
NoVerdict == Newest + 1

Smaller(m, n) == IF m < n THEN m ELSE n
Larger(m, n) == IF m > n THEN m ELSE n

-----------------------------------------------------------------------------
(* What an adapter reads in a listing. *)

(* Feeds, and pages sorted by it, begin with the newest episode; contents  *)
(* end with it.  Other links can stand before them and after them: in a    *)
(* feed to no episode at all, in a page to episodes of other works.        *)
Other(place) == IF place \in alien THEN <<Alien>> ELSE <<>>
NewestFirst == Other("before") \o [i \in 1..listed |-> listed + 1 - i] \o Other("after")
OldestFirst == Other("before") \o [i \in 1..listed |-> i] \o Other("after")

(* These take a link to any episode of the site; the others pass over the  *)
(* links that do not have the form of their episodes, or name the work.    *)
TakesAnyLink == {"nicovideo_manga", "firecross", "bookwalker", "kakuyomu"}

Taken(list, i) == i \in DOMAIN list /\ (list[i] # Alien \/ source \in TakesAnyLink)
FirstTaken(list) == list[CHOOSE i \in DOMAIN list :
  Taken(list, i) /\ \A j \in 1..(i - 1) : ~Taken(list, j)]
LastTaken(list) == list[CHOOSE i \in DOMAIN list :
  Taken(list, i) /\ \A j \in (i + 1)..Len(list) : ~Taken(list, j)]

(* parse_*_feed_latest, parse_*_rss_latest: the first item whose link is   *)
(* an episode of the source.                                               *)
FeedLatest == FirstTaken(NewestFirst)

(* _EpisodeListParser: the last item it appended.  It counts every start   *)
(* tag as a level, those that are never closed too (<img>): then an item   *)
(* ends with an element around the list, the inner items first.            *)
PiccomaLatest ==
  IF "closed tags" \in signals THEN LastTaken(OldestFirst)
  ELSE Larger(1, LastTaken(OldestFirst) + 1 - Nesting)

(* The last link with a book's uuid, or the first of the book blocks. *)
BookwalkerLatest ==
  IF "anchors" \in signals THEN LastTaken(OldestFirst) ELSE FirstTaken(NewestFirst)

(* The greatest code with the series' prefix, any other code if none has.  *)
HasOwnCodes == "own codes" \in signals /\ listed > 0
ComicWalkerLatest ==
  IF HasOwnCodes THEN CHOOSE n \in 1..listed : \A m \in 1..listed : m <= n ELSE Alien

(* Of all episodes in the page's data the one published last: those before *)
(* the work's newest are later ones of other works.                        *)
KakuyomuLatest == FirstTaken(NewestFirst)

(* The first link to a watch page. *)
NicovideoMangaLatest == FirstTaken(NewestFirst)

(* The first link marked as the latest, or the first link to a reader in a *)
(* page sorted by it.                                                      *)
FirecrossLatest == FirstTaken(NewestFirst)

(* The first link in the grid of episodes, or in the page. *)
GaugauLatest == FirstTaken(NewestFirst)

Listed ==
  CASE source = "piccoma" -> PiccomaLatest
    [] source = "bookwalker" -> BookwalkerLatest
    [] source = "comic_walker" -> ComicWalkerLatest
    [] source = "kakuyomu" -> KakuyomuLatest
    [] source = "nicovideo_manga" -> NicovideoMangaLatest
    [] source = "firecross" -> FirecrossLatest
    [] source = "gaugau" -> GaugauLatest
    [] OTHER -> FeedLatest

(* Whether there is anything to be found in the listing. *)
Lists ==
  /\ "items" \in signals
  /\ \/ IF source = "comic_walker" THEN HasOwnCodes ELSE listed > 0
     \/ source \in TakesAnyLink \cup {"comic_walker"} /\ alien # {}

-----------------------------------------------------------------------------
(* Requests: for which page, and the signals without which the program     *)
(* raises when it has read it.                                             *)
Page(what, needs) == [page |-> what, needs |-> needs, left |-> 0]
Seed(needs) == Page("seed", needs)       \* the page of the entry's URL
List(needs) == Page("list", needs)       \* the feed, or a page with a list
Latest(needs) == Page("latest", needs)   \* the page of the latest episode
LatestUnlessSeed(needs) == Page("latest unless seed", needs)
LatestOrNot == Page("latest or not", {})
Seen(needs) == Page("seen", needs)       \* no request: the page read last
Entry == Page("entry", {})
ContractEntry == Page("contract entry", {})
Hop(left) == [page |-> "hop", needs |-> {}, left |-> left]
TryFeed == Page("try feed", {})
TryEpisode == Page("try episode", {})

(* Adapters: which of a site's signals their programs look for, whether    *)
(* canonicalize_item gives an entry the URL of its feed, and the requests  *)
(* of fetch_latest, by what the entry's URL leads to.  Sources whose URLs  *)
(* of episodes contain the work have entries for the series only.          *)
FeedSignals == {"series id", "items", "item title", "page title", "titles"}

ComicDays ==
  [shows |-> FeedSignals, canonical |-> TRUE,
   fetch |-> [episode |-> <<Seed({"series id"}), List({}), Latest({})>>,
              series |-> <<List({}), Latest({})>>]]

Shonenjumpplus == ComicDays
Comicborder == ComicDays
ComicEarthstar == ComicDays
Kuragebunch == ComicDays

SundayWebry ==
  [ComicDays EXCEPT !.fetch.episode = <<Seed({"series id"}), List({}), LatestUnlessSeed({})>>]

ComicTrail ==
  [shows |-> FeedSignals, canonical |-> TRUE,
   fetch |-> [episode |-> <<Seed({"series id"}), List({}), LatestUnlessSeed({"titles"})>>,
              series |-> <<List({}), Latest({"titles"})>>]]

ChampionCross ==
  [shows |-> {"series id", "items", "item title"}, canonical |-> FALSE,
   fetch |-> [episode |-> <<Seed({"series id"}), List({}), LatestUnlessSeed({})>>,
              series |-> <<List({}), Latest({})>>]]

Takecomic == ChampionCross
BibibiComic == ChampionCross

(* An entry that is named by its series does not need its reader page. *)
Firecross ==
  [shows |-> {"series id", "items", "latest link", "page title"}, canonical |-> FALSE,
   fetch |-> [episode |-> <<Seed({"series id"}), List({"latest link"}), Latest({})>>,
              named |-> <<List({"latest link"}), Latest({})>>,
              series |-> <<List({}), Latest({})>>]]

Magapoke ==
  [shows |-> {"label", "items", "item title"}, canonical |-> FALSE,
   fetch |-> [series |-> <<Seed({}), List({})>>]]

Gaugau ==
  [shows |-> {"items", "titles"}, canonical |-> FALSE,
   fetch |-> [series |-> <<List({}), Latest({})>>]]

NicovideoManga ==
  [shows |-> {"items", "titles"}, canonical |-> FALSE,
   fetch |-> [series |-> <<List({})>>]]

Piccoma ==
  [shows |-> {"series title", "product name", "items", "closed tags"}, canonical |-> FALSE,
   fetch |-> [series |-> <<Seed({"series title"}), List({})>>]]

Bookwalker ==
  [shows |-> {"items", "anchors"}, canonical |-> FALSE,
   fetch |-> [episode |-> <<List({})>>, series |-> <<List({})>>]]

Kakuyomu ==
  [shows |-> {"next data", "items", "page title"}, canonical |-> FALSE,
   fetch |-> [series |-> <<List({"next data"}), Latest({})>>]]

ComicWalker ==
  [shows |-> {"next data", "own codes", "items", "titles"}, canonical |-> FALSE,
   fetch |-> [series |-> <<List({"next data"}), LatestOrNot>>]]

ComicAction ==
  [shows |-> {"series id", "next link", "number", "items", "titles"}, canonical |-> FALSE,
   fetch |-> [episode |-> <<Entry>>, series |-> <<List({}), Latest({})>>]]

Adapters ==
  [comic_walker |-> ComicWalker, comic_action |-> ComicAction,
   comic_earthstar |-> ComicEarthstar, comicborder |-> Comicborder,
   comic_trail |-> ComicTrail, comic_days |-> ComicDays, kuragebunch |-> Kuragebunch,
   shonenjumpplus |-> Shonenjumpplus, sunday_webry |-> SundayWebry,
   champion_cross |-> ChampionCross, magapoke |-> Magapoke, firecross |-> Firecross,
   takecomic |-> Takecomic, bibibi_comic |-> BibibiComic,
   nicovideo_manga |-> NicovideoManga, kakuyomu |-> Kakuyomu, gaugau |-> Gaugau,
   piccoma |-> Piccoma, bookwalker |-> Bookwalker]

ASSUME SourcesAssumption ==
  /\ Sources \subseteq DOMAIN Adapters
  /\ MaxHops \in Nat \ {0}
  /\ Nesting \in Nat \ {0}
  /\ Newest \in Nat \ {0}
  /\ MaxLost \in Nat
  /\ MaxItems \in Nat \ {0}

-----------------------------------------------------------------------------
(* Canaries: of which kind the URL in the source's contract is, and the    *)
(* requests of the runner.  They demand more than the adapter does: a      *)
(* signal that is lost is drift before it is a failed run.                 *)
ComicDaysCanary ==
  [kind |-> "episode",
   requests |-> <<Seed({"series id"}), List({}), Latest({"item title", "page title", "titles"})>>]

ShonenjumpplusCanary == ComicDaysCanary
ComicborderCanary == ComicDaysCanary
ComicEarthstarCanary == ComicDaysCanary
SundayWebryCanary == ComicDaysCanary
KuragebunchCanary == ComicDaysCanary

ComicTrailCanary ==
  [kind |-> "episode",
   requests |-> <<Seed({"series id"}), List({}), Latest({"item title", "titles"})>>]

ChampionCrossCanary ==
  [kind |-> "episode", requests |-> <<Seed({"series id"}), List({"item title"})>>]

TakecomicCanary == [kind |-> "series", requests |-> <<List({"item title"})>>]
BibibiComicCanary == TakecomicCanary

(* Faulty variant: any link to a reader passes for the latest. *)
FirecrossCanaryAnyLink ==
  [kind |-> "episode", requests |-> <<Seed({"series id"}), List({}), Latest({"page title"})>>]

FirecrossCanary ==
  [kind |-> "episode",
   requests |-> <<Seed({"series id"}), List({"latest link"}), Latest({"page title"})>>]

MagapokeCanary ==
  [kind |-> "series", requests |-> <<Seed({"label"}), List({"item title"})>>]

NicovideoMangaCanary == [kind |-> "series", requests |-> <<List({"titles"})>>]

GaugauCanary == [kind |-> "series", requests |-> <<List({}), Latest({"titles"})>>]

BookwalkerCanary == [kind |-> "series", requests |-> <<List({})>>]

PiccomaCanary ==
  [kind |-> "series", requests |-> <<Seed({"series title", "product name"}), List({})>>]

KakuyomuCanary ==
  [kind |-> "series", requests |-> <<List({"next data"}), Latest({"page title"})>>]

ComicWalkerCanary ==
  [kind |-> "series", requests |-> <<List({"next data"}), Latest({"titles"})>>]

ComicActionCanary ==
  [kind |-> "episode", requests |-> <<ContractEntry, Seen({"titles"})>>]

Canaries ==
  [comic_walker |-> ComicWalkerCanary, comic_action |-> ComicActionCanary,
   comic_earthstar |-> ComicEarthstarCanary, comicborder |-> ComicborderCanary,
   comic_trail |-> ComicTrailCanary, comic_days |-> ComicDaysCanary,
   kuragebunch |-> KuragebunchCanary, shonenjumpplus |-> ShonenjumpplusCanary,
   sunday_webry |-> SundayWebryCanary, champion_cross |-> ChampionCrossCanary,
   magapoke |-> MagapokeCanary, firecross |-> FirecrossCanary,
   takecomic |-> TakecomicCanary, bibibi_comic |-> BibibiComicCanary,
   nicovideo_manga |-> NicovideoMangaCanary, kakuyomu |-> KakuyomuCanary,
   gaugau |-> GaugauCanary, piccoma |-> PiccomaCanary, bookwalker |-> BookwalkerCanary]

-----------------------------------------------------------------------------
Adapter == Adapters[source]
Canary == Canaries[source]

(* Entries: a URL of the series or of its feed names the work by itself.   *)
SeriesEntry == [name |-> Series, kind |-> "series", seed |-> Series]
EpisodeEntry(name, e) == [name |-> name, kind |-> "episode", seed |-> e]

(* Faulty variant: the branch for Champion Cross is missing. *)
NamedByCheckButOne == {"firecross", "comic_action"}

(* Whose entries stable_work_id_for_item names by the series, which it     *)
(* reads in the page of the episode.                                       *)
NamedByCheck == {"firecross", "champion_cross", "comic_action"}

(* canonical_descriptor_for_item: the entry that /add stores. *)
Canonical(i) ==
  CASE i.kind = "series" -> i
    [] i.kind = "episode" /\ Adapter.canonical -> SeriesEntry
    [] i.kind = "episode" /\ source \in NamedByCheck -> EpisodeEntry(Series, i.seed)
    [] OTHER -> EpisodeEntry(i.seed, i.seed)

AddRequests(i) ==
  IF i.kind = "episode" /\ Canonical(i).name = Series THEN <<Seed({"series id"})>> ELSE <<>>

FetchRequests(i) ==
  IF i.kind = "episode" /\ i.name = Series /\ "named" \in DOMAIN Adapter.fetch
  THEN Adapter.fetch.named ELSE Adapter.fetch[i.kind]

(* Whether the page of episode e links to the next one. *)
HasNext(e) == "next link" \in signals /\ e < linked

(* What a program that begins now has to find: what is listed.  From an    *)
(* episode of webアクション no more than MaxHops links lead to is asked for:   *)
(* the episode itself if its page links to none.                           *)
Floor(i) ==
  IF source = "comic_action" /\ i.kind = "episode"
  THEN IF "next link" \in signals
       THEN Larger(i.seed, Smaller(linked, i.seed + MaxHops)) ELSE i.seed
  ELSE listed

-----------------------------------------------------------------------------
Init ==
  /\ source \in Sources
  /\ published = 1 /\ linked = 1
  /\ listed \in {0, 1}
  /\ alien \in SUBSET {"before", "after"}
  /\ signals = Adapter.shows
  \* no entry, or one that was written into the file by hand
  /\ items \in {{}} \cup (IF "episode" \in DOMAIN Adapter.fetch
                          THEN {{EpisodeEntry(Series, 1)}} ELSE {})
  /\ program = "nothing" /\ outcome = "returned"
  /\ item = SeriesEntry
  /\ todo = <<>>
  /\ latest = Alien
  /\ floor = 0
  /\ failed = FALSE /\ steady = TRUE
  /\ verdict = NoVerdict

-----------------------------------------------------------------------------
(* The site changes. *)
Changed ==
  /\ steady' = FALSE
  /\ verdict' = NoVerdict
  /\ UNCHANGED <<source, alien, items, run, outcome, todo, latest, failed>>

Publish ==
  /\ published < Newest
  /\ published' = published + 1
  /\ Changed
  /\ UNCHANGED <<listed, linked, signals>>

ListNext ==
  /\ listed < published
  /\ listed' = listed + 1
  /\ Changed
  /\ UNCHANGED <<published, linked, signals>>

LinkNext ==
  /\ source = "comic_action"
  /\ linked < published
  /\ linked' = linked + 1
  /\ Changed
  /\ UNCHANGED <<published, listed, signals>>

(* A redesign: something that programs look for is no longer there. *)
Redesign ==
  /\ Cardinality(Adapter.shows \ signals) < MaxLost
  /\ \E x \in signals : signals' = signals \ {x}
  /\ Changed
  /\ UNCHANGED <<published, listed, linked>>

-----------------------------------------------------------------------------
Running == outcome = "none"

Begin(p, i, requests) ==
  /\ ~Running
  /\ program' = p
  /\ item' = i
  /\ floor' = Floor(i)
  /\ outcome' = "none"
  /\ todo' = requests
  /\ latest' = Alien
  /\ failed' = FALSE
  /\ steady' = TRUE
  /\ UNCHANGED <<site, items, verdict>>

(* /add with a URL of the work that the adapter can handle. *)
Add ==
  /\ Cardinality(items) < MaxItems
  /\ \E kind \in {"episode", "series"} \cap DOMAIN Adapter.fetch, e \in 1..published :
       LET i == IF kind = "series" THEN SeriesEntry ELSE EpisodeEntry(e, e)
       IN Begin("add", i, AddRequests(i))

(* A run comes to an entry of the work: compute_latest. *)
Fetch == \E i \in items : Begin("fetch", i, FetchRequests(i))

(* The canary of the source; its contract has this work's first episode. *)
RunCanary ==
  Begin("canary", IF Canary.kind = "series" THEN SeriesEntry ELSE EpisodeEntry(1, 1),
        Canary.requests)

-----------------------------------------------------------------------------
Next1 == Head(todo)
Then(more) == todo' = more \o Tail(todo)

(* The program raises; the caller reports an error, or drift. *)
Raise ==
  /\ outcome' = "raised"
  /\ todo' = <<>>
  /\ verdict' = IF program = "canary" THEN NoVerdict ELSE verdict
  /\ UNCHANGED latest

Shown == Next1.needs \subseteq signals

(* A page that is read for its signals.  The page of the latest episode is *)
(* not requested again if it is the seed; the caller cannot tell.          *)
ReadPage ==
  /\ Running /\ todo # <<>>
  /\ Next1.page \in {"seed", "latest", "latest unless seed", "latest or not", "seen"}
  /\ \/ Shown /\ Then(<<>>) /\ UNCHANGED <<outcome, latest, verdict>>
     \/ ~Shown /\ Raise
  /\ UNCHANGED <<site, items, run, failed, steady>>

ReadList ==
  /\ Running /\ todo # <<>>
  /\ Next1.page = "list"
  /\ \/ Shown /\ Lists /\ latest' = Listed /\ Then(<<>>) /\ UNCHANGED <<outcome, verdict>>
     \/ ~(Shown /\ Lists) /\ Raise
  /\ UNCHANGED <<site, items, run, failed, steady>>

(* webアクション, from an episode: without a next link the entry is the      *)
(* latest, unless the feed has a greater one; else the links are followed. *)
ReadEntry ==
  /\ Running /\ todo # <<>>
  /\ Next1.page = "entry"
  /\ IF HasNext(item.seed)
     THEN /\ latest' = item.seed + 1
          /\ Then(IF MaxHops = 1 THEN <<>> ELSE <<Hop(MaxHops - 1)>>)
     ELSE /\ latest' = item.seed
          /\ Then(IF "series id" \in signals THEN <<TryFeed>> ELSE <<>>)
  /\ UNCHANGED <<site, items, run, outcome, failed, steady, verdict>>

(* The page of an episode on the way; the last one allowed is not read.    *)
ReadNext ==
  /\ Running /\ todo # <<>>
  /\ Next1.page = "hop"
  /\ IF HasNext(latest)
     THEN /\ latest' = latest + 1
          /\ Then(IF Next1.left = 1 THEN <<>> ELSE <<Hop(Next1.left - 1)>>)
     ELSE Then(<<>>) /\ UNCHANGED latest
  /\ UNCHANGED <<site, items, run, outcome, failed, steady, verdict>>

(* The canary wants a series id and a next link, and follows all links.    *)
ReadContractEntry ==
  /\ Running /\ todo # <<>>
  /\ Next1.page = "contract entry"
  /\ LET demanded == "series id" \in signals /\ HasNext(item.seed)
     IN \/ /\ demanded
           /\ latest' = item.seed + 1
           /\ Then(<<Hop(Newest)>>)
           /\ UNCHANGED <<outcome, verdict>>
        \/ ~demanded /\ Raise
  /\ UNCHANGED <<site, items, run, failed, steady>>

(* _fetch_latest_from_series_feed_url: what it raises is caught. *)
ReadFeed ==
  /\ Running /\ todo # <<>>
  /\ Next1.page = "try feed"
  /\ IF Lists
     THEN latest' = Listed /\ Then(<<TryEpisode>>)
     ELSE latest' = item.seed /\ Then(<<>>)
  /\ UNCHANGED <<site, items, run, outcome, failed, steady, verdict>>

(* Faulty variant: what the feed has is preferred, though it be older. *)
PreferFeedAlways == TRUE

(* The number is the one of "number", or of the title. *)
PreferFeed == "number" \in signals /\ latest > item.seed

ReadFeedEpisode ==
  /\ Running /\ todo # <<>>
  /\ Next1.page = "try episode"
  /\ latest' = IF PreferFeed THEN latest ELSE item.seed
  /\ Then(<<>>)
  /\ UNCHANGED <<site, items, run, outcome, failed, steady, verdict>>

(* No request is made for what was read already. *)
NoRequest ==
  \/ Next1.page = "seen"
  \/ /\ Next1.page = "latest unless seed"
     /\ item.kind = "episode" /\ latest = item.seed
     /\ source = "sunday_webry" => "page title" \in signals

(* A request fails for good: where it is caught the program goes on. *)
Fail ==
  /\ Running /\ todo # <<>>
  /\ ~NoRequest
  /\ failed' = TRUE
  /\ CASE Next1.page = "latest or not" -> Then(<<>>) /\ UNCHANGED <<latest, outcome, verdict>>
       [] Next1.page \in {"try feed", "try episode"} ->
            latest' = item.seed /\ Then(<<>>) /\ UNCHANGED <<outcome, verdict>>
       [] OTHER -> Raise
  /\ UNCHANGED <<site, items, run, steady>>

(* The program returns: /add stores the entry, unless there is one of that *)
(* name, and the canary says ok.                                           *)
Return ==
  /\ Running /\ todo = <<>>
  /\ outcome' = "returned"
  /\ items' = IF program = "add" /\ \A i \in items : i.name # Canonical(item).name
              THEN items \cup {Canonical(item)} ELSE items
  /\ verdict' = IF program = "canary" THEN IF steady THEN latest ELSE NoVerdict ELSE verdict
  /\ UNCHANGED <<site, run, todo, latest, failed, steady>>

Site == Publish \/ ListNext \/ LinkNext \/ Redesign
Start == Add \/ Fetch \/ RunCanary
Read ==
  \/ ReadPage \/ ReadList \/ ReadEntry \/ ReadNext
  \/ ReadContractEntry \/ ReadFeed \/ ReadFeedEpisode
Next == Site \/ Start \/ Read \/ Fail \/ Return

Spec == Init /\ [][Next]_vars

-----------------------------------------------------------------------------
(* The listing is not what the adapter takes it for: piccoma's items have  *)
(* tags that are never closed, ComicWalker's page has codes of other       *)
(* series and none of its own, webアクション's pages are not linked, or the   *)
(* page has other works' links where the adapter takes any.  Then a fetch  *)
(* does return older episodes, or another work's.                          *)
Misread ==
  \/ source = "piccoma" /\ "closed tags" \notin signals
  \/ source = "comic_walker" /\ "own codes" \notin signals
  \/ source = "comic_walker" /\ floor = 0 /\ alien # {}
  \/ source = "comic_action" /\ "next link" \notin signals
  \/ source \in TakesAnyLink /\ alien # {}

(* Fetched.  A fetch that returns from a listing that is not misread has   *)
(* an episode of the work that was published, and none older than what was *)
(* listed when it began, whatever the site publishes, lists or redesigns   *)
(* between two of its requests: a request that fails, or a page without    *)
(* what is looked for in it, makes the fetch raise or leaves it that       *)
(* episode.  From an episode of webアクション it promises less: as far as      *)
(* MaxHops links lead.  There a fetch whose feed fails, or that is further *)
(* behind than MaxHops, does miss what is listed.                          *)
Fetched ==
  program = "fetch" /\ outcome = "returned" /\ ~Misread
    => latest \in Larger(1, floor)..published

(* CanaryPredicts.  When the canary of a source says ok, and the site has  *)
(* not changed since, a fetch of the same work from a URL of the kind in   *)
(* the contract, or from its series, whose requests do not fail returns,   *)
(* and with the same episode.  The canaries repeat the adapters' requests  *)
(* in code of their own, and would miss a drift of the pages only an       *)
(* adapter asks for.  webアクション is held to this for the contract's URL, *)
(* and as far as max_hops: the canary follows all links.                   *)
CanaryPredicts ==
  /\ program = "fetch" /\ ~Running /\ ~failed
  /\ verdict # NoVerdict
  /\ item.kind \in {Canary.kind, "series"}
  /\ source = "comic_action" =>
       item.kind = "episode" /\ item.seed = 1 /\ linked <= 1 + MaxHops
  => outcome = "returned" /\ latest = verdict

(* OneEntryPerWork.  However a user names a work, by any of its episodes,  *)
(* its series or its feed, it is in the watchlist once, and its updates    *)
(* are not notified twice.  BOOK☆WALKER's books are works of their own,    *)
(* and two sources do keep the URL of an episode as the name of the work.  *)
OneEntryPerWork ==
  source \notin {"takecomic", "bibibi_comic", "bookwalker"} => Cardinality(items) <= 1
=============================================================================
