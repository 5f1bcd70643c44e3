---------------------------- MODULE SourcesProofs ----------------------------
(***************************************************************************)
(* For any of the sources, any number of episodes, of entries and of lost  *)
(* signals, and any max_hops: a work has one entry, a fetch of a listing   *)
(* that is not misread finds no older episode than was listed when it      *)
(* began, and what a canary says ok of a fetch finds.                      *)
(*                                                                         *)
(* Three facts about the tables of requests carry the proofs, one lemma    *)
(* for a source: every program reads a list; a fetch demands no signal     *)
(* that the canary does not; and an entry for an episode is named by its   *)
(* series.  What the steps do with such a table is the same for all        *)
(* sources but webアクション, whose walk along the links has an invariant    *)
(* of its own: the hops that are left, and how far the walk has come.      *)
(***************************************************************************)
EXTENDS Sources, FiniteSetTheorems, TLAPS

Signals ==
  {"series id", "items", "item title", "page title", "titles", "latest link", "label",
   "series title", "product name", "closed tags", "anchors", "next data", "own codes",
   "next link", "number"}
Needs == SUBSET Signals

(* What the requests in the tables need. *)
None == {}
SeriesId == {"series id"}
Titles == {"titles"}
ItemTitle == {"item title"}
PageTitle == {"page title"}
ItemTitles == {"item title", "titles"}
AllTitles == {"item title", "page title", "titles"}
LatestLink == {"latest link"}
LabelSignal == {"label"}
SeriesTitle == {"series title"}
ProductTitles == {"series title", "product name"}
NextData == {"next data"}

(* Requests of all programs but those that start at an episode of          *)
(* webアクション.                                                            *)
PlainPages == {"seed", "list", "latest", "latest unless seed", "latest or not"}
Plain == {p \in [page : PlainPages, needs : Needs, left : {0}] :
            p.page = "latest or not" => p.needs = {}}

HasList(t) == \E k \in 1..Len(t) : t[k].page = "list"
Demands(t) == UNION {t[k].needs : k \in 1..Len(t)}
Listing(t) == t \in Seq(Plain) /\ HasList(t)
Reads(t, needs) == Listing(t) /\ Demands(t) = needs

-----------------------------------------------------------------------------
(* Sequences of requests. *)

LEMMA PlainRequests ==
  ASSUME NEW needs \in Needs
  PROVE  /\ Seed(needs) \in Plain /\ Seed(needs).needs = needs
         /\ List(needs) \in Plain /\ List(needs).needs = needs /\ List(needs).page = "list"
         /\ Latest(needs) \in Plain /\ Latest(needs).needs = needs
         /\ LatestUnlessSeed(needs) \in Plain /\ LatestUnlessSeed(needs).needs = needs
         /\ LatestOrNot \in Plain /\ LatestOrNot.needs = {}
BY DEF Seed, List, Latest, LatestUnlessSeed, LatestOrNot, Page, Plain, PlainPages, Needs

LEMMA OneRequest ==
  ASSUME NEW a \in Plain
  PROVE  /\ a.page = "list" => Listing(<<a>>)
         /\ Demands(<<a>>) = a.needs
BY DEF Listing, HasList, Demands

LEMMA TwoRequests ==
  ASSUME NEW a \in Plain, NEW b \in Plain
  PROVE  /\ "list" \in {a.page, b.page} => Listing(<<a, b>>)
         /\ Demands(<<a, b>>) = a.needs \cup b.needs
BY DEF Listing, HasList, Demands

LEMMA ThreeRequests ==
  ASSUME NEW a \in Plain, NEW b \in Plain, NEW c \in Plain
  PROVE  /\ "list" \in {a.page, b.page, c.page} => Listing(<<a, b, c>>)
         /\ Demands(<<a, b, c>>) = a.needs \cup b.needs \cup c.needs
BY DEF Listing, HasList, Demands

(* A request is done: those that remain, and what they demand. *)
LEMMA NextRequest ==
  ASSUME NEW t \in Seq(Plain), t # <<>>
  PROVE  /\ Head(t) \in Plain /\ Tail(t) \in Seq(Plain)
         /\ <<>> \o Tail(t) = Tail(t)
         /\ HasList(t) => Head(t).page = "list" \/ HasList(Tail(t))
         /\ Demands(t) = Head(t).needs \cup Demands(Tail(t))
<1>1. /\ Head(t) \in Plain /\ Tail(t) \in Seq(Plain) /\ Head(t) = t[1]
      /\ Len(Tail(t)) = Len(t) - 1 /\ Len(t) \in Nat /\ Len(t) > 0
      /\ \A k \in 1..(Len(t) - 1) : Tail(t)[k] = t[k + 1]
  OBVIOUS
<1>2. <<>> \o Tail(t) = Tail(t)
  BY <1>1
<1>3. HasList(t) => Head(t).page = "list" \/ HasList(Tail(t))
  <2>1. SUFFICES ASSUME NEW k \in 1..Len(t), t[k].page = "list", k # 1
                 PROVE  HasList(Tail(t))
    BY <1>1 DEF HasList
  <2>2. k - 1 \in 1..Len(Tail(t)) /\ Tail(t)[k - 1] = t[k]
    BY <1>1, <2>1
  <2> QED
    BY <2>1, <2>2 DEF HasList
<1>4. Demands(t) \subseteq Head(t).needs \cup Demands(Tail(t))
  <2>1. SUFFICES ASSUME NEW k \in 1..Len(t), k # 1
                 PROVE  t[k].needs \subseteq Demands(Tail(t))
    BY <1>1 DEF Demands
  <2>2. k - 1 \in 1..Len(Tail(t)) /\ Tail(t)[k - 1] = t[k]
    BY <1>1, <2>1
  <2> QED
    BY <2>2 DEF Demands
<1>5. Head(t).needs \cup Demands(Tail(t)) \subseteq Demands(t)
  <2>1. 1 \in 1..Len(t)
    BY <1>1
  <2>2. SUFFICES ASSUME NEW k \in 1..Len(Tail(t))
                 PROVE  Tail(t)[k].needs \subseteq Demands(t)
    BY <1>1, <2>1 DEF Demands
  <2>3. k + 1 \in 1..Len(t) /\ Tail(t)[k] = t[k + 1]
    BY <1>1, <2>2
  <2> QED
    BY <2>3 DEF Demands
<1> QED
  BY <1>1, <1>2, <1>3, <1>4, <1>5

(* The shapes of the tables of requests. *)
LEMMA ListOnly ==
  ASSUME NEW x \in Needs
  PROVE  Reads(<<List(x)>>, x)
BY PlainRequests, OneRequest DEF Reads

LEMMA SeedList ==
  ASSUME NEW x \in Needs, NEW y \in Needs
  PROVE  Reads(<<Seed(x), List(y)>>, x \cup y)
BY PlainRequests, TwoRequests DEF Reads

LEMMA ListLatest ==
  ASSUME NEW x \in Needs, NEW y \in Needs
  PROVE  Reads(<<List(x), Latest(y)>>, x \cup y)
BY PlainRequests, TwoRequests DEF Reads

LEMMA ListLatestOrNot ==
  ASSUME NEW x \in Needs
  PROVE  Reads(<<List(x), LatestOrNot>>, x \cup {})
<1>1. {} \in Needs
  BY DEF Needs
<1>2. List(x) \in Plain /\ LatestOrNot \in Plain /\ List(x).page = "list"
  BY <1>1, PlainRequests
<1>3. /\ Listing(<<List(x), LatestOrNot>>)
      /\ Demands(<<List(x), LatestOrNot>>) = List(x).needs \cup LatestOrNot.needs
  BY <1>2, TwoRequests
<1> QED
  BY <1>1, <1>3, PlainRequests DEF Reads

LEMMA SeedListLatest ==
  ASSUME NEW x \in Needs, NEW y \in Needs, NEW z \in Needs
  PROVE  Reads(<<Seed(x), List(y), Latest(z)>>, x \cup y \cup z)
BY PlainRequests, ThreeRequests DEF Reads

LEMMA SeedListLatestUnlessSeed ==
  ASSUME NEW x \in Needs, NEW y \in Needs, NEW z \in Needs
  PROVE  Reads(<<Seed(x), List(y), LatestUnlessSeed(z)>>, x \cup y \cup z)
BY PlainRequests, ThreeRequests DEF Reads

LEMMA NoRequests == ~HasList(<<>>) /\ Demands(<<>>) = {} /\ <<>> \in Seq(Plain)
BY DEF HasList, Demands

-----------------------------------------------------------------------------
(* The adapters and their canaries. *)

(* A work of these sources may be listed once for each of its episodes.    *)
NamedByEpisode == {"takecomic", "bibibi_comic", "bookwalker"}

(* Every program reads a list, and a fetch demands no signal that the      *)
(* canary, which starts at a URL of the same kind, does not demand.        *)
Predicted(A, C) ==
  /\ \A k \in DOMAIN A.fetch : Listing(A.fetch[k])
  /\ \A k \in DOMAIN A.fetch \cap {C.kind, "series", "named"} :
       Demands(A.fetch[k]) \subseteq Demands(C.requests)
  /\ Listing(C.requests)
  /\ C.kind \in DOMAIN A.fetch

Kinds == {"episode", "series"}
Known(A, C, s) ==
  /\ "series" \in DOMAIN A.fetch /\ DOMAIN A.fetch \subseteq {"episode", "series", "named"}
  /\ A.canonical \in BOOLEAN
  /\ C.kind \in Kinds
  /\ s \notin NamedByEpisode /\ "episode" \in DOMAIN A.fetch
       => A.canonical \/ s \in NamedByCheck

LEMMA SomeNeeds ==
  /\ None \in Needs
  /\ SeriesId \in Needs
  /\ Titles \in Needs
  /\ ItemTitle \in Needs
  /\ PageTitle \in Needs
  /\ ItemTitles \in Needs
  /\ AllTitles \in Needs
  /\ LatestLink \in Needs
  /\ LabelSignal \in Needs
  /\ SeriesTitle \in Needs
  /\ ProductTitles \in Needs
  /\ NextData \in Needs
BY DEF Needs, Signals, None, SeriesId, Titles, ItemTitle, PageTitle, ItemTitles, AllTitles,
       LatestLink, LabelSignal, SeriesTitle, ProductTitles, NextData

LEMMA ComicDaysPredicted ==
  ASSUME NEW s
  PROVE  Predicted(ComicDays, ComicDaysCanary) /\ Known(ComicDays, ComicDaysCanary, s)
<1> DEFINE A == ComicDays
           C == ComicDaysCanary
<1>1. /\ DOMAIN A.fetch = {"episode", "series"}
      /\ A.fetch["episode"] = <<Seed(SeriesId), List(None), Latest(None)>>
      /\ A.fetch["series"] = <<List(None), Latest(None)>>
      /\ A.canonical = TRUE
  BY DEF ComicDays, None, SeriesId
<1>2. C.kind = "episode" /\ C.requests = <<Seed(SeriesId), List(None), Latest(AllTitles)>>
  BY DEF ComicDaysCanary, AllTitles, None, SeriesId
<1> HIDE DEF A, C
<1>3. AllTitles \in Needs /\ None \in Needs /\ SeriesId \in Needs
  BY SomeNeeds
<1>4. Reads(A.fetch["episode"], SeriesId \cup None \cup None)
  BY <1>1, <1>3, SeedListLatest
<1>5. Reads(A.fetch["series"], None \cup None)
  BY <1>1, <1>3, ListLatest
<1>6. Reads(C.requests, SeriesId \cup None \cup AllTitles)
  BY <1>2, <1>3, SeedListLatest
<1>7. Predicted(A, C) /\ Known(A, C, s)
  BY <1>1, <1>2, <1>3, <1>4, <1>5, <1>6 DEF Predicted, Known, Kinds, Reads, NamedByEpisode,
     NamedByCheck, None
<1> QED
  BY <1>7 DEF A, C

LEMMA SundayWebryPredicted ==
  /\ Predicted(SundayWebry, SundayWebryCanary)
  /\ Known(SundayWebry, SundayWebryCanary, "sunday_webry")
<1> DEFINE A == SundayWebry
           C == SundayWebryCanary
<1>1. /\ DOMAIN A.fetch = {"episode", "series"}
      /\ A.fetch["episode"] = <<Seed(SeriesId), List(None), LatestUnlessSeed(None)>>
      /\ A.fetch["series"] = <<List(None), Latest(None)>>
      /\ A.canonical = TRUE
  BY DEF SundayWebry, ComicDays, None, SeriesId
<1>2. C.kind = "episode" /\ C.requests = <<Seed(SeriesId), List(None), Latest(AllTitles)>>
  BY DEF SundayWebryCanary, ComicDaysCanary, AllTitles, None, SeriesId
<1> HIDE DEF A, C
<1>3. AllTitles \in Needs /\ None \in Needs /\ SeriesId \in Needs
  BY SomeNeeds
<1>4. Reads(A.fetch["episode"], SeriesId \cup None \cup None)
  BY <1>1, <1>3, SeedListLatestUnlessSeed
<1>5. Reads(A.fetch["series"], None \cup None)
  BY <1>1, <1>3, ListLatest
<1>6. Reads(C.requests, SeriesId \cup None \cup AllTitles)
  BY <1>2, <1>3, SeedListLatest
<1>7. Predicted(A, C) /\ Known(A, C, "sunday_webry")
  BY <1>1, <1>2, <1>3, <1>4, <1>5, <1>6 DEF Predicted, Known, Kinds, Reads, NamedByEpisode,
     NamedByCheck, None
<1> QED
  BY <1>7 DEF A, C

LEMMA ComicTrailPredicted ==
  Predicted(ComicTrail, ComicTrailCanary) /\ Known(ComicTrail, ComicTrailCanary, "comic_trail")
<1> DEFINE A == ComicTrail
           C == ComicTrailCanary
<1>1. /\ DOMAIN A.fetch = {"episode", "series"}
      /\ A.fetch["episode"] = <<Seed(SeriesId), List(None), LatestUnlessSeed(Titles)>>
      /\ A.fetch["series"] = <<List(None), Latest(Titles)>>
      /\ A.canonical = TRUE
  BY DEF ComicTrail, None, SeriesId, Titles
<1>2. C.kind = "episode" /\ C.requests = <<Seed(SeriesId), List(None), Latest(ItemTitles)>>
  BY DEF ComicTrailCanary, ItemTitles, None, SeriesId
<1> HIDE DEF A, C
<1>3. ItemTitles \in Needs /\ None \in Needs /\ SeriesId \in Needs /\ Titles \in Needs
  BY SomeNeeds
<1>4. Reads(A.fetch["episode"], SeriesId \cup None \cup Titles)
  BY <1>1, <1>3, SeedListLatestUnlessSeed
<1>5. Reads(A.fetch["series"], None \cup Titles)
  BY <1>1, <1>3, ListLatest
<1>6. Reads(C.requests, SeriesId \cup None \cup ItemTitles)
  BY <1>2, <1>3, SeedListLatest
<1>7. Predicted(A, C) /\ Known(A, C, "comic_trail")
  BY <1>1, <1>2, <1>3, <1>4, <1>5, <1>6 DEF Predicted, Known, Kinds, Reads, NamedByEpisode,
     NamedByCheck, None, Titles, ItemTitles
<1> QED
  BY <1>7 DEF A, C

LEMMA ChampionCrossPredicted ==
  /\ Predicted(ChampionCross, ChampionCrossCanary)
  /\ Known(ChampionCross, ChampionCrossCanary, "champion_cross")
<1> DEFINE A == ChampionCross
           C == ChampionCrossCanary
<1>1. /\ DOMAIN A.fetch = {"episode", "series"}
      /\ A.fetch["episode"] = <<Seed(SeriesId), List(None), LatestUnlessSeed(None)>>
      /\ A.fetch["series"] = <<List(None), Latest(None)>>
      /\ A.canonical = FALSE
  BY DEF ChampionCross, None, SeriesId
<1>2. C.kind = "episode" /\ C.requests = <<Seed(SeriesId), List(ItemTitle)>>
  BY DEF ChampionCrossCanary, ItemTitle, SeriesId
<1> HIDE DEF A, C
<1>3. ItemTitle \in Needs /\ None \in Needs /\ SeriesId \in Needs
  BY SomeNeeds
<1>4. Reads(A.fetch["episode"], SeriesId \cup None \cup None)
  BY <1>1, <1>3, SeedListLatestUnlessSeed
<1>5. Reads(A.fetch["series"], None \cup None)
  BY <1>1, <1>3, ListLatest
<1>6. Reads(C.requests, SeriesId \cup ItemTitle)
  BY <1>2, <1>3, SeedList
<1>7. Predicted(A, C) /\ Known(A, C, "champion_cross")
  BY <1>1, <1>2, <1>3, <1>4, <1>5, <1>6 DEF Predicted, Known, Kinds, Reads, NamedByEpisode,
     NamedByCheck, None
<1> QED
  BY <1>7 DEF A, C

LEMMA TakecomicPredicted ==
  Predicted(Takecomic, TakecomicCanary) /\ Known(Takecomic, TakecomicCanary, "takecomic")
<1> DEFINE A == Takecomic
           C == TakecomicCanary
<1>1. /\ DOMAIN A.fetch = {"episode", "series"}
      /\ A.fetch["episode"] = <<Seed(SeriesId), List(None), LatestUnlessSeed(None)>>
      /\ A.fetch["series"] = <<List(None), Latest(None)>>
      /\ A.canonical = FALSE
  BY DEF Takecomic, ChampionCross, None, SeriesId
<1>2. C.kind = "series" /\ C.requests = <<List(ItemTitle)>>
  BY DEF TakecomicCanary, ItemTitle
<1> HIDE DEF A, C
<1>3. ItemTitle \in Needs /\ None \in Needs /\ SeriesId \in Needs
  BY SomeNeeds
<1>4. Reads(A.fetch["episode"], SeriesId \cup None \cup None)
  BY <1>1, <1>3, SeedListLatestUnlessSeed
<1>5. Reads(A.fetch["series"], None \cup None)
  BY <1>1, <1>3, ListLatest
<1>6. Reads(C.requests, ItemTitle)
  BY <1>2, <1>3, ListOnly
<1>7. Predicted(A, C) /\ Known(A, C, "takecomic")
  BY <1>1, <1>2, <1>3, <1>4, <1>5, <1>6 DEF Predicted, Known, Kinds, Reads, NamedByEpisode,
     NamedByCheck, None
<1> QED
  BY <1>7 DEF A, C

LEMMA FirecrossPredicted ==
  Predicted(Firecross, FirecrossCanary) /\ Known(Firecross, FirecrossCanary, "firecross")
<1> DEFINE A == Firecross
           C == FirecrossCanary
<1>1. /\ DOMAIN A.fetch = {"episode", "named", "series"}
      /\ A.fetch["episode"] = <<Seed(SeriesId), List(LatestLink), Latest(None)>>
      /\ A.fetch["named"] = <<List(LatestLink), Latest(None)>>
      /\ A.fetch["series"] = <<List(None), Latest(None)>>
      /\ A.canonical = FALSE
  BY DEF Firecross, LatestLink, None, SeriesId
<1>2. C.kind = "episode" /\ C.requests = <<Seed(SeriesId), List(LatestLink), Latest(PageTitle)>>
  BY DEF FirecrossCanary, LatestLink, PageTitle, SeriesId
<1> HIDE DEF A, C
<1>3. LatestLink \in Needs /\ None \in Needs /\ PageTitle \in Needs /\ SeriesId \in Needs
  BY SomeNeeds
<1>4. Reads(A.fetch["episode"], SeriesId \cup LatestLink \cup None)
  BY <1>1, <1>3, SeedListLatest
<1>5. Reads(A.fetch["named"], LatestLink \cup None)
  BY <1>1, <1>3, ListLatest
<1>6. Reads(A.fetch["series"], None \cup None)
  BY <1>1, <1>3, ListLatest
<1>7. Reads(C.requests, SeriesId \cup LatestLink \cup PageTitle)
  BY <1>2, <1>3, SeedListLatest
<1>8. Predicted(A, C) /\ Known(A, C, "firecross")
  BY <1>1, <1>2, <1>3, <1>4, <1>5, <1>6, <1>7 DEF Predicted, Known, Kinds, Reads, NamedByEpisode,
     NamedByCheck, None
<1> QED
  BY <1>8 DEF A, C

LEMMA MagapokePredicted ==
  Predicted(Magapoke, MagapokeCanary) /\ Known(Magapoke, MagapokeCanary, "magapoke")
<1> DEFINE A == Magapoke
           C == MagapokeCanary
<1>1. /\ DOMAIN A.fetch = {"series"}
      /\ A.fetch["series"] = <<Seed(None), List(None)>>
      /\ A.canonical = FALSE
  BY DEF Magapoke, None
<1>2. C.kind = "series" /\ C.requests = <<Seed(LabelSignal), List(ItemTitle)>>
  BY DEF MagapokeCanary, ItemTitle, LabelSignal
<1> HIDE DEF A, C
<1>3. ItemTitle \in Needs /\ LabelSignal \in Needs /\ None \in Needs
  BY SomeNeeds
<1>4. Reads(A.fetch["series"], None \cup None)
  BY <1>1, <1>3, SeedList
<1>5. Reads(C.requests, LabelSignal \cup ItemTitle)
  BY <1>2, <1>3, SeedList
<1>6. Predicted(A, C) /\ Known(A, C, "magapoke")
  BY <1>1, <1>2, <1>3, <1>4, <1>5 DEF Predicted, Known, Kinds, Reads, NamedByEpisode,
     NamedByCheck, None
<1> QED
  BY <1>6 DEF A, C

LEMMA GaugauPredicted ==
  Predicted(Gaugau, GaugauCanary) /\ Known(Gaugau, GaugauCanary, "gaugau")
<1> DEFINE A == Gaugau
           C == GaugauCanary
<1>1. /\ DOMAIN A.fetch = {"series"}
      /\ A.fetch["series"] = <<List(None), Latest(None)>>
      /\ A.canonical = FALSE
  BY DEF Gaugau, None
<1>2. C.kind = "series" /\ C.requests = <<List(None), Latest(Titles)>>
  BY DEF GaugauCanary, None, Titles
<1> HIDE DEF A, C
<1>3. None \in Needs /\ Titles \in Needs
  BY SomeNeeds
<1>4. Reads(A.fetch["series"], None \cup None)
  BY <1>1, <1>3, ListLatest
<1>5. Reads(C.requests, None \cup Titles)
  BY <1>2, <1>3, ListLatest
<1>6. Predicted(A, C) /\ Known(A, C, "gaugau")
  BY <1>1, <1>2, <1>3, <1>4, <1>5 DEF Predicted, Known, Kinds, Reads, NamedByEpisode,
     NamedByCheck, None
<1> QED
  BY <1>6 DEF A, C

LEMMA NicovideoMangaPredicted ==
  /\ Predicted(NicovideoManga, NicovideoMangaCanary)
  /\ Known(NicovideoManga, NicovideoMangaCanary, "nicovideo_manga")
<1> DEFINE A == NicovideoManga
           C == NicovideoMangaCanary
<1>1. /\ DOMAIN A.fetch = {"series"}
      /\ A.fetch["series"] = <<List(None)>>
      /\ A.canonical = FALSE
  BY DEF NicovideoManga, None
<1>2. C.kind = "series" /\ C.requests = <<List(Titles)>>
  BY DEF NicovideoMangaCanary, Titles
<1> HIDE DEF A, C
<1>3. None \in Needs /\ Titles \in Needs
  BY SomeNeeds
<1>4. Reads(A.fetch["series"], None)
  BY <1>1, <1>3, ListOnly
<1>5. Reads(C.requests, Titles)
  BY <1>2, <1>3, ListOnly
<1>6. Predicted(A, C) /\ Known(A, C, "nicovideo_manga")
  BY <1>1, <1>2, <1>3, <1>4, <1>5 DEF Predicted, Known, Kinds, Reads, NamedByEpisode,
     NamedByCheck, None
<1> QED
  BY <1>6 DEF A, C

LEMMA PiccomaPredicted ==
  Predicted(Piccoma, PiccomaCanary) /\ Known(Piccoma, PiccomaCanary, "piccoma")
<1> DEFINE A == Piccoma
           C == PiccomaCanary
<1>1. /\ DOMAIN A.fetch = {"series"}
      /\ A.fetch["series"] = <<Seed(SeriesTitle), List(None)>>
      /\ A.canonical = FALSE
  BY DEF Piccoma, None, SeriesTitle
<1>2. C.kind = "series" /\ C.requests = <<Seed(ProductTitles), List(None)>>
  BY DEF PiccomaCanary, None, ProductTitles
<1> HIDE DEF A, C
<1>3. None \in Needs /\ ProductTitles \in Needs /\ SeriesTitle \in Needs
  BY SomeNeeds
<1>4. Reads(A.fetch["series"], SeriesTitle \cup None)
  BY <1>1, <1>3, SeedList
<1>5. Reads(C.requests, ProductTitles \cup None)
  BY <1>2, <1>3, SeedList
<1>6. Predicted(A, C) /\ Known(A, C, "piccoma")
  BY <1>1, <1>2, <1>3, <1>4, <1>5 DEF Predicted, Known, Kinds, Reads, NamedByEpisode,
     NamedByCheck, None, SeriesTitle, ProductTitles
<1> QED
  BY <1>6 DEF A, C

LEMMA BookwalkerPredicted ==
  Predicted(Bookwalker, BookwalkerCanary) /\ Known(Bookwalker, BookwalkerCanary, "bookwalker")
<1> DEFINE A == Bookwalker
           C == BookwalkerCanary
<1>1. /\ DOMAIN A.fetch = {"episode", "series"}
      /\ A.fetch["episode"] = <<List(None)>>
      /\ A.fetch["series"] = <<List(None)>>
      /\ A.canonical = FALSE
  BY DEF Bookwalker, None
<1>2. C.kind = "series" /\ C.requests = <<List(None)>>
  BY DEF BookwalkerCanary, None
<1> HIDE DEF A, C
<1>3. None \in Needs
  BY SomeNeeds
<1>4. Reads(A.fetch["episode"], None)
  BY <1>1, <1>3, ListOnly
<1>5. Reads(A.fetch["series"], None)
  BY <1>1, <1>3, ListOnly
<1>6. Reads(C.requests, None)
  BY <1>2, <1>3, ListOnly
<1>7. Predicted(A, C) /\ Known(A, C, "bookwalker")
  BY <1>1, <1>2, <1>3, <1>4, <1>5, <1>6 DEF Predicted, Known, Kinds, Reads, NamedByEpisode,
     NamedByCheck, None
<1> QED
  BY <1>7 DEF A, C

LEMMA KakuyomuPredicted ==
  Predicted(Kakuyomu, KakuyomuCanary) /\ Known(Kakuyomu, KakuyomuCanary, "kakuyomu")
<1> DEFINE A == Kakuyomu
           C == KakuyomuCanary
<1>1. /\ DOMAIN A.fetch = {"series"}
      /\ A.fetch["series"] = <<List(NextData), Latest(None)>>
      /\ A.canonical = FALSE
  BY DEF Kakuyomu, NextData, None
<1>2. C.kind = "series" /\ C.requests = <<List(NextData), Latest(PageTitle)>>
  BY DEF KakuyomuCanary, NextData, PageTitle
<1> HIDE DEF A, C
<1>3. NextData \in Needs /\ None \in Needs /\ PageTitle \in Needs
  BY SomeNeeds
<1>4. Reads(A.fetch["series"], NextData \cup None)
  BY <1>1, <1>3, ListLatest
<1>5. Reads(C.requests, NextData \cup PageTitle)
  BY <1>2, <1>3, ListLatest
<1>6. Predicted(A, C) /\ Known(A, C, "kakuyomu")
  BY <1>1, <1>2, <1>3, <1>4, <1>5 DEF Predicted, Known, Kinds, Reads, NamedByEpisode,
     NamedByCheck, None
<1> QED
  BY <1>6 DEF A, C

LEMMA ComicWalkerPredicted ==
  Predicted(ComicWalker, ComicWalkerCanary) /\ Known(ComicWalker, ComicWalkerCanary, "comic_walker")
<1> DEFINE A == ComicWalker
           C == ComicWalkerCanary
<1>1. /\ DOMAIN A.fetch = {"series"}
      /\ A.fetch["series"] = <<List(NextData), LatestOrNot>>
      /\ A.canonical = FALSE
  BY DEF ComicWalker, NextData
<1>2. C.kind = "series" /\ C.requests = <<List(NextData), Latest(Titles)>>
  BY DEF ComicWalkerCanary, NextData, Titles
<1> HIDE DEF A, C
<1>3. NextData \in Needs /\ Titles \in Needs
  BY SomeNeeds
<1>4. Reads(A.fetch["series"], NextData \cup {})
  BY <1>1, <1>3, ListLatestOrNot
<1>5. Reads(C.requests, NextData \cup Titles)
  BY <1>2, <1>3, ListLatest
<1>6. Predicted(A, C) /\ Known(A, C, "comic_walker")
  BY <1>1, <1>2, <1>3, <1>4, <1>5 DEF Predicted, Known, Kinds, Reads, NamedByEpisode,
     NamedByCheck, None
<1> QED
  BY <1>6 DEF A, C

LEMMA ComicActionRequests ==
  /\ DOMAIN ComicAction.fetch = {"episode", "series"}
  /\ ComicAction.fetch["episode"] = <<Entry>>
  /\ Listing(ComicAction.fetch["series"])
  /\ ComicActionCanary.requests = <<ContractEntry, Seen(Titles)>>
  /\ Known(ComicAction, ComicActionCanary, "comic_action")
<1>1. None \in Needs
  BY SomeNeeds
<1>2. Listing(<<List(None), Latest(None)>>)
  BY <1>1, ListLatest DEF Reads
<1>3. /\ DOMAIN ComicAction.fetch = {"episode", "series"}
      /\ ComicAction.fetch["episode"] = <<Entry>>
      /\ ComicAction.fetch["series"] = <<List(None), Latest(None)>>
      /\ ComicAction.canonical = FALSE
  BY DEF ComicAction, None
<1>4. /\ ComicActionCanary.kind = "episode"
      /\ ComicActionCanary.requests = <<ContractEntry, Seen(Titles)>>
  BY DEF ComicActionCanary, Titles
<1> QED
  BY <1>2, <1>3, <1>4 DEF Known, Kinds, NamedByCheck

LEMMA AllSources ==
  DOMAIN Adapters = {"comic_walker", "comic_earthstar", "comicborder", "comic_trail",
                     "comic_days", "kuragebunch", "shonenjumpplus", "sunday_webry",
                     "champion_cross", "magapoke", "firecross", "takecomic",
                     "bibibi_comic", "nicovideo_manga", "kakuyomu", "gaugau",
                     "piccoma", "bookwalker", "comic_action"}
BY DEF Adapters

(* The tables of the source looked at. *)
LEMMA SourceTables ==
  ASSUME source \in Sources
  PROVE  /\ source # "comic_action" => Predicted(Adapter, Canary)
         /\ source = "comic_action" => Adapter = ComicAction /\ Canary = ComicActionCanary
         /\ Known(Adapter, Canary, source)
<1>1. source \in DOMAIN Adapters
  BY SourcesAssumption
<1>2. CASE source = "comic_walker"
  <2>1. Adapter = ComicWalker /\ Canary = ComicWalkerCanary
    BY <1>2 DEF Adapter, Canary, Adapters, Canaries
  <2> QED
    BY <1>2, <2>1, ComicWalkerPredicted
<1>3. CASE source = "comic_earthstar"
  <2>1. Adapter = ComicEarthstar /\ Canary = ComicEarthstarCanary
    BY <1>3 DEF Adapter, Canary, Adapters, Canaries
  <2>2. Adapter = ComicDays /\ Canary = ComicDaysCanary
    BY <2>1 DEF ComicEarthstar, ComicEarthstarCanary
  <2> QED
    BY <1>3, <2>2, ComicDaysPredicted
<1>4. CASE source = "comicborder"
  <2>1. Adapter = Comicborder /\ Canary = ComicborderCanary
    BY <1>4 DEF Adapter, Canary, Adapters, Canaries
  <2>2. Adapter = ComicDays /\ Canary = ComicDaysCanary
    BY <2>1 DEF Comicborder, ComicborderCanary
  <2> QED
    BY <1>4, <2>2, ComicDaysPredicted
<1>5. CASE source = "comic_trail"
  <2>1. Adapter = ComicTrail /\ Canary = ComicTrailCanary
    BY <1>5 DEF Adapter, Canary, Adapters, Canaries
  <2> QED
    BY <1>5, <2>1, ComicTrailPredicted
<1>6. CASE source = "comic_days"
  <2>1. Adapter = ComicDays /\ Canary = ComicDaysCanary
    BY <1>6 DEF Adapter, Canary, Adapters, Canaries
  <2> QED
    BY <1>6, <2>1, ComicDaysPredicted
<1>7. CASE source = "kuragebunch"
  <2>1. Adapter = Kuragebunch /\ Canary = KuragebunchCanary
    BY <1>7 DEF Adapter, Canary, Adapters, Canaries
  <2>2. Adapter = ComicDays /\ Canary = ComicDaysCanary
    BY <2>1 DEF Kuragebunch, KuragebunchCanary
  <2> QED
    BY <1>7, <2>2, ComicDaysPredicted
<1>8. CASE source = "shonenjumpplus"
  <2>1. Adapter = Shonenjumpplus /\ Canary = ShonenjumpplusCanary
    BY <1>8 DEF Adapter, Canary, Adapters, Canaries
  <2>2. Adapter = ComicDays /\ Canary = ComicDaysCanary
    BY <2>1 DEF Shonenjumpplus, ShonenjumpplusCanary
  <2> QED
    BY <1>8, <2>2, ComicDaysPredicted
<1>9. CASE source = "sunday_webry"
  <2>1. Adapter = SundayWebry /\ Canary = SundayWebryCanary
    BY <1>9 DEF Adapter, Canary, Adapters, Canaries
  <2> QED
    BY <1>9, <2>1, SundayWebryPredicted
<1>10. CASE source = "champion_cross"
  <2>1. Adapter = ChampionCross /\ Canary = ChampionCrossCanary
    BY <1>10 DEF Adapter, Canary, Adapters, Canaries
  <2> QED
    BY <1>10, <2>1, ChampionCrossPredicted
<1>11. CASE source = "magapoke"
  <2>1. Adapter = Magapoke /\ Canary = MagapokeCanary
    BY <1>11 DEF Adapter, Canary, Adapters, Canaries
  <2> QED
    BY <1>11, <2>1, MagapokePredicted
<1>12. CASE source = "firecross"
  <2>1. Adapter = Firecross /\ Canary = FirecrossCanary
    BY <1>12 DEF Adapter, Canary, Adapters, Canaries
  <2> QED
    BY <1>12, <2>1, FirecrossPredicted
<1>13. CASE source = "takecomic"
  <2>1. Adapter = Takecomic /\ Canary = TakecomicCanary
    BY <1>13 DEF Adapter, Canary, Adapters, Canaries
  <2> QED
    BY <1>13, <2>1, TakecomicPredicted
<1>14. CASE source = "bibibi_comic"
  <2>1. Adapter = BibibiComic /\ Canary = BibibiComicCanary
    BY <1>14 DEF Adapter, Canary, Adapters, Canaries
  <2>2. Adapter = Takecomic /\ Canary = TakecomicCanary
    BY <2>1 DEF BibibiComic, Takecomic, BibibiComicCanary
  <2> QED
    BY <1>14, <2>2, TakecomicPredicted DEF Known, NamedByEpisode
<1>15. CASE source = "nicovideo_manga"
  <2>1. Adapter = NicovideoManga /\ Canary = NicovideoMangaCanary
    BY <1>15 DEF Adapter, Canary, Adapters, Canaries
  <2> QED
    BY <1>15, <2>1, NicovideoMangaPredicted
<1>16. CASE source = "kakuyomu"
  <2>1. Adapter = Kakuyomu /\ Canary = KakuyomuCanary
    BY <1>16 DEF Adapter, Canary, Adapters, Canaries
  <2> QED
    BY <1>16, <2>1, KakuyomuPredicted
<1>17. CASE source = "gaugau"
  <2>1. Adapter = Gaugau /\ Canary = GaugauCanary
    BY <1>17 DEF Adapter, Canary, Adapters, Canaries
  <2> QED
    BY <1>17, <2>1, GaugauPredicted
<1>18. CASE source = "piccoma"
  <2>1. Adapter = Piccoma /\ Canary = PiccomaCanary
    BY <1>18 DEF Adapter, Canary, Adapters, Canaries
  <2> QED
    BY <1>18, <2>1, PiccomaPredicted
<1>19. CASE source = "bookwalker"
  <2>1. Adapter = Bookwalker /\ Canary = BookwalkerCanary
    BY <1>19 DEF Adapter, Canary, Adapters, Canaries
  <2> QED
    BY <1>19, <2>1, BookwalkerPredicted
<1>20. CASE source = "comic_action"
  <2>1. Adapter = ComicAction /\ Canary = ComicActionCanary
    BY <1>20 DEF Adapter, Canary, Adapters, Canaries
  <2> QED
    BY <1>20, <2>1, ComicActionRequests
<1> QED
  BY <1>1, <1>2, <1>3, <1>4, <1>5, <1>6, <1>7, <1>8, <1>9, <1>10, <1>11, <1>12, <1>13, <1>14,
     <1>15, <1>16, <1>17, <1>18, <1>19, <1>20, AllSources

-----------------------------------------------------------------------------
(* What is read in a listing. *)

(* The episodes f of the work between other links: those are not taken, or *)
(* there are none.                                                         *)
LEMMA EpisodesInList ==
  ASSUME NEW f \in Seq(Nat \ {Alien}), f # <<>>,
         NEW b \in {<<>>, <<Alien>>}, NEW a \in {<<>>, <<Alien>>},
         source \in TakesAnyLink => b = <<>> /\ a = <<>>
  PROVE  /\ FirstTaken(b \o f \o a) = f[1]
         /\ LastTaken(b \o f \o a) = f[Len(f)]
<1> DEFINE list == b \o f \o a
           last == Len(b) + Len(f)
<1>1. /\ Len(b) \in {0, 1} /\ Len(a) \in {0, 1} /\ Len(f) \in Nat \ {0}
      /\ Len(list) = last + Len(a) /\ DOMAIN list = 1..Len(list)
      /\ source \in TakesAnyLink => Len(b) = 0 /\ Len(a) = 0
  BY DEF Alien
<1>2. /\ \A k \in 1..Len(b) : list[k] = Alien
      /\ \A k \in 1..Len(f) : list[Len(b) + k] = f[k] /\ f[k] # Alien
      /\ \A k \in 1..Len(a) : list[last + k] = Alien
  BY <1>1 DEF Alien
<1> HIDE DEF list
<1>3. /\ \A j \in 1..Len(b) : ~Taken(list, j)
      /\ \A k \in 1..Len(f) : Taken(list, Len(b) + k)
      /\ \A j \in (last + 1)..Len(list) : ~Taken(list, j)
  <2>1. \A j \in 1..Len(b) : ~Taken(list, j)
    BY <1>1, <1>2 DEF Taken
  <2>2. \A k \in 1..Len(f) : Taken(list, Len(b) + k)
    BY <1>1, <1>2 DEF Taken
  <2>3. ASSUME NEW j \in (last + 1)..Len(list)
        PROVE  ~Taken(list, j)
    <3>1. j - last \in 1..Len(a) /\ j = last + (j - last)
      BY <1>1
    <3>2. list[j] = Alien
      BY <1>2, <3>1, Zenon
    <3>3. source \notin TakesAnyLink
      BY <1>1, <3>1
    <3> QED
      BY <3>2, <3>3 DEF Taken
  <2> QED
    BY <2>1, <2>2, <2>3
<1>4. FirstTaken(list) = f[1]
  <2> DEFINE First(i) == Taken(list, i) /\ \A j \in 1..(i - 1) : ~Taken(list, j)
  <2>1. Len(b) + 1 \in DOMAIN list /\ First(Len(b) + 1)
    BY <1>1, <1>3
  <2>2. ASSUME NEW i \in DOMAIN list, First(i)
        PROVE  i = Len(b) + 1
    <3>1. i \in 1..Len(list) /\ ~(i \in 1..Len(b)) /\ ~(Len(b) + 1 \in 1..(i - 1))
      BY <1>1, <1>3, <2>1, <2>2
    <3> QED
      BY <1>1, <3>1
  <2>3. (CHOOSE i \in DOMAIN list : First(i)) = Len(b) + 1
    <3> HIDE DEF First
    <3> QED
      BY <2>1, <2>2
  <2>4. FirstTaken(list) = list[CHOOSE i \in DOMAIN list : First(i)]
    BY DEF FirstTaken
  <2>5. FirstTaken(list) = list[Len(b) + 1]
    BY <2>3, <2>4, Zenon
  <2> QED
    BY <1>1, <1>2, <2>5
<1>5. LastTaken(list) = f[Len(f)]
  <2> DEFINE Last(i) == Taken(list, i) /\ \A j \in (i + 1)..Len(list) : ~Taken(list, j)
  <2>1. last \in DOMAIN list /\ list[last] = f[Len(f)] /\ Taken(list, last)
    BY <1>1, <1>2, <1>3
  <2>2. Last(last)
    BY <1>3, <2>1
  <2>3. ASSUME NEW i \in DOMAIN list, Last(i)
        PROVE  i = last
    <3>1. ~(last \in (i + 1)..Len(list)) /\ ~(i \in (last + 1)..Len(list))
      BY <1>3, <2>1, <2>3
    <3>2. i \in 1..Len(list) /\ last \in 1..Len(list)
      BY <1>1, <2>1
    <3> QED
      BY SMTT(30), <1>1, <3>1, <3>2
  <2>4. (CHOOSE i \in DOMAIN list : Last(i)) = last
    <3> HIDE DEF Last
    <3> QED
      BY <2>1, <2>2, <2>3
  <2>5. LastTaken(list) = list[CHOOSE i \in DOMAIN list : Last(i)]
    BY DEF LastTaken
  <2> HIDE DEF Last
  <2> QED
    BY <2>1, <2>4, <2>5
<1> QED
  BY <1>4, <1>5 DEF list

LEMMA GreatestListed ==
  ASSUME listed \in Nat \ {0}
  PROVE  (CHOOSE n \in 1..listed : \A m \in 1..listed : m <= n) = listed
<1>1. listed \in 1..listed /\ \A m \in 1..listed : m <= listed
  OBVIOUS
<1>2. \A n \in 1..listed : (\A m \in 1..listed : m <= n) => n = listed
  OBVIOUS
<1> QED
  BY <1>1, <1>2

(* Unless it is misread the newest episode is what a listing gives to a    *)
(* program that began when no more was listed.  What the feed of webアクション *)
(* gives is listed.                                                        *)
LEMMA ReadInListing ==
  ASSUME Lists, listed \in Nat, floor \in Nat, alien \in SUBSET {"before", "after"}
  PROVE  /\ source = "comic_action" => Listed \in 0..listed
         /\ ~Misread /\ floor <= listed => Listed = listed /\ listed > 0
<1> DEFINE old == [i \in 1..listed |-> i]
           new == [i \in 1..listed |-> listed + 1 - i]
<1>1. ASSUME listed > 0
      PROVE  /\ old \in Seq(Nat \ {Alien}) /\ old # <<>> /\ old[Len(old)] = listed
             /\ new \in Seq(Nat \ {Alien}) /\ new # <<>> /\ new[1] = listed
  <2>1. /\ DOMAIN old = 1..listed /\ \A i \in 1..listed : old[i] \in Nat \ {0}
        /\ DOMAIN new = 1..listed /\ \A i \in 1..listed : new[i] \in Nat \ {0}
    BY <1>1
  <2>2. old \in Seq(Nat \ {Alien}) /\ new \in Seq(Nat \ {Alien})
    BY <1>1, <2>1 DEF Alien
  <2>3. Len(old) = listed /\ Len(new) = listed
    BY <1>1, <2>1, <2>2
  <2>4. old[listed] = listed /\ new[1] = listed
    BY <1>1
  <2> HIDE DEF old, new
  <2> QED
    BY <1>1, <2>2, <2>3, <2>4
<1>2. /\ Other("before") \in {<<>>, <<Alien>>} /\ Other("after") \in {<<>>, <<Alien>>}
      /\ alien = {} => Other("before") = <<>> /\ Other("after") = <<>>
  BY DEF Other
<1>3. /\ NewestFirst = Other("before") \o new \o Other("after")
      /\ OldestFirst = Other("before") \o old \o Other("after")
  BY DEF NewestFirst, OldestFirst
<1> HIDE DEF old, new
<1>4. ASSUME listed > 0, source \in TakesAnyLink => alien = {}
      PROVE  FirstTaken(NewestFirst) = listed /\ LastTaken(OldestFirst) = listed
  <2>1. source \in TakesAnyLink => Other("before") = <<>> /\ Other("after") = <<>>
    BY <1>2, <1>4
  <2>2. FirstTaken(NewestFirst) = new[1]
    BY <1>1, <1>2, <1>3, <1>4, <2>1, EpisodesInList
  <2>3. LastTaken(OldestFirst) = old[Len(old)]
    BY <1>1, <1>2, <1>3, <1>4, <2>1, EpisodesInList
  <2> QED
    BY <1>1, <1>4, <2>2, <2>3
<1>5. CASE source = "comic_walker"
  <2>1. SUFFICES ASSUME ~Misread, floor <= listed
                 PROVE  Listed = listed /\ listed > 0
    BY <1>5
  <2>2. "own codes" \in signals /\ (alien = {} \/ floor # 0)
    BY <1>5, <2>1 DEF Misread
  <2>3. HasOwnCodes \/ alien # {}
    BY <1>5 DEF Lists
  <2>4. listed > 0
    <3>1. CASE HasOwnCodes
      BY <3>1, Zenon DEF HasOwnCodes
    <3>2. CASE floor # 0
      BY <2>1, <3>2
    <3> QED
      BY <2>2, <2>3, <3>1, <3>2
  <2>5. Listed = ComicWalkerLatest
    BY <1>5 DEF Listed
  <2>6. ComicWalkerLatest = listed
    <3>1. HasOwnCodes
      BY <2>2, <2>4, Zenon DEF HasOwnCodes
    <3>2. ComicWalkerLatest = CHOOSE n \in 1..listed : \A m \in 1..listed : m <= n
      BY <3>1, Zenon DEF ComicWalkerLatest
    <3> QED
      BY <2>4, <3>2, GreatestListed
  <2> QED
    BY <2>4, <2>5, <2>6
<1>6. CASE source = "piccoma"
  <2>1. SUFFICES ASSUME ~Misread
                 PROVE  Listed = listed /\ listed > 0
    BY <1>6
  <2>2. "closed tags" \in signals
    BY <1>6, <2>1 DEF Misread
  <2>3. listed > 0 /\ source \notin TakesAnyLink
    <3>1. source \notin TakesAnyLink \cup {"comic_walker"}
      BY <1>6 DEF TakesAnyLink
    <3> QED
      BY <1>6, <3>1 DEF Lists
  <2>4. Listed = LastTaken(OldestFirst)
    BY <1>6, <2>2 DEF Listed, PiccomaLatest
  <2> QED
    BY <1>4, <2>3, <2>4
<1>7. CASE source \notin {"comic_walker", "piccoma"}
  <2>1. SUFFICES ASSUME source \in TakesAnyLink => alien = {}
                 PROVE  Listed = listed /\ listed > 0
    <3>1. source = "comic_action" => source \notin TakesAnyLink
      BY DEF TakesAnyLink
    <3>2. ~Misread => (source \in TakesAnyLink => alien = {})
      BY Zenon DEF Misread
    <3> QED
      BY <3>1, <3>2
  <2>2. listed > 0
    BY <1>7, <2>1 DEF Lists
  <2>3. FirstTaken(NewestFirst) = listed /\ LastTaken(OldestFirst) = listed
    BY <1>4, <2>1, <2>2
  <2>4. Listed \in {BookwalkerLatest, KakuyomuLatest, NicovideoMangaLatest, FirecrossLatest,
                    GaugauLatest, FeedLatest}
    BY <1>7 DEF Listed
  <2>5. Listed = listed
    BY <2>3, <2>4 DEF BookwalkerLatest, KakuyomuLatest, NicovideoMangaLatest, FirecrossLatest,
       GaugauLatest, FeedLatest
  <2> QED
    BY <2>2, <2>5
<1> QED
  BY <1>5, <1>6, <1>7

-----------------------------------------------------------------------------
(* The entries of the watchlist. *)

(* An entry for the series, or for an episode if the source's URLs of      *)
(* episodes can be added.                                                  *)
Fits(i) ==
  /\ i \in [name : Nat, kind : Kinds, seed : Nat]
  /\ i.kind = "series" => i = SeriesEntry
  /\ i.kind = "episode" => "episode" \in DOMAIN Adapter.fetch /\ i.seed \in 1..published

Ranges ==
  /\ source \in Sources
  /\ published \in 1..Newest /\ listed \in 0..published /\ linked \in 1..published
  /\ alien \in SUBSET {"before", "after"}
  /\ \A i \in items : Fits(i)
  /\ Fits(item)
  /\ floor \in Nat
  /\ program \in {"nothing", "add", "fetch", "canary"}
  /\ outcome \in {"none", "returned", "raised"}

(* What the steps of the site have in common. *)
LEMMA SiteSteps ==
  ASSUME Ranges, Site
  PROVE  /\ published <= published' /\ listed <= listed' /\ linked <= linked'
         /\ published' \in 1..Newest /\ listed' \in 0..published' /\ linked' \in 1..published'
         /\ signals' \subseteq signals
         /\ UNCHANGED <<source, alien, items, program, item, floor, outcome, todo, latest, failed>>
         /\ verdict' = NoVerdict /\ steady' = FALSE
<1>1. /\ published \in 1..Newest /\ listed \in 0..published /\ linked \in 1..published
      /\ Newest \in Nat
  BY SourcesAssumption DEF Ranges
<1>2. Changed => /\ UNCHANGED <<source, alien, items, program, item, floor, outcome, todo, latest,
                                failed>>
                 /\ verdict' = NoVerdict /\ steady' = FALSE
  BY DEF Changed, run
<1>3. CASE Publish
  BY <1>1, <1>2, <1>3 DEF Publish
<1>4. CASE ListNext
  BY <1>1, <1>2, <1>4 DEF ListNext
<1>5. CASE LinkNext
  BY <1>1, <1>2, <1>5 DEF LinkNext
<1>6. CASE Redesign
  BY <1>1, <1>2, <1>6 DEF Redesign
<1> QED
  BY <1>3, <1>4, <1>5, <1>6 DEF Site

(* What the steps of a program that runs have in common. *)
LEMMA RunSteps ==
  ASSUME Read \/ Fail
  PROVE  /\ Running /\ todo # <<>>
         /\ UNCHANGED <<source, published, listed, linked, alien, signals, items, program, item,
                        floor, steady>>
         /\ outcome' \in {outcome, "raised"}
BY DEF Read, Fail, ReadPage, ReadList, ReadEntry, ReadNext, ReadContractEntry, ReadFeed,
       ReadFeedEpisode, Raise, site, run

LEMMA FitsStays ==
  ASSUME NEW i, Fits(i), source' = source, published \in Nat, published' \in Nat,
         published <= published'
  PROVE  Fits(i)'
BY DEF Fits, Adapter

LEMMA SeriesEntryFits == Fits(SeriesEntry) /\ SeriesEntry.kind = "series"
BY DEF Fits, SeriesEntry, Series, Kinds

LEMMA EpisodeEntryFits ==
  ASSUME NEW n \in Nat, NEW e \in 1..published, published \in Nat,
         "episode" \in DOMAIN Adapter.fetch
  PROVE  Fits(EpisodeEntry(n, e)) /\ EpisodeEntry(n, e).kind = "episode"
BY DEF Fits, EpisodeEntry, Kinds

(* The entry that /add stores fits, and is named by the series if the      *)
(* source has one entry for a work.                                        *)
LEMMA CanonicalFits ==
  ASSUME Ranges
  PROVE  /\ Fits(Canonical(item))
         /\ source \notin NamedByEpisode => Canonical(item).name = Series
<1>1. /\ Fits(item) /\ source \in Sources
  BY DEF Ranges
<1>2. /\ Known(Adapter, Canary, source)
  BY <1>1, SourceTables
<1>3. CASE item.kind = "series"
  <2>1. Canonical(item) = item /\ item = SeriesEntry
    BY <1>1, <1>3 DEF Canonical, Fits
  <2>2. SeriesEntry.name = Series
    BY DEF SeriesEntry
  <2> QED
    BY <1>1, <2>1, <2>2
<1>4. CASE item.kind = "episode" /\ Adapter.canonical = TRUE
  <2>1. Canonical(item) \in {SeriesEntry, EpisodeEntry(Series, item.seed)}
    BY <1>4 DEF Canonical
  <2>2. SeriesEntry.name = Series /\ EpisodeEntry(Series, item.seed).name = Series
    BY DEF SeriesEntry, EpisodeEntry
  <2>3. Fits(SeriesEntry) /\ Fits(EpisodeEntry(Series, item.seed))
    BY <1>1, <1>4, SeriesEntryFits DEF EpisodeEntry, Fits, Kinds, Series
  <2> QED
    BY <2>1, <2>2, <2>3
<1>5. CASE item.kind = "episode" /\ Adapter.canonical = FALSE /\ source \in NamedByCheck
  <2>1. Canonical(item) = EpisodeEntry(Series, item.seed)
    BY <1>5 DEF Canonical
  <2> QED
    BY <1>1, <1>5, <2>1 DEF EpisodeEntry, Fits, Kinds, Series
<1>6. CASE item.kind = "episode" /\ Adapter.canonical = FALSE /\ source \notin NamedByCheck
  <2>1. Canonical(item) = EpisodeEntry(item.seed, item.seed)
    BY <1>6 DEF Canonical
  <2>2. source \in NamedByEpisode
    BY <1>1, <1>2, <1>6 DEF Known, Fits
  <2> QED
    BY <1>1, <1>6, <2>1, <2>2 DEF EpisodeEntry, Fits, Kinds
<1> QED
  BY <1>1, <1>2, <1>3, <1>4, <1>5, <1>6 DEF Known, Fits, Kinds

(* The entry of a canary. *)
LEMMA CanaryFits ==
  ASSUME Ranges
  PROVE  /\ Canary.kind \in Kinds
         /\ Fits(IF Canary.kind = "series" THEN SeriesEntry ELSE EpisodeEntry(1, 1))
<1>1. source \in Sources /\ published \in Nat /\ 1 \in 1..published
  BY SourcesAssumption DEF Ranges
<1>2. Known(Adapter, Canary, source) /\ Canary.kind \in Kinds
  BY <1>1, SourceTables DEF Known
<1>3. Canary.kind = "episode" => "episode" \in DOMAIN Adapter.fetch
  BY <1>1, SourceTables, ComicActionRequests DEF Predicted
<1> QED
  BY <1>1, <1>2, <1>3, SeriesEntryFits, EpisodeEntryFits DEF Kinds

LEMMA InitRanges ==
  ASSUME Init
  PROVE  Ranges
<1>1. /\ source \in Sources /\ published = 1 /\ linked = 1 /\ listed \in {0, 1}
      /\ alien \in SUBSET {"before", "after"} /\ item = SeriesEntry /\ floor = 0
      /\ program = "nothing" /\ outcome = "returned"
  BY DEF Init
<1>2. published \in 1..Newest /\ listed \in 0..published /\ linked \in 1..published
  BY <1>1, SourcesAssumption
<1>3. \A i \in items : Fits(i)
  <2>1. SUFFICES ASSUME NEW i \in items
                 PROVE  Fits(i)
    OBVIOUS
  <2>2. "episode" \in DOMAIN Adapter.fetch /\ i = EpisodeEntry(Series, 1)
    BY DEF Init
  <2> QED
    BY <1>1, <2>2, EpisodeEntryFits DEF Series
<1> QED
  BY <1>1, <1>2, <1>3, SeriesEntryFits DEF Ranges

LEMMA BeginRanges ==
  ASSUME Ranges, NEW p \in {"nothing", "add", "fetch", "canary"}, NEW i, Fits(i), NEW r,
         Begin(p, i, r)
  PROVE  Ranges'
<1>1. /\ UNCHANGED <<source, published, listed, linked, alien, signals, items>>
      /\ program' = p /\ item' = i /\ floor' = Floor(i) /\ outcome' = "none"
  BY DEF Begin, site
<1>2. published \in 1..Newest /\ listed \in 0..published /\ linked \in 1..published
  BY DEF Ranges
<1>3. Floor(i) \in Nat
  <2>1. i.seed \in Nat /\ MaxHops \in Nat /\ listed \in Nat /\ linked \in Nat
    BY <1>2, SourcesAssumption DEF Fits
  <2>2. Larger(i.seed, Smaller(linked, i.seed + MaxHops)) \in Nat
    BY <2>1 DEF Larger, Smaller
  <2>3. Floor(i) \in {Larger(i.seed, Smaller(linked, i.seed + MaxHops)), i.seed, listed}
    BY DEF Floor
  <2> QED
    BY <2>1, <2>2, <2>3
<1>4. \A j : Fits(j) => Fits(j)'
  BY <1>1, <1>2, SourcesAssumption, FitsStays
<1> QED
  BY <1>1, <1>2, <1>3, <1>4 DEF Ranges

LEMMA NextRanges ==
  ASSUME Ranges, [Next]_vars
  PROVE  Ranges'
<1>1. CASE Site
  <2>1. source' = source /\ published <= published' /\ published' \in 1..Newest
    BY <1>1, SiteSteps
  <2>2. \A i : Fits(i) => Fits(i)'
    <3>1. published \in Nat /\ published' \in Nat
      BY <2>1, SourcesAssumption DEF Ranges
    <3> QED
      BY <2>1, <3>1, FitsStays
  <2> QED
    BY <1>1, <2>2, SiteSteps DEF Ranges
<1>2. CASE Add
  <2>1. PICK kind \in {"episode", "series"} \cap DOMAIN Adapter.fetch, e \in 1..published :
          LET i == IF kind = "series" THEN SeriesEntry ELSE EpisodeEntry(e, e)
          IN  Begin("add", i, AddRequests(i))
    BY <1>2 DEF Add
  <2>2. Fits(IF kind = "series" THEN SeriesEntry ELSE EpisodeEntry(e, e))
    <3>1. CASE kind = "series"
      BY <3>1, SeriesEntryFits
    <3>2. CASE kind # "series"
      <4>1. "episode" \in DOMAIN Adapter.fetch /\ e \in Nat /\ published \in Nat
        BY <3>2, SourcesAssumption DEF Ranges
      <4> QED
        BY <3>2, <4>1, EpisodeEntryFits
    <3> QED
      BY <3>1, <3>2
  <2> QED
    BY <2>1, <2>2, BeginRanges
<1>3. CASE Fetch
  <2>1. PICK i \in items : Begin("fetch", i, FetchRequests(i))
    BY <1>3 DEF Fetch
  <2>2. Fits(i)
    BY DEF Ranges
  <2> QED
    BY <2>1, <2>2, BeginRanges
<1>4. CASE RunCanary
  BY <1>4, CanaryFits, BeginRanges DEF RunCanary
<1>5. CASE Read \/ Fail \/ Return
  <2>1. /\ UNCHANGED <<source, published, listed, linked, alien, program, item, floor>>
        /\ outcome' \in {outcome, "raised", "returned"}
        /\ items' \subseteq items \cup {Canonical(item)}
    BY <1>5, RunSteps DEF Return, site, run
  <2>2. \A i : Fits(i) => Fits(i)'
    BY <2>1, SourcesAssumption, FitsStays DEF Ranges
  <2> QED
    BY <2>1, <2>2, CanonicalFits DEF Ranges
<1>6. CASE UNCHANGED vars
  <2>1. UNCHANGED <<source, published, listed, linked, alien, program, item, floor, outcome, items>>
    BY <1>6 DEF vars, site, run
  <2>2. \A i : Fits(i) => Fits(i)'
    BY <2>1, SourcesAssumption, FitsStays DEF Ranges
  <2> QED
    BY <2>1, <2>2 DEF Ranges
<1> QED
  BY <1>1, <1>2, <1>3, <1>4, <1>5, <1>6 DEF Next, Start

-----------------------------------------------------------------------------
(* One entry for a work: all of them are named by the series, and /add     *)
(* keeps one of a name.                                                    *)
OneName ==
  source \notin NamedByEpisode =>
    /\ \A i \in items : i.name = Series
    /\ \A i, j \in items : i = j

LEMMA InitOneName ==
  ASSUME Init
  PROVE  OneName
<1>1. items \in {{}, {EpisodeEntry(Series, 1)}}
  BY DEF Init
<1> QED
  BY <1>1 DEF OneName, EpisodeEntry

LEMMA NextOneName ==
  ASSUME Ranges, OneName, [Next]_vars
  PROVE  OneName'
<1>1. CASE UNCHANGED <<source, items>>
  BY <1>1 DEF OneName
<1>2. CASE Return
  <2>1. source' = source
    BY <1>2 DEF Return, site
  <2>2. CASE \E i \in items : i.name = Canonical(item).name
    <3>1. items' = items
      BY <1>2, <2>2 DEF Return
    <3> QED
      BY <2>1, <3>1 DEF OneName
  <2>3. CASE \A i \in items : i.name # Canonical(item).name
    <3>1. items' = items \/ items' = items \cup {Canonical(item)}
      BY <1>2 DEF Return
    <3>2. source \notin NamedByEpisode => items = {} /\ Canonical(item).name = Series
      BY <2>3, CanonicalFits DEF OneName
    <3> QED
      BY <2>1, <3>1, <3>2 DEF OneName
  <2> QED
    BY <2>2, <2>3
<1>3. CASE Start
  <2>1. UNCHANGED <<source, items>>
    BY <1>3 DEF Start, Add, Fetch, RunCanary, Begin, site
  <2> QED
    BY <1>1, <2>1
<1>4. UNCHANGED vars => UNCHANGED <<source, items>>
  BY DEF vars, site
<1> QED
  BY <1>1, <1>2, <1>3, <1>4, SiteSteps, RunSteps DEF Next

(* A work is in the watchlist once, however it was named: for any number   *)
(* of entries and of episodes.                                             *)
THEOREM WorksAreListedOnce == Spec => []OneEntryPerWork
<1>1. Init => Ranges /\ OneName
  BY InitRanges, InitOneName
<1>2. Ranges /\ OneName /\ [Next]_vars => (Ranges /\ OneName)'
  BY NextRanges, NextOneName
<1>3. Ranges /\ OneName => OneEntryPerWork
  <2>1. SUFFICES ASSUME OneName, source \notin NamedByEpisode
                 PROVE  Cardinality(items) <= 1
    BY DEF OneEntryPerWork, NamedByEpisode
  <2>2. CASE items = {}
    BY <2>2, FS_EmptySet
  <2>3. CASE \E i : i \in items
    <3>1. PICK i : i \in items
      BY <2>3
    <3>2. items = {i}
      BY <2>1, <3>1 DEF OneName
    <3> QED
      BY <3>2, FS_Singleton
  <2> QED
    BY <2>2, <2>3
<1> QED
  BY <1>1, <1>2, <1>3, PTL DEF Spec

-----------------------------------------------------------------------------
(* The steps of a program whose requests are those of a table. *)

(* What a step of such a program does: it raises; or the page at the head  *)
(* has been read, or its failure is caught; or it returns.                 *)
Raises == outcome' = "raised" /\ todo' = <<>>
Passes ==
  /\ todo # <<>> /\ Head(todo).page # "list"
  /\ todo' = Tail(todo) /\ latest' = latest
  /\ UNCHANGED <<outcome, verdict>>
  /\ Head(todo).needs \subseteq signals
ReadsList ==
  /\ todo # <<>> /\ Head(todo).page = "list"
  /\ Head(todo).needs \subseteq signals /\ Lists
  /\ todo' = Tail(todo) /\ latest' = Listed
  /\ UNCHANGED <<outcome, verdict>>
Returns == todo = <<>> /\ todo' = <<>> /\ outcome' = "returned" /\ latest' = latest

LEMMA PlainSteps ==
  ASSUME todo \in Seq(Plain), Read \/ Fail \/ Return
  PROVE  /\ Raises \/ Passes \/ ReadsList \/ Returns
         /\ Raises => todo # <<>>
         /\ failed' \in {failed, TRUE}
         /\ Raises => failed' = TRUE \/ ~(Head(todo).needs \subseteq signals)
                        \/ (Head(todo).page = "list" /\ ~Lists)
<1>1. CASE Return
  BY <1>1 DEF Return, Returns, Raises, Running
<1>2. CASE Read \/ Fail
  <2>1. todo # <<>> /\ Head(todo) \in Plain /\ <<>> \o Tail(todo) = Tail(todo)
    BY <1>2, RunSteps, NextRequest
  <2>2. /\ Head(todo).page \in PlainPages
        /\ Head(todo).page = "latest or not" => Head(todo).needs = {}
    BY <2>1 DEF Plain
  <2>3. CASE ReadPage
    <3>1. Head(todo).page # "list" /\ failed' = failed
      BY <2>3 DEF ReadPage, Next1
    <3>2. CASE Shown /\ Then(<<>>) /\ UNCHANGED <<outcome, latest, verdict>>
      <4>1. Passes
        BY <2>1, <3>1, <3>2 DEF Passes, Shown, Then, Next1
      <4>2. ~Raises
        BY <2>3, <3>2 DEF ReadPage, Running, Raises
      <4> QED
        BY <2>1, <3>1, <4>1, <4>2
    <3>3. CASE ~Shown /\ Raise
      BY <2>1, <3>1, <3>3 DEF Raise, Raises, Shown, Next1
    <3> QED
      BY <2>3, <3>2, <3>3 DEF ReadPage
  <2>4. CASE ReadList
    <3>1. Head(todo).page = "list" /\ failed' = failed
      BY <2>4 DEF ReadList, Next1
    <3>2. CASE Shown /\ Lists /\ latest' = Listed /\ Then(<<>>) /\ UNCHANGED <<outcome, verdict>>
      <4>1. ReadsList
        BY <2>1, <3>1, <3>2 DEF ReadsList, Shown, Then, Next1
      <4>2. ~Raises
        BY <2>4, <3>2 DEF ReadList, Running, Raises
      <4> QED
        BY <2>1, <3>1, <4>1, <4>2
    <3>3. CASE ~(Shown /\ Lists) /\ Raise
      BY <2>1, <3>1, <3>3 DEF Raise, Raises, Shown, Next1
    <3> QED
      BY <2>4, <3>2, <3>3 DEF ReadList
  <2>5. CASE Fail
    <3>1. failed' = TRUE
      BY <2>5 DEF Fail
    <3>2. CASE Head(todo).page = "latest or not"
      <4>1. Then(<<>>) /\ UNCHANGED <<latest, outcome, verdict>>
        BY <2>5, <3>2 DEF Fail, Next1
      <4> QED
        BY <2>1, <2>2, <3>1, <3>2, <4>1 DEF Passes, Then
    <3>3. CASE Head(todo).page # "latest or not"
      <4>1. Head(todo).page \notin {"latest or not", "try feed", "try episode"}
        BY <2>2, <3>3 DEF PlainPages
      <4>2. Raise
        BY <2>5, <4>1 DEF Fail, Next1
      <4> QED
        BY <2>1, <3>1, <4>2 DEF Raise, Raises
    <3> QED
      BY <3>2, <3>3
  <2>6. ~ReadEntry /\ ~ReadNext /\ ~ReadContractEntry /\ ~ReadFeed /\ ~ReadFeedEpisode
    BY <2>2 DEF ReadEntry, ReadNext, ReadContractEntry, ReadFeed, ReadFeedEpisode, PlainPages,
                Next1
  <2> QED
    BY <1>2, <2>3, <2>4, <2>5, <2>6 DEF Read
<1> QED
  BY <1>1, <1>2

-----------------------------------------------------------------------------
(* What a fetch finds. *)

Walks == source = "comic_action" /\ item.kind = "episode"
Found == Misread \/ latest \in Larger(1, floor)..published
SeedFound == Misread \/ item.seed \in Larger(1, floor)..published

(* A fetch that looks at a list, before or after it did. *)
ListProgress == todo \in Seq(Plain) /\ (HasList(todo) \/ Found)

(* A fetch that follows the links from an episode, with n to go; or looks  *)
(* at the feed, because there were none.                                   *)
WalkProgress ==
  \/ todo = <<Entry>>
  \/ \E n \in 1..(MaxHops - 1) :
       todo = <<Hop(n)>> /\ latest = item.seed + MaxHops - n /\ latest <= linked
  \/ todo = <<TryFeed>> /\ SeedFound
  \/ todo = <<TryEpisode>> /\ latest \in 0..published /\ SeedFound
  \/ todo = <<>> /\ Found

FloorInv ==
  IF Walks THEN floor <= Larger(item.seed, Smaller(linked, item.seed + MaxHops))
           ELSE floor <= listed
ProgressInv == Running => IF Walks THEN WalkProgress ELSE ListProgress

FetchInv ==
  program = "fetch" => FloorInv /\ ProgressInv /\ (outcome = "returned" => Found)

LEMMA OneInTodo ==
  ASSUME NEW p
  PROVE  /\ <<p>> # <<>> /\ Head(<<p>>) = p /\ Tail(<<p>>) = <<>>
         /\ <<>> \o <<>> = <<>> /\ \A q : <<q>> \o <<>> = <<q>>
OBVIOUS

LEMMA WalkPages ==
  /\ Entry.page = "entry" /\ TryFeed.page = "try feed" /\ TryEpisode.page = "try episode"
  /\ ContractEntry.page = "contract entry"
  /\ \A n : Hop(n).page = "hop" /\ Hop(n).left = n
  /\ \A s : Seen(s).page = "seen" /\ Seen(s).needs = s
BY DEF Entry, TryFeed, TryEpisode, ContractEntry, Hop, Seen, Page

LEMMA BeginFetch ==
  ASSUME Ranges, Fetch
  PROVE  FetchInv'
<1>1. PICK i \in items : Begin("fetch", i, FetchRequests(i))
  BY DEF Fetch
<1>2. /\ UNCHANGED <<source, published, listed, linked, alien, signals, items>>
      /\ program' = "fetch" /\ item' = i /\ floor' = Floor(i) /\ outcome' = "none"
      /\ todo' = FetchRequests(i)
  BY <1>1 DEF Begin, site
<1>3. Fits(i) /\ source \in Sources
  BY DEF Ranges
<1>4. /\ published \in Nat /\ linked \in Nat /\ listed \in Nat /\ i.seed \in Nat
      /\ MaxHops \in Nat
  BY <1>3, SourcesAssumption DEF Ranges, Fits
<1>5. CASE source = "comic_action" /\ i.kind = "episode"
  <2>1. /\ Adapter = ComicAction /\ DOMAIN Adapter.fetch = {"episode", "series"}
        /\ Adapter.fetch["episode"] = <<Entry>>
    BY <1>3, <1>5, SourceTables, ComicActionRequests
  <2>2. FetchRequests(i) = <<Entry>>
    BY <1>5, <2>1 DEF FetchRequests
  <2>3. /\ Larger(i.seed, Smaller(linked, i.seed + MaxHops)) \in Nat
        /\ i.seed <= Larger(i.seed, Smaller(linked, i.seed + MaxHops))
    BY <1>4 DEF Larger, Smaller
  <2>4. Floor(i) <= Larger(i.seed, Smaller(linked, i.seed + MaxHops))
    <3>1. Floor(i) \in {Larger(i.seed, Smaller(linked, i.seed + MaxHops)), i.seed}
      BY <1>5 DEF Floor
    <3> QED
      BY <1>4, <2>3, <3>1
  <2>5. Walks'
    BY <1>2, <1>5 DEF Walks
  <2> QED
    BY <1>2, <2>2, <2>4, <2>5 DEF FetchInv, FloorInv, ProgressInv, WalkProgress, Larger, Smaller
<1>6. CASE ~(source = "comic_action" /\ i.kind = "episode")
  <2>1. Listing(FetchRequests(i))
    <3>1. i.kind \in Kinds /\ (i.kind = "episode" => "episode" \in DOMAIN Adapter.fetch)
      BY <1>3 DEF Fits
    <3>2. "series" \in DOMAIN Adapter.fetch
      BY <1>3, SourceTables DEF Known
    <3>3. CASE source = "comic_action"
      <4>1. i.kind = "series" /\ Listing(Adapter.fetch["series"])
        BY <1>3, <1>6, <3>1, <3>3, SourceTables, ComicActionRequests DEF Kinds
      <4> QED
        BY <4>1 DEF FetchRequests
    <3>4. CASE source # "comic_action"
      <4>1. \A k \in DOMAIN Adapter.fetch : Listing(Adapter.fetch[k])
        BY <1>3, <3>4, SourceTables DEF Predicted
      <4>2. i.kind \in DOMAIN Adapter.fetch
        BY <3>1, <3>2 DEF Kinds
      <4> QED
        BY <4>1, <4>2 DEF FetchRequests
    <3> QED
      BY <3>3, <3>4
  <2>2. Floor(i) = listed
    BY <1>6 DEF Floor
  <2>3. ~Walks'
    BY <1>2, <1>6 DEF Walks
  <2> QED
    BY <1>2, <1>4, <2>1, <2>2, <2>3 DEF FetchInv, FloorInv, ProgressInv, ListProgress, Listing,
       HasList
<1> QED
  BY <1>5, <1>6

LEMMA SiteFetch ==
  ASSUME Ranges, FetchInv, Site
  PROVE  FetchInv'
<1>1. /\ published <= published' /\ listed <= listed' /\ linked <= linked'
      /\ published' \in 1..Newest /\ listed' \in 0..published' /\ linked' \in 1..published'
      /\ signals' \subseteq signals
      /\ UNCHANGED <<source, alien, items, program, item, floor, outcome, todo, latest, failed>>
  BY SiteSteps
<1>2. /\ published \in Nat /\ listed \in Nat /\ linked \in Nat /\ floor \in Nat
      /\ published' \in Nat /\ listed' \in Nat /\ linked' \in Nat
      /\ item.seed \in Nat /\ MaxHops \in Nat
  BY <1>1, SourcesAssumption DEF Ranges, Fits
<1>3. Misread => Misread'
  BY <1>1 DEF Misread
<1>4. (Found => Found') /\ (SeedFound => SeedFound')
  BY <1>1, <1>2, <1>3 DEF Found, SeedFound, Larger
<1>5. Walks' = Walks /\ Running' = Running
  BY <1>1 DEF Walks, Running
<1>6. FloorInv => FloorInv'
  BY <1>1, <1>2, <1>5 DEF FloorInv, Larger, Smaller
<1>7. ListProgress => ListProgress'
  BY <1>1, <1>4 DEF ListProgress, HasList
<1>8. WalkProgress => WalkProgress'
  <2>1. \A n \in 1..(MaxHops - 1) : latest = item.seed + MaxHops - n /\ latest <= linked
          => latest <= linked'
    BY <1>1, <1>2
  <2>2. latest \in 0..published => latest \in 0..published'
    BY <1>1, <1>2
  <2> QED
    BY <1>1, <1>4, <2>1, <2>2 DEF WalkProgress
<1> QED
  BY <1>1, <1>4, <1>5, <1>6, <1>7, <1>8 DEF FetchInv, ProgressInv

(* The steps of a fetch that follows links. *)
LEMMA WalkSteps ==
  ASSUME Ranges, FloorInv, Walks, Running, WalkProgress, Read \/ Fail
  PROVE  (outcome' = "raised") \/ (outcome' = outcome /\ WalkProgress')
<1>1. /\ Running /\ todo # <<>>
      /\ UNCHANGED <<source, published, listed, linked, alien, signals, items, program, item,
                     floor, steady>>
      /\ outcome' \in {outcome, "raised"}
  BY RunSteps
<1>2. /\ published \in Nat /\ listed \in 0..published /\ linked \in 1..published /\ floor \in Nat
      /\ item.seed \in 1..published /\ MaxHops \in Nat \ {0} /\ alien \in SUBSET {"before", "after"}
      /\ listed \in Nat /\ linked \in Nat /\ item.seed \in Nat
  BY SourcesAssumption DEF Ranges, Fits, Walks
<1>3. Misread' = Misread /\ SeedFound' = SeedFound
  BY <1>1 DEF Misread, SeedFound, Larger
<1>4. floor <= Larger(item.seed, Smaller(linked, item.seed + MaxHops))
  BY DEF FloorInv
<1>5. "next link" \notin signals => Misread
  BY DEF Misread, Walks
<1>6. SUFFICES ASSUME outcome' # "raised"
               PROVE  WalkProgress'
  BY <1>1
<1>7. ~Raise
  BY <1>6 DEF Raise
<1>8. CASE todo = <<Entry>>
  <2>1. Next1.page = "entry" /\ Tail(todo) = <<>>
    BY <1>8, OneInTodo, WalkPages DEF Next1
  <2>2. ReadEntry
    BY <1>7, <2>1 DEF Read, Fail, ReadPage, ReadList, ReadNext, ReadContractEntry, ReadFeed,
       ReadFeedEpisode
  <2>3. CASE HasNext(item.seed)
    <3>1. latest' = item.seed + 1 /\ Then(IF MaxHops = 1 THEN <<>> ELSE <<Hop(MaxHops - 1)>>)
      BY <2>2, <2>3 DEF ReadEntry
    <3>2. item.seed < linked
      BY <2>3 DEF HasNext
    <3>3. CASE MaxHops = 1
      <4>1. todo' = <<>>
        BY <2>1, <3>1, <3>3, OneInTodo DEF Then
      <4>2. Found'
        BY <1>1, <1>2, <1>4, <3>1, <3>2, <3>3 DEF Found, Larger, Smaller
      <4> QED
        BY <4>1, <4>2 DEF WalkProgress
    <3>4. CASE MaxHops # 1
      <4>1. todo' = <<Hop(MaxHops - 1)>>
        BY <2>1, <3>1, <3>4, OneInTodo DEF Then
      <4>2. MaxHops - 1 \in 1..(MaxHops - 1) /\ latest' = item'.seed + MaxHops - (MaxHops - 1)
            /\ latest' <= linked'
        BY <1>1, <1>2, <3>1, <3>2, <3>4
      <4> QED
        BY <4>1, <4>2 DEF WalkProgress
    <3> QED
      BY <3>3, <3>4
  <2>4. CASE ~HasNext(item.seed)
    <3>1. latest' = item.seed /\ Then(IF "series id" \in signals THEN <<TryFeed>> ELSE <<>>)
      BY <2>2, <2>4 DEF ReadEntry
    <3>2. todo' \in {<<TryFeed>>, <<>>}
      BY <2>1, <3>1, OneInTodo DEF Then
    <3>3. SeedFound
      <4>1. CASE "next link" \in signals
        <5>1. ~(item.seed < linked)
          BY <2>4, <4>1 DEF HasNext
        <5>2. item.seed \in Larger(1, floor)..published
          BY <1>2, <1>4, <5>1 DEF Larger, Smaller
        <5> QED
          BY <5>2 DEF SeedFound
      <4> QED
        BY <1>5, <4>1 DEF SeedFound
    <3>4. Found'
      BY <1>1, <1>3, <3>1, <3>3 DEF Found, SeedFound, Larger
    <3> QED
      BY <1>3, <3>2, <3>3, <3>4 DEF WalkProgress
  <2> QED
    BY <2>3, <2>4
<1>9. ASSUME NEW n \in 1..(MaxHops - 1), todo = <<Hop(n)>>,
             latest = item.seed + MaxHops - n, latest <= linked
      PROVE  WalkProgress'
  <2>1. Next1.page = "hop" /\ Next1.left = n /\ Tail(todo) = <<>>
    <3>1. Next1 = Hop(n) /\ Tail(todo) = <<>>
      BY <1>9, OneInTodo DEF Next1
    <3> QED
      BY <3>1, WalkPages
  <2>2. ReadNext
    BY <1>7, <2>1 DEF Read, Fail, ReadPage, ReadList, ReadEntry, ReadContractEntry, ReadFeed,
       ReadFeedEpisode
  <2>3. CASE HasNext(latest)
    <3>1. latest' = latest + 1 /\ Then(IF n = 1 THEN <<>> ELSE <<Hop(n - 1)>>)
      BY <2>1, <2>2, <2>3 DEF ReadNext
    <3>2. latest < linked
      BY <2>3 DEF HasNext
    <3>3. CASE n = 1
      <4>1. todo' = <<>>
        BY <2>1, <3>1, <3>3, OneInTodo DEF Then
      <4>2. Found'
        BY SMTT(30), <1>1, <1>2, <1>4, <1>9, <3>1, <3>2, <3>3 DEF Found, Larger, Smaller
      <4> QED
        BY <4>1, <4>2 DEF WalkProgress
    <3>4. CASE n # 1
      <4>1. todo' = <<Hop(n - 1)>>
        BY <2>1, <3>1, <3>4, OneInTodo DEF Then
      <4>2. /\ n - 1 \in 1..(MaxHops - 1) /\ latest' = item'.seed + MaxHops - (n - 1)
            /\ latest' <= linked'
        BY <1>1, <1>2, <1>9, <3>1, <3>2, <3>4
      <4> QED
        BY <1>1, <4>1, <4>2 DEF WalkProgress
    <3> QED
      BY <3>3, <3>4
  <2>4. CASE ~HasNext(latest)
    <3>1. latest' = latest /\ Then(<<>>)
      BY <2>2, <2>4 DEF ReadNext
    <3>2. todo' = <<>>
      BY <2>1, <3>1, OneInTodo DEF Then
    <3>3. Found'
      <4>1. CASE "next link" \in signals
        <5>1. ~(latest < linked)
          BY <2>4, <4>1 DEF HasNext
        <5>2. latest \in Larger(1, floor)..published
          BY <1>2, <1>4, <1>9, <5>1 DEF Larger, Smaller
        <5> QED
          BY <1>1, <3>1, <5>2 DEF Found, Larger
      <4> QED
        BY <1>3, <1>5, <4>1 DEF Found
    <3> QED
      BY <3>2, <3>3 DEF WalkProgress
  <2> QED
    BY <2>3, <2>4
<1>10. CASE todo = <<TryFeed>> /\ SeedFound
  <2>1. Next1.page = "try feed" /\ Tail(todo) = <<>>
    BY <1>10, OneInTodo, WalkPages DEF Next1
  <2>2. \/ Lists /\ latest' = Listed /\ Then(<<TryEpisode>>)
        \/ latest' = item.seed /\ Then(<<>>)
    BY <1>7, <2>1 DEF Read, Fail, ReadPage, ReadList, ReadEntry, ReadNext, ReadContractEntry,
       ReadFeed, ReadFeedEpisode
  <2>3. CASE Lists /\ latest' = Listed /\ Then(<<TryEpisode>>)
    <3>1. todo' = <<TryEpisode>>
      BY <2>1, <2>3, OneInTodo DEF Then
    <3>2. latest' \in 0..listed
      BY <1>2, <2>3, ReadInListing DEF Walks
    <3>3. latest' \in 0..published'
      BY <1>1, <1>2, <3>2
    <3> QED
      BY <1>3, <1>10, <3>1, <3>3 DEF WalkProgress
  <2>4. CASE latest' = item.seed /\ Then(<<>>)
    <3>1. todo' = <<>>
      BY <2>1, <2>4, OneInTodo DEF Then
    <3>2. Found'
      BY <1>1, <1>3, <1>10, <2>4 DEF Found, SeedFound, Larger
    <3> QED
      BY <3>1, <3>2 DEF WalkProgress
  <2> QED
    BY <2>2, <2>3, <2>4
<1>11. CASE todo = <<TryEpisode>> /\ latest \in 0..published /\ SeedFound
  <2>1. Next1.page = "try episode" /\ Tail(todo) = <<>>
    BY <1>11, OneInTodo, WalkPages DEF Next1
  <2>2. /\ Then(<<>>)
        /\ latest' = item.seed \/ (latest' = latest /\ latest > item.seed)
    BY <1>7, <2>1 DEF Read, Fail, ReadPage, ReadList, ReadEntry, ReadNext, ReadContractEntry,
       ReadFeed, ReadFeedEpisode, PreferFeed
  <2>3. todo' = <<>>
    BY <2>1, <2>2, OneInTodo DEF Then
  <2>4. item.seed \in Larger(1, floor)..published => latest' \in Larger(1, floor)..published
    BY <1>2, <1>11, <2>2 DEF Larger
  <2>5. Found'
    BY <1>1, <1>3, <1>11, <2>4 DEF Found, SeedFound, Larger
  <2> QED
    BY <2>3, <2>5 DEF WalkProgress
<1> QED
  BY <1>1, <1>8, <1>9, <1>10, <1>11 DEF WalkProgress

LEMMA NextFetch ==
  ASSUME Ranges, FetchInv, [Next]_vars
  PROVE  FetchInv'
<1>1. CASE Site
  BY <1>1, SiteFetch
<1>2. CASE Start
  <2>1. CASE Fetch
    BY <2>1, BeginFetch
  <2>2. CASE Add \/ RunCanary
    <3>1. program' \in {"add", "canary"}
      BY <2>2 DEF Add, RunCanary, Begin
    <3> QED
      BY <3>1 DEF FetchInv
  <2> QED
    BY <1>2, <2>1, <2>2 DEF Start
<1>3. CASE Read \/ Fail \/ Return
  <2>1. /\ Running
        /\ UNCHANGED <<source, published, listed, linked, alien, signals, program, item, floor>>
    BY <1>3, RunSteps DEF Return, site, run
  <2>2. SUFFICES ASSUME program = "fetch"
                 PROVE  FetchInv'
    BY <2>1 DEF FetchInv
  <2>3. FloorInv /\ ProgressInv
    BY <2>2 DEF FetchInv
  <2>4. FloorInv' /\ Walks' = Walks /\ Misread' = Misread
    BY <2>1, <2>3 DEF FloorInv, Walks, Misread, Larger, Smaller
  <2>5. CASE Walks
    <3>1. WalkProgress
      BY <2>1, <2>3, <2>5 DEF ProgressInv
    <3>2. CASE Read \/ Fail
      <4>1. (outcome' = "raised") \/ (outcome' = outcome /\ WalkProgress')
        BY <2>1, <2>3, <2>5, <3>1, <3>2, WalkSteps
      <4> QED
        BY <2>1, <2>4, <2>5, <4>1 DEF FetchInv, ProgressInv, Running
    <3>3. CASE Return
      <4>1. todo = <<>> /\ latest' = latest /\ outcome' = "returned"
        BY <3>3 DEF Return
      <4>2. Found
        BY <3>1, <4>1, OneInTodo DEF WalkProgress
      <4>3. Found'
        BY <2>1, <2>4, <4>1, <4>2 DEF Found, Larger
      <4> QED
        BY <2>4, <4>1, <4>3 DEF FetchInv, ProgressInv, Running
    <3> QED
      BY <1>3, <3>2, <3>3
  <2>6. CASE ~Walks
    <3>1. ListProgress /\ todo \in Seq(Plain)
      BY <2>1, <2>3, <2>6 DEF ProgressInv, ListProgress
    <3>2. Raises \/ Passes \/ ReadsList \/ Returns
      BY <1>3, <3>1, PlainSteps
    <3>3. CASE Raises
      BY <2>4, <3>3 DEF Raises, FetchInv, ProgressInv, Running
    <3>4. CASE Passes
      <4>1. todo # <<>> /\ todo' = Tail(todo) /\ latest' = latest /\ outcome' = outcome
            /\ Head(todo).page # "list"
        BY <3>4 DEF Passes
      <4>2. Tail(todo) \in Seq(Plain) /\ (HasList(todo) => HasList(Tail(todo)))
        BY <3>1, <4>1, NextRequest
      <4>3. Found => Found'
        BY <2>1, <2>4, <4>1 DEF Found, Larger
      <4>4. ListProgress'
        BY <3>1, <4>1, <4>2, <4>3 DEF ListProgress, HasList
      <4> QED
        BY <2>1, <2>4, <2>6, <4>1, <4>4 DEF FetchInv, ProgressInv, Running
    <3>5. CASE ReadsList
      <4>1. todo # <<>> /\ todo' = Tail(todo) /\ latest' = Listed /\ outcome' = outcome /\ Lists
        BY <3>5 DEF ReadsList
      <4>2. Tail(todo) \in Seq(Plain)
        BY <3>1, <4>1, NextRequest
      <4>3. listed \in 0..published /\ published \in Nat /\ listed \in Nat /\ alien \in SUBSET {"before", "after"}
            /\ floor \in Nat
        BY SourcesAssumption DEF Ranges
      <4>4. floor <= listed
        BY <2>3, <2>6 DEF FloorInv
      <4>5. ~Misread => latest' = listed /\ listed > 0
        BY <4>1, <4>3, <4>4, ReadInListing
      <4>6. listed > 0 => listed \in Larger(1, floor)..published
        BY <4>3, <4>4 DEF Larger
      <4>7. Found'
        BY <2>1, <2>4, <4>5, <4>6 DEF Found, Larger
      <4>8. ListProgress'
        BY <4>1, <4>2, <4>7 DEF ListProgress
      <4> QED
        BY <2>1, <2>4, <2>6, <4>1, <4>8 DEF FetchInv, ProgressInv, Running
    <3>6. CASE Returns
      <4>1. todo = <<>> /\ latest' = latest /\ outcome' = "returned"
        BY <3>6 DEF Returns
      <4>2. Found'
        BY <2>1, <2>4, <3>1, <4>1, NoRequests DEF ListProgress, Found, Larger
      <4> QED
        BY <2>4, <4>1, <4>2 DEF FetchInv, ProgressInv, Running
    <3> QED
      BY <3>2, <3>3, <3>4, <3>5, <3>6
  <2> QED
    BY <2>5, <2>6
<1>4. CASE UNCHANGED vars
  <2>1. UNCHANGED <<source, published, listed, linked, alien, signals, program, item, floor,
                    outcome, todo, latest>>
    BY <1>4 DEF vars, site, run
  <2> QED
    BY <2>1 DEF FetchInv, FloorInv, ProgressInv, Walks, Running, WalkProgress, ListProgress,
       Found, SeedFound, Misread, HasList, Larger, Smaller
<1> QED
  BY <1>1, <1>2, <1>3, <1>4 DEF Next

(* A fetch that returns from a listing that is not misread has an episode  *)
(* of the work, and none older than what was listed when it began --       *)
(* webアクション: than where max_hops links led -- whatever the site does     *)
(* meanwhile: for any number of episodes, any max_hops and any redesign.   *)
THEOREM FetchesFindTheLatest == Spec => []Fetched
<1>1. Init => Ranges /\ FetchInv
  BY InitRanges DEF Init, FetchInv
<1>2. Ranges /\ FetchInv /\ [Next]_vars => (Ranges /\ FetchInv)'
  BY NextRanges, NextFetch
<1>3. FetchInv => Fetched
  BY DEF FetchInv, Fetched, Found
<1> QED
  BY <1>1, <1>2, <1>3, PTL DEF Spec

-----------------------------------------------------------------------------
(* What a canary promises. *)

LEMMA SameSite ==
  ASSUME UNCHANGED <<source, published, listed, linked, alien, signals>>
  PROVE  /\ Lists' <=> Lists
         /\ Listed' = Listed
         /\ Canary' = Canary
         /\ HasNext(1)' <=> HasNext(1)
<1>1. (Lists' <=> Lists) /\ Canary' = Canary /\ (HasNext(1)' <=> HasNext(1))
  BY DEF Lists, HasOwnCodes, Canary, HasNext
<1>2. Listed' = Listed
  BY DEF Listed, PiccomaLatest, BookwalkerLatest, ComicWalkerLatest, KakuyomuLatest,
     NicovideoMangaLatest, FirecrossLatest, GaugauLatest, FeedLatest, HasOwnCodes, NewestFirst,
     OldestFirst, Other, FirstTaken, LastTaken, Taken
<1> QED
  BY <1>1, <1>2

(* A canary looks at pages that show all it demands, and at a list; that   *)
(* of webアクション follows the links, and cannot run out of them.           *)
Shows == Demands(Canary.requests) \subseteq signals

ListCanary ==
  /\ todo \in Seq(Plain)
  /\ Demands(Canary.requests) \subseteq signals \cup Demands(todo)
  /\ HasList(todo) \/ (Lists /\ latest = Listed)

WalkCanary ==
  /\ item.seed = 1
  /\ \/ todo = <<ContractEntry, Seen(Titles)>>
     \/ \E n \in Nat : /\ todo = <<Hop(n), Seen(Titles)>>
                       /\ HasNext(1) /\ latest \in 1..linked /\ n + latest = Newest + 2
     \/ todo \in {<<Seen(Titles)>>, <<>>} /\ HasNext(1) /\ latest = linked

CanaryInv ==
  program = "canary" /\ Running /\ steady =>
    IF source = "comic_action" THEN WalkCanary ELSE ListCanary

VerdictInv ==
  verdict # NoVerdict =>
    IF source = "comic_action" THEN HasNext(1) /\ verdict = linked
                               ELSE Shows /\ Lists /\ verdict = Listed

(* The fetches whose end a verdict tells.                                  *)
Told ==
  /\ program = "fetch" /\ failed = FALSE
  /\ verdict # NoVerdict
  /\ item.kind \in {Canary.kind, "series"}
  /\ source = "comic_action" =>
       item.kind = "episode" /\ item.seed = 1 /\ linked <= 1 + MaxHops

ListTold ==
  /\ todo \in Seq(Plain)
  /\ Demands(todo) \subseteq Demands(Canary.requests)
  /\ HasList(todo) \/ latest = verdict

WalkTold ==
  \/ todo = <<Entry>>
  \/ \E n \in 1..(MaxHops - 1) : todo = <<Hop(n)>> /\ latest = 1 + MaxHops - n /\ latest <= linked
  \/ todo = <<>> /\ latest = verdict

ToldInv ==
  Told => /\ outcome # "raised"
          /\ Running => IF source = "comic_action" THEN WalkTold ELSE ListTold
          /\ outcome = "returned" => latest = verdict

PredictInv == CanaryInv /\ VerdictInv /\ ToldInv

(* A verdict is the end of a canary. *)
LEMMA VerdictSteps ==
  ASSUME Read \/ Fail
  PROVE  /\ verdict' \in {verdict, NoVerdict}
         /\ program # "canary" => verdict' = verdict
         /\ Read => failed' = failed
         /\ Fail => failed' = TRUE
<1>1. Raise => /\ verdict' \in {verdict, NoVerdict}
               /\ program # "canary" => verdict' = verdict
  BY DEF Raise
<1>2. CASE Fail
  <2>1. failed' = TRUE /\ (Raise \/ verdict' = verdict)
    BY <1>2 DEF Fail
  <2>2. ~Read \/ failed' = failed
    BY DEF Read, ReadPage, ReadList, ReadEntry, ReadNext, ReadContractEntry, ReadFeed,
       ReadFeedEpisode
  <2> QED
    BY <1>1, <2>1, <2>2
<1>3. CASE Read /\ ~Fail
  <2>1. failed' = failed /\ (Raise \/ verdict' = verdict)
    BY <1>3 DEF Read, ReadPage, ReadList, ReadEntry, ReadNext, ReadContractEntry, ReadFeed,
       ReadFeedEpisode
  <2> QED
    BY <1>1, <1>3, <2>1
<1> QED
  BY <1>2, <1>3

LEMMA BeginPredict ==
  ASSUME Ranges, PredictInv, Start
  PROVE  PredictInv'
<1>1. PICK p, i, r : p \in {"add", "fetch", "canary"} /\ Begin(p, i, r) /\ Fits(i)
        /\ (p = "add" => Add) /\ (p = "fetch" => r = FetchRequests(i))
        /\ (p = "canary" => /\ r = Canary.requests
                            /\ i = IF Canary.kind = "series" THEN SeriesEntry
                                                             ELSE EpisodeEntry(1, 1))
  <2>1. CASE Add
    <3>1. PICK kind \in {"episode", "series"} \cap DOMAIN Adapter.fetch, e \in 1..published :
            LET i == IF kind = "series" THEN SeriesEntry ELSE EpisodeEntry(e, e)
            IN  Begin("add", i, AddRequests(i))
      BY <2>1 DEF Add
    <3>2. Fits(IF kind = "series" THEN SeriesEntry ELSE EpisodeEntry(e, e))
      BY SourcesAssumption, SeriesEntryFits, EpisodeEntryFits DEF Ranges
    <3> QED
      BY <2>1, <3>1, <3>2
  <2>2. CASE Fetch
    BY <2>2 DEF Fetch, Ranges
  <2>3. CASE RunCanary
    BY <2>3, CanaryFits DEF RunCanary
  <2> QED
    BY <2>1, <2>2, <2>3 DEF Start
<1>2. /\ UNCHANGED <<source, published, listed, linked, alien, signals, items, verdict>>
      /\ program' = p /\ item' = i /\ outcome' = "none"
      /\ todo' = r /\ failed' = FALSE
  BY <1>1 DEF Begin, site
<1>3. source \in Sources
  BY DEF Ranges
<1>4. (Lists' <=> Lists) /\ Listed' = Listed /\ Canary' = Canary /\ (HasNext(1)' <=> HasNext(1))
  BY <1>2, SameSite
<1>5. VerdictInv'
  BY <1>2, <1>4 DEF PredictInv, VerdictInv, Shows, Demands, NoVerdict
<1>6. CanaryInv'
  <2>1. SUFFICES ASSUME p = "canary"
                 PROVE  IF source' = "comic_action" THEN WalkCanary' ELSE ListCanary'
    BY <1>2 DEF CanaryInv
  <2>2. todo' = Canary.requests
    BY <1>1, <1>2, <2>1
  <2>3. CASE source = "comic_action"
    <3>1. Canary = ComicActionCanary /\ Canary.requests = <<ContractEntry, Seen(Titles)>>
      BY <1>3, <2>3, SourceTables, ComicActionRequests
    <3>2. Canary.kind = "episode"
      BY <3>1 DEF ComicActionCanary
    <3>3. i.seed = 1
      BY <1>1, <2>1, <3>2 DEF EpisodeEntry
    <3> QED
      BY <1>2, <2>2, <2>3, <3>1, <3>3 DEF WalkCanary
  <2>4. CASE source # "comic_action"
    <3>1. Listing(Canary.requests)
      BY <1>3, <2>4, SourceTables DEF Predicted
    <3> QED
      BY <1>2, <1>4, <2>2, <2>4, <3>1 DEF ListCanary, Listing, HasList, Demands
  <2> QED
    BY <2>3, <2>4
<1>7. ToldInv'
  <2>1. SUFFICES ASSUME p = "fetch", Told'
                 PROVE  IF source' = "comic_action" THEN WalkTold' ELSE ListTold'
    BY <1>2 DEF ToldInv, Told, Running
  <2>2. todo' = FetchRequests(i) /\ i.kind \in {Canary.kind, "series"} /\ i.kind \in Kinds
    BY <1>1, <1>2, <1>4, <2>1 DEF Told, Fits
  <2>3. CASE source = "comic_action"
    <3>1. i.kind = "episode"
      BY <1>2, <2>1, <2>3 DEF Told
    <3>2. /\ Adapter = ComicAction /\ DOMAIN Adapter.fetch = {"episode", "series"}
          /\ Adapter.fetch["episode"] = <<Entry>>
      BY <1>3, <2>3, SourceTables, ComicActionRequests
    <3>3. FetchRequests(i) = <<Entry>>
      BY <3>1, <3>2 DEF FetchRequests
    <3> QED
      BY <1>2, <2>2, <2>3, <3>3 DEF WalkTold
  <2>4. CASE source # "comic_action"
    <3>1. Predicted(Adapter, Canary)
      BY <1>3, <2>4, SourceTables
    <3>2. i.kind \in DOMAIN Adapter.fetch
      BY <1>3, <2>2, <3>1, SourceTables DEF Known, Predicted
    <3>3. \E k \in DOMAIN Adapter.fetch \cap {Canary.kind, "series", "named"} :
            FetchRequests(i) = Adapter.fetch[k]
      BY <2>2, <3>2 DEF FetchRequests
    <3>4. Listing(FetchRequests(i)) /\ Demands(FetchRequests(i)) \subseteq Demands(Canary.requests)
      BY <3>1, <3>3 DEF Predicted
    <3> QED
      BY <1>2, <1>4, <2>2, <2>4, <3>4 DEF ListTold, Listing, HasList, Demands
  <2> QED
    BY <2>3, <2>4
<1> QED
  BY <1>5, <1>6, <1>7 DEF PredictInv

LEMMA TwoInTodo ==
  ASSUME NEW p, NEW q
  PROVE  /\ <<p, q>> # <<>> /\ Head(<<p, q>>) = p /\ Tail(<<p, q>>) = <<q>>
         /\ <<>> \o <<q>> = <<q>> /\ \A r : <<r>> \o <<q>> = <<r, q>>
<1>1. /\ <<p, q>> # <<>> /\ Head(<<p, q>>) = p /\ Tail(<<p, q>>) = <<q>>
      /\ <<>> \o <<q>> = <<q>>
  OBVIOUS
<1>2. ASSUME NEW r
      PROVE  <<r>> \o <<q>> = <<r, q>>
  <2> DEFINE S == {r, q}
  <2>1. r \in S /\ q \in S
    OBVIOUS
  <2> HIDE DEF S
  <2>2. /\ <<r>> \in Seq(S) /\ Len(<<r>>) = 1 /\ <<r>>[1] = r
        /\ <<q>> \in Seq(S) /\ Len(<<q>>) = 1 /\ <<q>>[1] = q
        /\ <<r, q>> \in Seq(S) /\ Len(<<r, q>>) = 2 /\ <<r, q>>[1] = r /\ <<r, q>>[2] = q
    BY <2>1
  <2> DEFINE one == <<r>>
             other == <<q>>
             both == <<r, q>>
  <2> HIDE DEF one, other, both
  <2>3. /\ one \o other \in Seq(S) /\ Len(one \o other) = 2
        /\ (one \o other)[1] = r /\ (one \o other)[2] = q
    BY <2>2 DEF one, other
  <2>4. \A t \in Seq(S) : Len(t) = 2 /\ t[1] = r /\ t[2] = q => t = both
    BY <2>2 DEF both
  <2>5. one \o other = both
    BY <2>3, <2>4
  <2> QED
    BY <2>5 DEF one, other, both
<1> QED
  BY <1>1, <1>2

(* The steps of the canary of webアクション, on a site that stays the same. *)
LEMMA WalkCanarySteps ==
  ASSUME Ranges, WalkCanary, Running, Read \/ Fail, outcome' # "raised"
  PROVE  WalkCanary'
<1>1. /\ todo # <<>>
      /\ UNCHANGED <<source, published, listed, linked, alien, signals, item>>
  BY RunSteps
<1>2. (HasNext(1)' <=> HasNext(1)) /\ item'.seed = 1 /\ item.seed = 1
  BY <1>1, SameSite DEF WalkCanary
<1>3. linked \in Nat /\ linked <= Newest /\ Newest \in Nat
  BY SourcesAssumption DEF Ranges
<1>4. ~Raise
  BY DEF Raise
<1>5. CASE todo = <<ContractEntry, Seen(Titles)>>
  <2>1. Next1.page = "contract entry" /\ Tail(todo) = <<Seen(Titles)>>
    BY <1>5, TwoInTodo, WalkPages DEF Next1
  <2>2. HasNext(item.seed) /\ latest' = item.seed + 1 /\ Then(<<Hop(Newest)>>)
    BY <1>4, <2>1 DEF Read, Fail, ReadPage, ReadList, ReadEntry, ReadNext, ReadContractEntry,
       ReadFeed, ReadFeedEpisode
  <2>3. todo' = <<Hop(Newest), Seen(Titles)>>
    BY <2>1, <2>2, TwoInTodo DEF Then
  <2>4. HasNext(1) /\ latest' = 2
    BY <1>2, <2>2
  <2>5. 1 < linked
    BY <2>4, Zenon DEF HasNext
  <2>6. latest' \in 1..linked' /\ Newest + latest' = Newest + 2
    BY <1>1, <1>3, <2>4, <2>5
  <2> QED
    BY <1>2, <1>3, <2>3, <2>4, <2>6 DEF WalkCanary
<1>6. ASSUME NEW n \in Nat, todo = <<Hop(n), Seen(Titles)>>, HasNext(1), latest \in 1..linked,
             n + latest = Newest + 2
      PROVE  WalkCanary'
  <2>1. Next1.page = "hop" /\ Next1.left = n /\ Tail(todo) = <<Seen(Titles)>>
    <3>1. Next1 = Hop(n) /\ Tail(todo) = <<Seen(Titles)>>
      BY <1>6, TwoInTodo DEF Next1
    <3> QED
      BY <3>1, WalkPages
  <2>2. ReadNext
    BY <1>4, <2>1 DEF Read, Fail, ReadPage, ReadList, ReadEntry, ReadContractEntry, ReadFeed,
       ReadFeedEpisode
  <2>3. CASE HasNext(latest)
    <3>1. latest < linked
      BY <2>3 DEF HasNext
    <3>2. n # 1 /\ n - 1 \in Nat
      BY <1>3, <1>6, <3>1
    <3>3. latest' = latest + 1 /\ Then(<<Hop(n - 1)>>)
      BY <2>1, <2>2, <2>3, <3>2 DEF ReadNext
    <3>4. todo' = <<Hop(n - 1), Seen(Titles)>>
      BY <2>1, <3>3, TwoInTodo DEF Then
    <3>5. latest' \in 1..linked' /\ (n - 1) + latest' = Newest + 2
      BY <1>1, <1>3, <1>6, <3>1, <3>3
    <3> QED
      BY <1>2, <1>6, <3>2, <3>4, <3>5 DEF WalkCanary
  <2>4. CASE ~HasNext(latest)
    <3>1. latest' = latest /\ Then(<<>>)
      BY <2>2, <2>4 DEF ReadNext
    <3>2. todo' = <<Seen(Titles)>>
      BY <2>1, <3>1, TwoInTodo DEF Then
    <3>3. ~(latest < linked)
      BY <1>6, <2>4 DEF HasNext
    <3>4. latest' = linked'
      BY <1>1, <1>3, <1>6, <3>1, <3>3
    <3> QED
      BY <1>2, <1>6, <3>2, <3>4 DEF WalkCanary
  <2> QED
    BY <2>3, <2>4
<1>7. CASE todo = <<Seen(Titles)>> /\ HasNext(1) /\ latest = linked
  <2>1. Next1.page = "seen" /\ Tail(todo) = <<>>
    <3>1. Next1 = Seen(Titles) /\ Tail(todo) = <<>>
      BY <1>7, OneInTodo DEF Next1
    <3> QED
      BY <3>1, WalkPages
  <2>2. latest' = latest /\ Then(<<>>)
    BY <1>4, <2>1 DEF Read, Fail, NoRequest, ReadPage, ReadList, ReadEntry, ReadNext,
       ReadContractEntry, ReadFeed, ReadFeedEpisode
  <2>3. todo' = <<>>
    BY <2>1, <2>2, OneInTodo DEF Then
  <2> QED
    BY <1>1, <1>2, <1>7, <2>2, <2>3 DEF WalkCanary
<1> QED
  BY <1>1, <1>5, <1>6, <1>7 DEF WalkCanary

(* The steps of a fetch from the contract's URL of webアクション. *)
LEMMA WalkToldSteps ==
  ASSUME Ranges, WalkTold, VerdictInv, Told, source = "comic_action", Running, Read
  PROVE  outcome' = outcome /\ WalkTold'
<1>1. /\ todo # <<>>
      /\ UNCHANGED <<source, published, listed, linked, alien, signals, item>>
  BY RunSteps
<1>2. HasNext(1) /\ verdict = linked /\ linked <= 1 + MaxHops /\ item.seed = 1
  BY DEF VerdictInv, Told
<1>3. verdict' = linked /\ linked <= 1 + MaxHops /\ item.seed = 1
  BY <1>2, VerdictSteps DEF Told
<1>4. "next link" \in signals /\ 1 < linked
  BY <1>2, Zenon DEF HasNext
<1>5. linked \in Nat /\ MaxHops \in Nat \ {0} /\ 1 < linked
  <2>1. linked \in Nat /\ MaxHops \in Nat \ {0}
    BY SourcesAssumption DEF Ranges
  <2> QED
    BY <1>4, <2>1
<1>6. CASE todo = <<Entry>>
  <2>1. Next1.page = "entry" /\ Tail(todo) = <<>>
    BY <1>6, OneInTodo, WalkPages DEF Next1
  <2>2. ReadEntry
    BY <2>1 DEF Read, ReadPage, ReadList, ReadNext, ReadContractEntry, ReadFeed,
       ReadFeedEpisode
  <2>3. /\ latest' = 2 /\ outcome' = outcome
        /\ Then(IF MaxHops = 1 THEN <<>> ELSE <<Hop(MaxHops - 1)>>)
    BY <1>2, <2>2 DEF ReadEntry
  <2>4. CASE MaxHops = 1
    <3>1. todo' = <<>>
      BY <2>1, <2>3, <2>4, OneInTodo DEF Then
    <3> QED
      BY <1>3, <1>5, <2>3, <2>4, <3>1 DEF WalkTold
  <2>5. CASE MaxHops # 1
    <3>1. todo' = <<Hop(MaxHops - 1)>>
      BY <2>1, <2>3, <2>5, OneInTodo DEF Then
    <3>2. /\ MaxHops - 1 \in 1..(MaxHops - 1) /\ latest' = 1 + MaxHops - (MaxHops - 1)
          /\ latest' <= linked'
      BY <1>1, <1>5, <2>3, <2>5
    <3> QED
      BY <2>3, <3>1, <3>2 DEF WalkTold
  <2> QED
    BY <2>4, <2>5
<1>7. ASSUME NEW n \in 1..(MaxHops - 1), todo = <<Hop(n)>>, latest = 1 + MaxHops - n,
             latest <= linked
      PROVE  outcome' = outcome /\ WalkTold'
  <2>1. Next1.page = "hop" /\ Next1.left = n /\ Tail(todo) = <<>>
    <3>1. Next1 = Hop(n) /\ Tail(todo) = <<>>
      BY <1>7, OneInTodo DEF Next1
    <3> QED
      BY <3>1, WalkPages
  <2>2. ReadNext
    BY <2>1 DEF Read, ReadPage, ReadList, ReadEntry, ReadContractEntry, ReadFeed,
       ReadFeedEpisode
  <2>3. CASE HasNext(latest)
    <3>1. /\ latest' = latest + 1 /\ outcome' = outcome
          /\ Then(IF n = 1 THEN <<>> ELSE <<Hop(n - 1)>>)
      BY <2>1, <2>2, <2>3 DEF ReadNext
    <3>2. latest < linked
      BY <2>3 DEF HasNext
    <3>3. CASE n = 1
      <4>1. todo' = <<>>
        BY <2>1, <3>1, <3>3, OneInTodo DEF Then
      <4>2. latest' = verdict'
        BY <1>3, <1>5, <1>7, <3>1, <3>2, <3>3
      <4> QED
        BY <3>1, <4>1, <4>2 DEF WalkTold
    <3>4. CASE n # 1
      <4>1. todo' = <<Hop(n - 1)>>
        BY <2>1, <3>1, <3>4, OneInTodo DEF Then
      <4>2. /\ n - 1 \in 1..(MaxHops - 1) /\ latest' = 1 + MaxHops - (n - 1)
            /\ latest' <= linked'
        BY <1>1, <1>5, <1>7, <3>1, <3>2, <3>4
      <4> QED
        BY <3>1, <4>1, <4>2 DEF WalkTold
    <3> QED
      BY <3>3, <3>4
  <2>4. CASE ~HasNext(latest)
    <3>1. latest' = latest /\ outcome' = outcome /\ Then(<<>>)
      BY <2>2, <2>4 DEF ReadNext
    <3>2. todo' = <<>>
      BY <2>1, <3>1, OneInTodo DEF Then
    <3>3. ~(latest < linked)
      BY <1>4, <2>4 DEF HasNext
    <3>4. latest' = verdict'
      BY <1>3, <1>5, <1>7, <3>1, <3>3
    <3> QED
      BY <3>1, <3>2, <3>4 DEF WalkTold
  <2> QED
    BY <2>3, <2>4
<1> QED
  BY <1>1, <1>6, <1>7 DEF WalkTold

(* The steps of other canaries and fetches, on a site that stays the same. *)
LEMMA ListCanarySteps ==
  ASSUME Ranges, ListCanary, Read \/ Fail, outcome' # "raised"
  PROVE  ListCanary'
<1>1. UNCHANGED <<source, published, listed, linked, alien, signals>>
  BY RunSteps
<1>2. (Lists' <=> Lists) /\ Listed' = Listed /\ Canary' = Canary
  BY <1>1, SameSite
<1>3. Demands(Canary.requests)' = Demands(Canary.requests)
  BY <1>2 DEF Demands
<1>4. todo \in Seq(Plain) /\ todo # <<>>
  BY RunSteps DEF ListCanary
<1>5. Passes \/ ReadsList
  BY <1>4, PlainSteps DEF Raises, Returns
<1>6. /\ todo' = Tail(todo) /\ Tail(todo) \in Seq(Plain)
      /\ Demands(todo) = Head(todo).needs \cup Demands(Tail(todo))
      /\ Head(todo).needs \subseteq signals
      /\ HasList(todo) => Head(todo).page = "list" \/ HasList(Tail(todo))
  BY <1>4, <1>5, NextRequest DEF Passes, ReadsList
<1>7. /\ todo' \in Seq(Plain)
      /\ Demands(Canary.requests)' \subseteq signals' \cup Demands(todo')
  BY <1>1, <1>3, <1>6 DEF ListCanary
<1>8. CASE Passes
  <2>1. HasList(todo') \/ (Lists /\ latest' = Listed)
    BY <1>6, <1>8 DEF Passes, ListCanary
  <2> QED
    BY <1>2, <1>7, <2>1 DEF ListCanary, HasList, Demands
<1>9. CASE ReadsList
  <2>1. Lists /\ latest' = Listed
    BY <1>9 DEF ReadsList
  <2> QED
    BY <1>2, <1>7, <2>1 DEF ListCanary, HasList, Demands
<1> QED
  BY <1>5, <1>8, <1>9

LEMMA ListToldSteps ==
  ASSUME Ranges, ListTold, VerdictInv, Told, source # "comic_action", Read
  PROVE  outcome' = outcome /\ ListTold'
<1>1. UNCHANGED <<source, published, listed, linked, alien, signals>>
  BY RunSteps
<1>2. Canary' = Canary /\ Demands(Canary.requests)' = Demands(Canary.requests)
  BY <1>1, SameSite DEF Demands
<1>3. /\ Shows /\ Lists /\ verdict = Listed /\ verdict' = verdict /\ failed' = FALSE
  BY VerdictSteps DEF VerdictInv, Told
<1>4. todo \in Seq(Plain) /\ todo # <<>>
  BY RunSteps DEF ListTold
<1>5. /\ Tail(todo) \in Seq(Plain)
      /\ Demands(todo) = Head(todo).needs \cup Demands(Tail(todo))
      /\ HasList(todo) => Head(todo).page = "list" \/ HasList(Tail(todo))
  BY <1>4, NextRequest
<1>6. Head(todo).needs \subseteq signals
  BY <1>3, <1>5 DEF ListTold, Shows
<1>7. Passes \/ ReadsList
  BY <1>3, <1>4, <1>6, PlainSteps DEF Returns
<1>8. todo' = Tail(todo) /\ outcome' = outcome
  BY <1>7 DEF Passes, ReadsList
<1>9. HasList(todo') \/ latest' = verdict'
  BY <1>3, <1>5, <1>7, <1>8 DEF Passes, ReadsList, ListTold
<1>10. Demands(todo') \subseteq Demands(Canary.requests)'
  BY <1>2, <1>5, <1>8 DEF ListTold
<1> QED
  BY <1>5, <1>8, <1>9, <1>10 DEF ListTold, HasList, Demands

LEMMA NextPredict ==
  ASSUME Ranges, PredictInv, [Next]_vars
  PROVE  PredictInv'
<1>1. CASE Site
  <2>1. verdict' = NoVerdict /\ steady' = FALSE
    BY <1>1, SiteSteps
  <2> QED
    BY <2>1 DEF PredictInv, CanaryInv, VerdictInv, ToldInv, Told, NoVerdict
<1>2. CASE Start
  BY <1>2, BeginPredict
<1>3. CASE Read \/ Fail
  <2>1. /\ Running /\ todo # <<>>
        /\ UNCHANGED <<source, published, listed, linked, alien, signals, items, program, item,
                       floor, steady>>
        /\ outcome' \in {outcome, "raised"}
    BY <1>3, RunSteps
  <2>2. /\ verdict' \in {verdict, NoVerdict}
        /\ program # "canary" => verdict' = verdict
        /\ Read => failed' = failed
        /\ Fail => failed' = TRUE
    BY <1>3, VerdictSteps
  <2>3. (Lists' <=> Lists) /\ Listed' = Listed /\ Canary' = Canary /\ (HasNext(1)' <=> HasNext(1))
    BY <2>1, SameSite
  <2>4. VerdictInv'
    BY <2>1, <2>2, <2>3 DEF PredictInv, VerdictInv, Shows, Demands, NoVerdict
  <2>5. CanaryInv'
    <3>1. SUFFICES ASSUME program = "canary", outcome' # "raised", steady
                   PROVE  IF source = "comic_action" THEN WalkCanary' ELSE ListCanary'
      BY <2>1 DEF CanaryInv, Running
    <3>2. IF source = "comic_action" THEN WalkCanary ELSE ListCanary
      BY <2>1, <3>1 DEF PredictInv, CanaryInv
    <3> QED
      BY <1>3, <2>1, <3>1, <3>2, WalkCanarySteps, ListCanarySteps
  <2>6. ToldInv'
    <3>1. SUFFICES ASSUME Told'
                   PROVE  ToldInv'
      BY DEF ToldInv
    <3>2. program = "fetch" /\ failed' = FALSE /\ verdict' = verdict
      BY <2>1, <2>2, <3>1 DEF Told
    <3>3. Read /\ failed = FALSE
      BY <1>3, <2>2, <3>2
    <3>4. Told
      BY <2>1, <2>3, <3>1, <3>2, <3>3 DEF Told, NoVerdict
    <3>5. IF source = "comic_action" THEN WalkTold ELSE ListTold
      BY <2>1, <3>4 DEF PredictInv, ToldInv
    <3>6. outcome' = outcome /\ IF source = "comic_action" THEN WalkTold' ELSE ListTold'
      BY <2>1, <3>3, <3>4, <3>5, WalkToldSteps, ListToldSteps DEF PredictInv
    <3> QED
      BY <2>1, <3>6 DEF ToldInv, Running
  <2> QED
    BY <2>4, <2>5, <2>6 DEF PredictInv
<1>4. CASE Return
  <2>1. /\ UNCHANGED <<source, published, listed, linked, alien, signals, program, item, todo,
                       latest, failed, steady>>
        /\ Running /\ todo = <<>> /\ outcome' = "returned"
        /\ program # "canary" => verdict' = verdict
        /\ program = "canary" => verdict' = IF steady THEN latest ELSE NoVerdict
    BY <1>4 DEF Return, site, run
  <2>2. (Lists' <=> Lists) /\ Listed' = Listed /\ Canary' = Canary /\ (HasNext(1)' <=> HasNext(1))
    BY <2>1, SameSite
  <2>3. CanaryInv'
    BY <2>1 DEF CanaryInv, Running
  <2>4. VerdictInv'
    <3>1. CASE program # "canary"
      BY <2>1, <2>2, <3>1 DEF PredictInv, VerdictInv, Shows, Demands, NoVerdict
    <3>2. CASE program = "canary" /\ ~steady
      BY <2>1, <3>2 DEF VerdictInv, NoVerdict
    <3>3. CASE program = "canary" /\ steady /\ source = "comic_action"
      <4>1. WalkCanary /\ verdict' = latest
        BY <2>1, <3>3 DEF PredictInv, CanaryInv
      <4>2. HasNext(1) /\ latest = linked
        BY <2>1, <4>1, OneInTodo, TwoInTodo DEF WalkCanary
      <4> QED
        BY <2>1, <2>2, <3>3, <4>1, <4>2 DEF VerdictInv
    <3>4. CASE program = "canary" /\ steady /\ source # "comic_action"
      <4>1. ListCanary /\ verdict' = latest
        BY <2>1, <3>4 DEF PredictInv, CanaryInv
      <4>2. Shows /\ Lists /\ latest = Listed
        BY <2>1, <4>1, NoRequests DEF ListCanary, Shows
      <4> QED
        BY <2>1, <2>2, <3>4, <4>1, <4>2 DEF VerdictInv, Shows, Demands
    <3> QED
      BY <3>1, <3>2, <3>3, <3>4
  <2>5. ToldInv'
    <3>1. SUFFICES ASSUME Told'
                   PROVE  latest' = verdict'
      BY <2>1 DEF ToldInv, Running
    <3>2. Told /\ verdict' = verdict
      BY <2>1, <2>2, <3>1 DEF Told, NoVerdict
    <3>3. IF source = "comic_action" THEN WalkTold ELSE ListTold
      BY <2>1, <3>2 DEF PredictInv, ToldInv
    <3>4. latest = verdict
      BY <2>1, <3>3, OneInTodo, NoRequests DEF WalkTold, ListTold
    <3> QED
      BY <2>1, <3>2, <3>4
  <2> QED
    BY <2>3, <2>4, <2>5 DEF PredictInv
<1>5. CASE UNCHANGED vars
  <2>1. UNCHANGED <<source, published, listed, linked, alien, signals, program, item, floor,
                    outcome, todo, latest, failed, steady, verdict>>
    BY <1>5 DEF vars, site, run
  <2>2. (Lists' <=> Lists) /\ Listed' = Listed /\ Canary' = Canary /\ (HasNext(1)' <=> HasNext(1))
    BY <2>1, SameSite
  <2>3. CanaryInv'
    BY <2>1, <2>2 DEF PredictInv, CanaryInv, Running, WalkCanary, ListCanary, HasList, Demands
  <2>4. VerdictInv'
    BY <2>1, <2>2 DEF PredictInv, VerdictInv, Shows, Demands, NoVerdict
  <2>5. ToldInv'
    BY <2>1, <2>2 DEF PredictInv, ToldInv, Told, Running, WalkTold, ListTold, HasList, Demands,
       NoVerdict
  <2> QED
    BY <2>3, <2>4, <2>5 DEF PredictInv
<1> QED
  BY <1>1, <1>2, <1>3, <1>4, <1>5 DEF Next

(* What a canary says ok of, a fetch finds: for every source, and any      *)
(* number of signals that the site may lose.                               *)
THEOREM CanariesPredictFetches == Spec => []CanaryPredicts
<1>1. Init => Ranges /\ PredictInv
  BY InitRanges DEF Init, PredictInv, CanaryInv, VerdictInv, ToldInv, Told, NoVerdict
<1>2. Ranges /\ PredictInv /\ [Next]_vars => (Ranges /\ PredictInv)'
  BY NextRanges, NextPredict
<1>3. Ranges /\ PredictInv => CanaryPredicts
  <2>1. SUFFICES ASSUME Ranges, ToldInv, program = "fetch", ~Running, ~failed,
                        verdict # NoVerdict, item.kind \in {Canary.kind, "series"},
                        source = "comic_action" =>
                          item.kind = "episode" /\ item.seed = 1 /\ linked <= 1 + MaxHops
                 PROVE  outcome = "returned" /\ latest = verdict
    BY DEF PredictInv, CanaryPredicts
  <2>2. Told
    BY <2>1 DEF Told
  <2>3. outcome = "returned"
    BY <2>1, <2>2 DEF ToldInv, Ranges, Running
  <2> QED
    BY <2>1, <2>2, <2>3 DEF ToldInv
<1> QED
  BY <1>1, <1>2, <1>3, PTL DEF Spec
=============================================================================
